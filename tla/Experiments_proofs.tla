--------------------------- MODULE Experiments_proofs ---------------------------
(***************************************************************************)
(* The two experiments that walk through the versions of the data set.     *)
(*                                                                         *)
(* History: what HistoryInformationManager says of every file is exact,    *)
(* its exd_value and rocket_value order as stated, and the ranking of      *)
(* history_main.py looks at earlier versions only, for every data set.     *)
(*                                                                         *)
(* IR: the token file of ir_main.py survives kills, and the lookups of the *)
(* Bm25Model are defined, for every data set and any number of kills.      *)
(***************************************************************************)
EXTENDS History, IR, Lemmas

\* Lists of the manager: one entry for each version that was handled and
\* one for the time before.
Lists(l, S, n) ==
  l \in [Keys -> Seq(S)] /\ \A k \in Keys : Len(l[k]) = n

\* The control of extract and of the ranking, and the lists' types.
HistoryShape ==
  /\ versions \in Seq([FilePath -> Result])
  /\ h_pc \in {"extract", "rank"} /\ i \in Nat \ {0}
  /\ h_pc = "extract" => i =< Len(versions) + 1
  /\ Lists(failed_count, Nat, Entries) /\ Lists(executed_count, Nat, Entries)
  /\ Lists(last_failure_time, Nat \cup {None}, Entries)
  /\ Lists(last_executed_time, Nat \cup {None}, Entries)
  /\ Lists(exd_value, Double, Entries) /\ Lists(rocket_value, Nat, Entries)

\* Before the first version nothing has failed.
ExdStart == \A k \in Keys : exd_value[k][0 + 1] = 0

\* The order of exd_value starts from ExdStart, and that of rocket_value
\* needs the counts of HistoryExact.
HistoryInv == HistoryShape /\ HistoryExact /\ ExdStart /\ ExdByRecency /\ RocketOrder

\* The lists after an entry is appended to each: the old ones, and one more.
Extended(l, a, v) ==
  \A k \in Keys : /\ a[k][i + 1] = v[k]
                  /\ \A n \in 0 .. i - 1 : a[k][n + 1] = l[k][n + 1]
                  /\ LastEntry(l[k]) = l[k][(i - 1) + 1]

\* What Appended does.
LEMMA AppendEntry ==
  ASSUME i \in Nat \ {0}, NEW S, NEW l, Lists(l, S, i), NEW v, \A k \in Keys : v[k] \in S
  PROVE  /\ Lists(Appended(l, v), S, i + 1)
         /\ Extended(l, Appended(l, v), v)
  BY DEF Lists, Appended, LastEntry, Extended

\* One more version, counted and the latest.
LEMMA CountNext ==
  ASSUME NEW n \in Nat \ {0}, NEW S, S \subseteq 1 .. n - 1
  PROVE  /\ Cardinality(S) \in Nat /\ Cardinality(S \cup {n}) = Cardinality(S) + 1
         /\ LatestOf(S \cup {n}) = n
<1>1. IsFiniteSet(S)
  <2>1. 1 \in Int /\ n - 1 \in Int
    OBVIOUS
  <2>2. IsFiniteSet(1 .. n - 1)
    BY <2>1, FS_Interval, Zenon
  <2> QED
    BY <2>2, FS_Subset, Zenon
<1>2. Cardinality(S) \in Nat /\ Cardinality(S \cup {n}) = Cardinality(S) + 1
  BY <1>1, FS_AddElement, FS_CardinalityType
<1>3. n \in S \cup {n} /\ \A y \in S \cup {n} : n >= y
  OBVIOUS
<1>4. \A x \in S \cup {n} : (\A y \in S \cup {n} : x >= y) => x = n
  OBVIOUS
<1>5. Max(S \cup {n}) = n
  BY <1>3, <1>4, Zenon DEF Max
<1> QED
  BY <1>2, <1>5, Zenon DEF LatestOf

\* What the next version adds to the failures and the runs of a file.
LEMMA UpToNext ==
  ASSUME HistoryShape, i =< Len(versions), NEW k \in Keys
  PROVE  /\ FailsUpTo(i, k) = IF Failed(i, k) THEN FailsUpTo(i - 1, k) \cup {i}
                              ELSE FailsUpTo(i - 1, k)
         /\ RunsUpTo(i, k) = IF versions[i][k] = "absent" THEN RunsUpTo(i - 1, k)
                             ELSE RunsUpTo(i - 1, k) \cup {i}
         /\ FailsUpTo(i - 1, k) \subseteq 1 .. i - 1
         /\ RunsUpTo(i - 1, k) \subseteq 1 .. i - 1
<1>1. i \in Nat \ {0}
  BY Zenon DEF HistoryShape
<1>2. \A v : v \in 1 .. i <=> v \in 1 .. i - 1 \/ v = i
  BY <1>1
<1> QED
  BY <1>1, <1>2, Zenon DEF FailsUpTo, RunsUpTo

\* What extract leaves alone, and how many entries there are afterwards.
LEMMA ExtractFrame ==
  ASSUME HistoryShape, extract
  PROVE  /\ versions' = versions /\ Keys' = Keys /\ h_pc = "extract" /\ h_pc' = "extract"
         /\ i \in Nat \ {0} /\ i' = i + 1 /\ i =< Len(versions) /\ Len(versions) \in Nat
         /\ Entries = i /\ Entries' = i + 1
         /\ \A n, k : FailsUpTo(n, k)' = FailsUpTo(n, k) /\ RunsUpTo(n, k)' = RunsUpTo(n, k)
         /\ \A v, k : Failed(v, k)' = Failed(v, k)
  BY DEF HistoryShape, extract, Keys, Entries, FailsUpTo, RunsUpTo, Failed

\* The values that extract appends have their types.
LEMMA ExtractTypes ==
  ASSUME HistoryAssumption, HistoryShape, extract
  PROVE  \A k \in Keys :
           /\ ExecutedNow(k) \in Nat /\ ExdNow(k) \in Double /\ RocketNow(k) \in Nat
           /\ LastEntry(failed_count[k]) \in Nat
           /\ LastEntry(last_failure_time[k]) \in Nat \cup {None}
           /\ LastEntry(last_executed_time[k]) \in Nat \cup {None}
<1> SUFFICES ASSUME NEW k \in Keys
    PROVE  /\ ExecutedNow(k) \in Nat /\ ExdNow(k) \in Double /\ RocketNow(k) \in Nat
           /\ LastEntry(failed_count[k]) \in Nat
           /\ LastEntry(last_failure_time[k]) \in Nat \cup {None}
           /\ LastEntry(last_executed_time[k]) \in Nat \cup {None}
  BY Zenon
<1>0. i \in Nat \ {0} /\ Entries = i
  BY ExtractFrame, Zenon
<1>1. /\ LastEntry(failed_count[k]) \in Nat /\ LastEntry(executed_count[k]) \in Nat
      /\ LastEntry(exd_value[k]) \in Double
      /\ LastEntry(last_failure_time[k]) \in Nat \cup {None}
      /\ LastEntry(last_executed_time[k]) \in Nat \cup {None}
  BY <1>0 DEF HistoryShape, Lists, LastEntry
<1>2. ExecutedNow(k) \in Nat
  BY <1>1 DEF ExecutedNow
<1>3. ExdNow(k) \in Double
  <2>1. Fade \in [Double -> Double] /\ AddAlpha \in [Double -> Double]
    BY Zenon DEF HistoryAssumption
  <2> QED
    BY <1>1, <2>1, Zenon DEF ExdNow
<1>4. RocketNow(k) \in Nat
  <2> DEFINE w == [j \in 0 .. i - 1 |-> IF Failed(j + 1, k) THEN RocketWeight(j) ELSE 0]
  <2>1. DOMAIN w = 0 .. i - 1 /\ \A j \in 0 .. i - 1 : w[j] \in Nat
    BY Zenon DEF RocketWeight
  <2>2. IsFiniteSet(0 .. i - 1)
    BY <1>0, FS_Interval
  <2>3. RocketNow(k) = SumFunctionOnSet(w, DOMAIN w)
    BY Zenon DEF RocketNow, SumFunction
  <2> HIDE DEF w
  <2> QED
    BY <2>1, <2>2, <2>3, SumType, Zenon
<1> QED
  BY <1>1, <1>2, <1>3, <1>4, Zenon

\* extract extends every list.
LEMMA ExtractLists ==
  ASSUME HistoryAssumption, HistoryShape, extract
  PROVE  /\ HistoryShape'
         /\ Extended(executed_count, executed_count', [k \in Keys |-> ExecutedNow(k)])
         /\ Extended(last_executed_time, last_executed_time', [k \in Keys |->
              IF versions[i][k] = "absent" THEN LastEntry(last_executed_time[k]) ELSE i])
         /\ Extended(last_failure_time, last_failure_time', [k \in Keys |->
              IF Failed(i, k) THEN i ELSE LastEntry(last_failure_time[k])])
         /\ Extended(failed_count, failed_count', [k \in Keys |->
              LastEntry(failed_count[k]) + IF Failed(i, k) THEN 1 ELSE 0])
         /\ Extended(exd_value, exd_value', [k \in Keys |-> ExdNow(k)])
         /\ Extended(rocket_value, rocket_value', [k \in Keys |-> RocketNow(k)])
<1>1. /\ Keys' = Keys /\ h_pc = "extract" /\ h_pc' = "extract"
      /\ i' = i + 1 /\ i \in Nat \ {0}
      /\ i =< Len(versions) /\ Len(versions) \in Nat /\ versions' = versions
      /\ Entries = i /\ Entries' = i + 1
  BY ExtractFrame, Zenon
<1> DEFINE ec == [k \in Keys |-> ExecutedNow(k)]
           let == [k \in Keys |->
              IF versions[i][k] = "absent" THEN LastEntry(last_executed_time[k]) ELSE i]
           lft == [k \in Keys |-> IF Failed(i, k) THEN i ELSE LastEntry(last_failure_time[k])]
           fc == [k \in Keys |-> LastEntry(failed_count[k]) + IF Failed(i, k) THEN 1 ELSE 0]
           ev == [k \in Keys |-> ExdNow(k)]
           rv == [k \in Keys |-> RocketNow(k)]
<1>3. /\ \A k \in Keys : ec[k] \in Nat
      /\ \A k \in Keys : let[k] \in Nat \cup {None}
      /\ \A k \in Keys : lft[k] \in Nat \cup {None}
      /\ \A k \in Keys : fc[k] \in Nat
      /\ \A k \in Keys : ev[k] \in Double
      /\ \A k \in Keys : rv[k] \in Nat
  BY <1>1, ExtractTypes
<1>4. /\ executed_count' = Appended(executed_count, ec)
      /\ last_executed_time' = Appended(last_executed_time, let)
      /\ last_failure_time' = Appended(last_failure_time, lft)
      /\ failed_count' = Appended(failed_count, fc)
      /\ exd_value' = Appended(exd_value, ev)
      /\ rocket_value' = Appended(rocket_value, rv)
  BY Zenon DEF extract
<1>5. /\ Lists(executed_count, Nat, i) /\ Lists(failed_count, Nat, i)
      /\ Lists(last_executed_time, Nat \cup {None}, i)
      /\ Lists(last_failure_time, Nat \cup {None}, i)
      /\ Lists(exd_value, Double, i) /\ Lists(rocket_value, Nat, i)
  BY <1>1, Zenon DEF HistoryShape
<1> HIDE DEF ec, let, lft, fc, ev, rv
<1>6. Lists(executed_count', Nat, i + 1) /\ Extended(executed_count, executed_count', ec)
  BY <1>1, <1>3, <1>4, <1>5, AppendEntry
<1>7. /\ Lists(last_executed_time', Nat \cup {None}, i + 1)
      /\ Extended(last_executed_time, last_executed_time', let)
  BY <1>1, <1>3, <1>4, <1>5, AppendEntry, Zenon
<1>8. /\ Lists(last_failure_time', Nat \cup {None}, i + 1)
      /\ Extended(last_failure_time, last_failure_time', lft)
  BY <1>1, <1>3, <1>4, <1>5, AppendEntry, Zenon
<1>9. Lists(failed_count', Nat, i + 1) /\ Extended(failed_count, failed_count', fc)
  BY <1>1, <1>3, <1>4, <1>5, AppendEntry, Zenon
<1>10. Lists(exd_value', Double, i + 1) /\ Extended(exd_value, exd_value', ev)
  BY <1>1, <1>3, <1>4, <1>5, AppendEntry
<1>11. Lists(rocket_value', Nat, i + 1) /\ Extended(rocket_value, rocket_value', rv)
  BY <1>1, <1>3, <1>4, <1>5, AppendEntry
<1>12. HistoryShape'
  <2>1. /\ Lists(executed_count, Nat, Entries)' /\ Lists(failed_count, Nat, Entries)'
        /\ Lists(exd_value, Double, Entries)' /\ Lists(rocket_value, Nat, Entries)'
    BY <1>1, <1>6, <1>9, <1>10, <1>11, Zenon DEF Lists
  <2>2. /\ Lists(last_failure_time, Nat \cup {None}, Entries)'
        /\ Lists(last_executed_time, Nat \cup {None}, Entries)'
    BY <1>1, <1>7, <1>8, Zenon DEF Lists
  <2>3. versions \in Seq([FilePath -> Result])
    BY Zenon DEF HistoryShape
  <2> QED
    BY <1>1, <2>1, <2>2, <2>3 DEF HistoryShape, Result
<1> QED
  BY <1>6, <1>7, <1>8, <1>9, <1>10, <1>11, <1>12 DEF ec, let, lft, fc, ev, rv

\* The counts and times that extract appends are those of one more version.
LEMMA ExtractExact ==
  ASSUME HistoryAssumption, HistoryShape, HistoryExact, extract
  PROVE  HistoryExact'
<1>1. /\ Keys' = Keys /\ i \in Nat \ {0} /\ i =< Len(versions)
      /\ Entries = i /\ Entries' = i + 1
      /\ \A n, k : FailsUpTo(n, k)' = FailsUpTo(n, k) /\ RunsUpTo(n, k)' = RunsUpTo(n, k)
  BY ExtractFrame, Zenon
<1>2. SUFFICES ASSUME NEW k \in Keys, NEW n \in 0 .. i
      PROVE  /\ failed_count'[k][n + 1] = Cardinality(FailsUpTo(n, k))
             /\ executed_count'[k][n + 1] = Cardinality(RunsUpTo(n, k))
             /\ last_failure_time'[k][n + 1] = LatestOf(FailsUpTo(n, k))
             /\ last_executed_time'[k][n + 1] = LatestOf(RunsUpTo(n, k))
  BY <1>1 DEF HistoryExact, LatestOf
<1>3. ASSUME NEW j \in 0 .. i - 1
      PROVE  /\ failed_count[k][j + 1] = Cardinality(FailsUpTo(j, k))
             /\ executed_count[k][j + 1] = Cardinality(RunsUpTo(j, k))
             /\ last_failure_time[k][j + 1] = LatestOf(FailsUpTo(j, k))
             /\ last_executed_time[k][j + 1] = LatestOf(RunsUpTo(j, k))
  BY <1>1, Zenon DEF HistoryExact
<1>4. CASE n \in 0 .. i - 1
  BY <1>3, <1>4, ExtractLists DEF Extended
<1>5. CASE n = i
  <2>1. /\ failed_count'[k][i + 1] = LastEntry(failed_count[k]) + (IF Failed(i, k) THEN 1 ELSE 0)
        /\ executed_count'[k][i + 1] = ExecutedNow(k)
        /\ last_failure_time'[k][i + 1]
             = (IF Failed(i, k) THEN i ELSE LastEntry(last_failure_time[k]))
        /\ last_executed_time'[k][i + 1]
             = (IF versions[i][k] = "absent" THEN LastEntry(last_executed_time[k]) ELSE i)
    BY ExtractLists, Zenon DEF Extended
  <2>2. /\ LastEntry(failed_count[k]) = Cardinality(FailsUpTo(i - 1, k))
        /\ LastEntry(executed_count[k]) = Cardinality(RunsUpTo(i - 1, k))
        /\ LastEntry(last_failure_time[k]) = LatestOf(FailsUpTo(i - 1, k))
        /\ LastEntry(last_executed_time[k]) = LatestOf(RunsUpTo(i - 1, k))
    <3>1. i - 1 \in 0 .. i - 1
      BY <1>1
    <3> QED
      BY <1>3, <3>1, ExtractLists DEF Extended
  <2>3. /\ FailsUpTo(i, k) = IF Failed(i, k) THEN FailsUpTo(i - 1, k) \cup {i}
                             ELSE FailsUpTo(i - 1, k)
        /\ RunsUpTo(i, k) = IF versions[i][k] = "absent" THEN RunsUpTo(i - 1, k)
                            ELSE RunsUpTo(i - 1, k) \cup {i}
        /\ FailsUpTo(i - 1, k) \subseteq 1 .. i - 1
        /\ RunsUpTo(i - 1, k) \subseteq 1 .. i - 1
    BY <1>1, UpToNext, Zenon
  <2>4. /\ Cardinality(FailsUpTo(i - 1, k)) \in Nat
        /\ Cardinality(FailsUpTo(i - 1, k) \cup {i})
             = Cardinality(FailsUpTo(i - 1, k)) + 1
        /\ LatestOf(FailsUpTo(i - 1, k) \cup {i}) = i
    BY <1>1, <2>3, CountNext, Zenon
  <2>5. /\ Cardinality(RunsUpTo(i - 1, k)) \in Nat
        /\ Cardinality(RunsUpTo(i - 1, k) \cup {i})
             = Cardinality(RunsUpTo(i - 1, k)) + 1
        /\ LatestOf(RunsUpTo(i - 1, k) \cup {i}) = i
    BY <1>1, <2>3, CountNext, Zenon
  <2>6. /\ failed_count'[k][i + 1] = Cardinality(FailsUpTo(i, k))
        /\ last_failure_time'[k][i + 1] = LatestOf(FailsUpTo(i, k))
    BY <2>1, <2>2, <2>3, <2>4
  <2>7. /\ executed_count'[k][i + 1] = Cardinality(RunsUpTo(i, k))
        /\ last_executed_time'[k][i + 1] = LatestOf(RunsUpTo(i, k))
    BY <2>1, <2>2, <2>3, <2>5 DEF ExecutedNow
  <2> QED
    BY <1>5, <2>6, <2>7, Zenon
<1> QED
  BY <1>1, <1>4, <1>5

\* The greatest of some versions, with the latest one among them or not.
LEMMA MaxNext ==
  ASSUME NEW n \in Nat \ {0}, NEW D, D \subseteq 1 .. n, n \in D
  PROVE  Max(D) = n
<1>1. n \in D /\ \A y \in D : n >= y
  OBVIOUS
<1>2. \A x \in D : (\A y \in D : x >= y) => x = n
  OBVIOUS
<1> QED
  BY <1>1, <1>2, Zenon DEF Max

\* The value that extract appends to exd_value.
LEMMA ExdNext ==
  ASSUME HistoryAssumption, HistoryShape, extract, NEW k \in Keys
  PROVE  /\ exd_value[k][(i - 1) + 1] \in Double /\ exd_value'[k][i + 1] \in Double
         /\ exd_value'[k][i + 1] = IF Failed(i, k)
                                   THEN AddAlpha[Fade[exd_value[k][(i - 1) + 1]]]
                                   ELSE Fade[exd_value[k][(i - 1) + 1]]
<1>1. i \in Nat \ {0} /\ Entries = i
  BY ExtractFrame
<1>2. /\ LastEntry(exd_value[k]) = exd_value[k][(i - 1) + 1]
      /\ exd_value'[k][i + 1] = ExdNow(k)
  BY ExtractLists, Zenon DEF Extended
<1>3. exd_value[k][(i - 1) + 1] \in Double
  BY <1>1 DEF HistoryShape, Lists
<1>4. ExdNow(k) \in Double
  BY ExtractTypes, Zenon
<1> QED
  BY <1>2, <1>3, <1>4, Zenon DEF ExdNow

\* Rounded arithmetic keeps the order, and a failure outweighs all before it.
LEMMA Rounding ==
  ASSUME HistoryAssumption, NEW x \in Double, NEW y \in Double
  PROVE  /\ Fade[x] > Fade[y] => x > y
         /\ AddAlpha[Fade[x]] > AddAlpha[Fade[y]] => x > y
         /\ AddAlpha[Fade[x]] > Fade[y]
<1>1. /\ Fade[x] \in Double /\ Fade[y] \in Double
      /\ AddAlpha[Fade[x]] \in Double /\ AddAlpha[Fade[y]] \in Double
  BY Zenon DEF HistoryAssumption
<1>2. \A d \in Double : d \in Nat
  BY DEF Double, HistoryAssumption
<1>3. /\ x =< y => Fade[x] =< Fade[y]
      /\ Fade[x] =< Fade[y] => AddAlpha[Fade[x]] =< AddAlpha[Fade[y]]
      /\ Fade[y] < AddAlpha[Fade[x]]
  BY <1>1, Zenon DEF HistoryAssumption
<1> QED
  BY <1>1, <1>2, <1>3

\* exd_value orders by recency after one more version.
LEMMA ExtractExd ==
  ASSUME HistoryAssumption, HistoryShape, ExdStart, ExdByRecency, extract
  PROVE  ExdStart' /\ ExdByRecency'
<1>1. /\ Keys' = Keys /\ i \in Nat \ {0} /\ Entries = i /\ Entries' = i + 1
      /\ \A v, k : Failed(v, k)' = Failed(v, k)
  BY ExtractFrame, Zenon
<1>0. ExdStart'
  <2>1. 0 \in 0 .. i - 1
    BY <1>1
  <2>2. \A k \in Keys : exd_value'[k][0 + 1] = exd_value[k][0 + 1]
    BY <2>1, ExtractLists, Zenon DEF Extended
  <2> QED
    BY <1>1, <2>2, Zenon DEF ExdStart
<1> DEFINE differ(n, a, b) == {v \in 1 .. n : Failed(v, a) # Failed(v, b)}
           later(n, a, b) == differ(n, a, b) # {} /\ Failed(Max(differ(n, a, b)), a)
<1>2. SUFFICES ASSUME NEW a \in Keys, NEW b \in Keys, NEW n \in 1 .. i
      PROVE  /\ exd_value'[a][n + 1] > exd_value'[b][n + 1] => later(n, a, b)
             /\ Failed(n, a) /\ ~ Failed(n, b) =>
                  exd_value'[a][n + 1] > exd_value'[b][n + 1]
  BY <1>0, <1>1 DEF ExdByRecency
<1>3. \A j \in 1 .. i - 1 :
        /\ exd_value[a][j + 1] > exd_value[b][j + 1] => later(j, a, b)
        /\ Failed(j, a) /\ ~ Failed(j, b) => exd_value[a][j + 1] > exd_value[b][j + 1]
  BY <1>1, Zenon DEF ExdByRecency
<1>4. CASE n \in 1 .. i - 1
  <2>1. n \in 0 .. i - 1
    BY <1>4
  <2>2. /\ exd_value'[a][n + 1] = exd_value[a][n + 1]
        /\ exd_value'[b][n + 1] = exd_value[b][n + 1]
    BY <2>1, ExtractLists DEF Extended
  <2> HIDE DEF later
  <2> QED
    BY <1>3, <1>4, <2>2, Zenon
<1>5. CASE n = i
  <2> DEFINE ea == exd_value[a][(i - 1) + 1]
             eb == exd_value[b][(i - 1) + 1]
  <2>1. /\ ea \in Double
        /\ exd_value'[a][i + 1] = IF Failed(i, a) THEN AddAlpha[Fade[ea]] ELSE Fade[ea]
    BY ExdNext, Zenon
  <2>2. /\ eb \in Double
        /\ exd_value'[b][i + 1] = IF Failed(i, b) THEN AddAlpha[Fade[eb]] ELSE Fade[eb]
    BY ExdNext, Zenon
  <2>3. ea > eb => later(i - 1, a, b)
    <3>1. CASE i - 1 = 0
      <4>1. ea = 0 /\ eb = 0
        BY <3>1, Zenon DEF ExdStart
      <4> QED
        BY <4>1
    <3>2. CASE i - 1 # 0
      <4>1. i - 1 \in 1 .. i - 1
        BY <1>1, <3>2
      <4> QED
        BY <1>3, <4>1, Zenon
    <3> QED
      BY <3>1, <3>2, Zenon
  <2> HIDE DEF ea, eb
  <2>4. CASE Failed(i, a) = Failed(i, b)
    <3>1. differ(i, a, b) = differ(i - 1, a, b)
      BY <1>1, <2>4
    <3>2. later(i, a, b) <=> later(i - 1, a, b)
      BY <3>1, Zenon
    <3>3. exd_value'[a][i + 1] > exd_value'[b][i + 1] => ea > eb
      BY <2>1, <2>2, <2>4, Rounding, Zenon
    <3> HIDE DEF later
    <3> QED
      BY <1>5, <2>3, <2>4, <3>2, <3>3, Zenon
  <2>5. CASE Failed(i, a) # Failed(i, b)
    <3>1. differ(i, a, b) \subseteq 1 .. i /\ i \in differ(i, a, b)
      BY <1>1, <2>5
    <3>2. Max(differ(i, a, b)) = i
      <4> HIDE DEF differ
      <4> QED
        BY <1>1, <3>1, MaxNext, Zenon
    <3>3. later(i, a, b) <=> Failed(i, a)
      BY <3>1, <3>2, Zenon
    <3>4. CASE Failed(i, a)
      <4>1. exd_value'[a][i + 1] > exd_value'[b][i + 1]
        BY <2>1, <2>2, <2>5, <3>4, Rounding, Zenon DEF Failed
      <4> HIDE DEF later
      <4> QED
        BY <1>5, <3>3, <3>4, <4>1, Zenon
    <3>5. CASE ~ Failed(i, a)
      <4>1. exd_value'[b][i + 1] > exd_value'[a][i + 1]
        BY <2>1, <2>2, <2>5, <3>5, Rounding, Zenon DEF Failed
      <4>2. exd_value'[a][i + 1] \in Nat /\ exd_value'[b][i + 1] \in Nat
        <5>1. \A d \in Double : d \in Nat
          BY DEF Double, HistoryAssumption
        <5> QED
          BY <5>1, ExdNext, Zenon
      <4>3. ~ (exd_value'[a][i + 1] > exd_value'[b][i + 1])
        BY <4>1, <4>2
      <4> HIDE DEF later
      <4> QED
        BY <1>5, <3>5, <4>3, Zenon
    <3> QED
      BY <3>4, <3>5, Zenon
  <2> QED
    BY <2>4, <2>5, Zenon
<1> QED
  BY <1>1, <1>4, <1>5

\* rocket_value is seven for a failure in the last version and a weight for
\* every older one, which is the same for all of them.
LEMMA RocketCounts ==
  ASSUME i \in Nat \ {0}, NEW k
  PROVE  /\ Cardinality(FailsUpTo(i - 1, k)) \in 0 .. i - 1
         /\ RocketNow(k) = (IF Failed(i, k) THEN 7 ELSE 0)
              + (IF i = 2 THEN 2 ELSE 1) * Cardinality(FailsUpTo(i - 1, k))
<1> DEFINE w == [j \in 0 .. i - 1 |-> IF Failed(j + 1, k) THEN RocketWeight(j) ELSE 0]
           c == IF i = 2 THEN 2 ELSE 1
           count(q) == Cardinality(FailsUpTo(q, k))
           T == {q \in Nat : q =< i - 1 => SumFunctionOnSet(w, 0 .. q - 1) = c * count(q)}
<1>1. /\ \A j \in 0 .. i - 1 : w[j] \in Nat
      /\ \A j \in 0 .. i - 2 : w[j] = IF Failed(j + 1, k) THEN c ELSE 0
      /\ w[i - 1] = IF Failed(i, k) THEN 7 ELSE 0
  <2>1. \A j \in 0 .. i - 1 : w[j] = IF Failed(j + 1, k) THEN RocketWeight(j) ELSE 0
    BY Zenon
  <2>2. /\ \A j \in 0 .. i - 1 : RocketWeight(j) \in Nat
        /\ \A j \in 0 .. i - 2 : RocketWeight(j) = c /\ j \in 0 .. i - 1
        /\ RocketWeight(i - 1) = 7 /\ i - 1 \in 0 .. i - 1 /\ (i - 1) + 1 = i
    BY DEF RocketWeight
  <2> HIDE DEF w, c
  <2> QED
    BY <2>1, <2>2
<1>2. RocketNow(k) = SumFunctionOnSet(w, 0 .. i - 1)
  BY Zenon DEF RocketNow, SumFunction
<1>3. c \in {1, 2}
  BY Zenon
<1> HIDE DEF w, c
<1>4. \A q \in Nat : IsFiniteSet(0 .. q - 1) /\ IsFiniteSet(1 .. q) /\ Cardinality(1 .. q) = q
  BY FS_Interval
<1>5. \A q \in Nat : FailsUpTo(q, k) \subseteq 1 .. q
  BY Zenon DEF FailsUpTo
<1>6. \A q \in Nat : count(q) \in 0 .. q
  <2>1. \A q \in Nat : count(q) =< q /\ count(q) \in Nat
    <3>1. ASSUME NEW q \in Nat PROVE count(q) =< q /\ count(q) \in Nat
      <4>1. IsFiniteSet(FailsUpTo(q, k)) /\ Cardinality(FailsUpTo(q, k)) =< Cardinality(1 .. q)
        BY <1>4, <1>5, FS_Subset, Zenon
      <4> QED
        BY <1>4, <4>1, FS_CardinalityType, Zenon
    <3> QED
      BY <3>1, Zenon
  <2> HIDE DEF count
  <2> QED
    BY <2>1
<1>7. 0 \in T
  <2>1. 0 .. 0 - 1 = {} /\ FailsUpTo(0, k) = {}
    BY DEF FailsUpTo
  <2>2. SumFunctionOnSet(w, {}) = 0 /\ Cardinality({}) = 0
    BY SumEmpty, FS_EmptySet, Zenon
  <2> QED
    BY <1>3, <2>1, <2>2
<1>8. ASSUME NEW q \in Nat, q \in T PROVE q + 1 \in T
  <2>1. SUFFICES ASSUME q + 1 =< i - 1
        PROVE  SumFunctionOnSet(w, 0 .. (q + 1) - 1) = c * count(q + 1)
    OBVIOUS
  <2>2. SumFunctionOnSet(w, 0 .. q - 1) = c * count(q)
    BY <1>8, <2>1
  <2>3. /\ 0 .. (q + 1) - 1 = (0 .. q - 1) \cup {q} /\ q \notin 0 .. q - 1
        /\ q \in 0 .. i - 2 /\ \A y \in (0 .. q - 1) \cup {q} : y \in 0 .. i - 1
    BY <2>1
  <2>4. SumFunctionOnSet(w, (0 .. q - 1) \cup {q}) = SumFunctionOnSet(w, 0 .. q - 1) + w[q]
    <3>1. \A y \in (0 .. q - 1) \cup {q} : w[y] \in Nat
      BY <1>1, <2>3, Zenon
    <3> QED
      BY <1>4, <2>3, <3>1, SumAdd, Zenon
  <2>5. count(q + 1) = count(q) + IF Failed(q + 1, k) THEN 1 ELSE 0
    <3>1. /\ q + 1 \in Nat \ {0} /\ (q + 1) - 1 = q
          /\ \A v : v \in 1 .. q + 1 <=> v \in 1 .. q \/ v = q + 1
      OBVIOUS
    <3>2. FailsUpTo(q + 1, k) = IF Failed(q + 1, k) THEN FailsUpTo(q, k) \cup {q + 1}
                                ELSE FailsUpTo(q, k)
      BY <3>1, Zenon DEF FailsUpTo
    <3>3. Cardinality(FailsUpTo(q, k) \cup {q + 1}) = count(q) + 1
      BY <1>5, <3>1, CountNext, Zenon
    <3>4. count(q) \in Nat
      BY <1>6
    <3> QED
      BY <3>2, <3>3, <3>4
  <2>6. w[q] = IF Failed(q + 1, k) THEN c ELSE 0
    BY <1>1, <2>3, Zenon
  <2>7. count(q) \in Nat
    BY <1>6
  <2> HIDE DEF count
  <2>8. SumFunctionOnSet(w, 0 .. (q + 1) - 1) = c * count(q) + IF Failed(q + 1, k) THEN c ELSE 0
    BY <2>2, <2>3, <2>4, <2>6, Zenon
  <2>9. CASE c = 1
    BY <2>5, <2>7, <2>8, <2>9
  <2>10. CASE c = 2
    BY <2>5, <2>7, <2>8, <2>10
  <2> QED
    BY <1>3, <2>9, <2>10, Zenon
<1>9. SumFunctionOnSet(w, 0 .. (i - 1) - 1) = c * count(i - 1)
  <2>1. \A q \in Nat : q \in T
    <3> HIDE DEF T
    <3> QED
      BY <1>7, <1>8, NatInduces, Zenon
  <2>2. i - 1 \in Nat /\ i - 1 =< i - 1
    OBVIOUS
  <2> QED
    BY <2>1, <2>2, Zenon
<1>10. /\ 0 .. i - 1 = (0 .. (i - 1) - 1) \cup {i - 1} /\ i - 1 \notin 0 .. (i - 1) - 1
       /\ i - 1 \in Nat
  OBVIOUS
<1>11. SumFunctionOnSet(w, 0 .. i - 1) = SumFunctionOnSet(w, 0 .. (i - 1) - 1) + w[i - 1]
  <2>1. \A y \in (0 .. (i - 1) - 1) \cup {i - 1} : w[y] \in Nat
    BY <1>1, <1>10, Zenon
  <2> QED
    BY <1>4, <1>10, <2>1, SumAdd, Zenon
<1>12. count(i - 1) \in 0 .. i - 1
  BY <1>6, <1>10, Zenon
<1>13. RocketNow(k) = (IF Failed(i, k) THEN 7 ELSE 0) + c * count(i - 1)
  <2> HIDE DEF count
  <2> QED
    BY <1>1, <1>2, <1>3, <1>9, <1>11, <1>12
<1> QED
  BY <1>12, <1>13, Zenon DEF c

\* rocket_value after one more version.
LEMMA ExtractRocket ==
  ASSUME HistoryAssumption, HistoryShape, HistoryExact, RocketOrder, extract
  PROVE  RocketOrder'
<1>1. /\ Keys' = Keys /\ i \in Nat \ {0} /\ i =< Len(versions)
      /\ Entries = i /\ Entries' = i + 1
      /\ \A v, k : Failed(v, k)' = Failed(v, k)
      /\ \A n, k : FailsUpTo(n, k)' = FailsUpTo(n, k)
  BY ExtractFrame, Zenon
<1>2. SUFFICES ASSUME NEW a \in Keys, NEW b \in Keys, NEW n \in 1 .. i
      PROVE  /\ n =< 7 /\ Failed(n, a) /\ ~ Failed(n, b) =>
                  rocket_value'[a][n + 1] > rocket_value'[b][n + 1]
             /\ (Failed(n, a) <=> Failed(n, b)) =>
                  (rocket_value'[a][n + 1] > rocket_value'[b][n + 1] <=>
                     failed_count'[a][n + 1] > failed_count'[b][n + 1])
  BY <1>1 DEF RocketOrder
<1>3. CASE n \in 1 .. i - 1
  <2>1. n \in 0 .. i - 1
    BY <1>3
  <2>2. /\ rocket_value'[a][n + 1] = rocket_value[a][n + 1]
        /\ rocket_value'[b][n + 1] = rocket_value[b][n + 1]
        /\ failed_count'[a][n + 1] = failed_count[a][n + 1]
        /\ failed_count'[b][n + 1] = failed_count[b][n + 1]
    <3>1. /\ Extended(rocket_value, rocket_value', [k \in Keys |-> RocketNow(k)])
          /\ Extended(failed_count, failed_count', [k \in Keys |->
               LastEntry(failed_count[k]) + IF Failed(i, k) THEN 1 ELSE 0])
      BY ExtractLists, Zenon
    <3> QED
      BY <2>1, <3>1, Zenon DEF Extended
  <2>3. n \in 1 .. Entries - 1
    BY <1>1, <1>3, Zenon
  <2> QED
    BY <2>2, <2>3 DEF RocketOrder
<1>4. CASE n = i
  <2> DEFINE x == Cardinality(FailsUpTo(i - 1, a))
             y == Cardinality(FailsUpTo(i - 1, b))
  <2>1. ASSUME NEW k \in Keys
        PROVE  /\ rocket_value'[k][i + 1] = RocketNow(k)
               /\ failed_count'[k][i + 1]
                    = Cardinality(FailsUpTo(i - 1, k)) + IF Failed(i, k) THEN 1 ELSE 0
    <3>1. /\ rocket_value'[k][i + 1] = RocketNow(k)
          /\ failed_count'[k][i + 1]
               = LastEntry(failed_count[k]) + (IF Failed(i, k) THEN 1 ELSE 0)
          /\ LastEntry(failed_count[k]) = failed_count[k][(i - 1) + 1]
      BY ExtractLists, Zenon DEF Extended
    <3>2. i - 1 \in 0 .. Entries - 1
      BY <1>1
    <3>3. failed_count[k][(i - 1) + 1] = Cardinality(FailsUpTo(i - 1, k))
      BY <3>2, Zenon DEF HistoryExact
    <3> QED
      BY <3>1, <3>3, Zenon
  <2>2. /\ x \in 0 .. i - 1
        /\ RocketNow(a) = (IF Failed(i, a) THEN 7 ELSE 0) + (IF i = 2 THEN 2 ELSE 1) * x
    BY <1>1, RocketCounts, Zenon
  <2>3. /\ y \in 0 .. i - 1
        /\ RocketNow(b) = (IF Failed(i, b) THEN 7 ELSE 0) + (IF i = 2 THEN 2 ELSE 1) * y
    BY <1>1, RocketCounts, Zenon
  <2>4. /\ rocket_value'[a][i + 1] = RocketNow(a) /\ rocket_value'[b][i + 1] = RocketNow(b)
        /\ failed_count'[a][i + 1] = x + IF Failed(i, a) THEN 1 ELSE 0
        /\ failed_count'[b][i + 1] = y + IF Failed(i, b) THEN 1 ELSE 0
    BY <2>1, Zenon
  <2> HIDE DEF x, y
  <2>5. i =< 7 /\ Failed(i, a) /\ ~ Failed(i, b) => RocketNow(a) > RocketNow(b)
    BY <1>1, <2>2, <2>3
  <2>6. (Failed(i, a) <=> Failed(i, b)) =>
          (RocketNow(a) > RocketNow(b) <=> failed_count'[a][i + 1] > failed_count'[b][i + 1])
    BY <1>1, <2>2, <2>3, <2>4
  <2> QED
    BY <1>4, <2>4, <2>5, <2>6, Zenon
<1> QED
  BY <1>1, <1>3, <1>4

\* What does not touch the lists keeps all that is said of them.
LEMMA ListsKept ==
  ASSUME HistoryInv,
         UNCHANGED <<versions, last_failure_time, last_executed_time, failed_count,
                     executed_count, exd_value, rocket_value>>,
         Entries' = Entries, h_pc' \in {"extract", "rank"}, i' \in Nat \ {0},
         h_pc' = "extract" => i' =< Len(versions) + 1
  PROVE  HistoryInv'
<1>1. Keys' = Keys /\ Len(versions)' = Len(versions)
  BY Zenon DEF Keys
<1>2. HistoryShape'
  BY <1>1, Zenon DEF HistoryInv, HistoryShape, Lists
<1>3. HistoryExact'
  <2>1. \A n, k : FailsUpTo(n, k)' = FailsUpTo(n, k) /\ RunsUpTo(n, k)' = RunsUpTo(n, k)
    BY Zenon DEF FailsUpTo, RunsUpTo, Failed
  <2> QED
    BY <1>1, <2>1 DEF HistoryInv, HistoryExact, LatestOf
<1>0. \A v, k : Failed(v, k)' = Failed(v, k)
  BY Zenon DEF Failed
<1>4. ExdStart' /\ ExdByRecency'
  <2>1. ExdStart /\ ExdByRecency
    BY Zenon DEF HistoryInv
  <2> DEFINE D(n, a, b) == {v \in 1 .. n : Failed(v, a) # Failed(v, b)}
             Ordered(n, a, b) ==
               /\ exd_value[a][n + 1] > exd_value[b][n + 1] =>
                    D(n, a, b) # {} /\ Failed(Max(D(n, a, b)), a)
               /\ Failed(n, a) /\ ~ Failed(n, b) => exd_value[a][n + 1] > exd_value[b][n + 1]
  <2>2. ASSUME NEW a, NEW b, NEW n, Ordered(n, a, b) PROVE Ordered(n, a, b)'
    <3>1. D(n, a, b)' = D(n, a, b)
      BY <1>0, Zenon
    <3> HIDE DEF D
    <3> QED
      BY <1>0, <2>2, <3>1, Zenon
  <2>3. ExdByRecency'
    <3>1. \A a, b \in Keys : \A n \in 1 .. Entries - 1 : Ordered(n, a, b)
      BY <2>1, Zenon DEF ExdByRecency
    <3>2. \A a, b \in Keys' : \A n \in (1 .. Entries - 1)' : Ordered(n, a, b)'
      <4> HIDE DEF Ordered
      <4> QED
        BY <1>1, <2>2, <3>1, Zenon
    <3> QED
      BY <3>2, Zenon DEF ExdByRecency
  <2> QED
    BY <1>1, <2>1, <2>3, Zenon DEF ExdStart
<1>5. RocketOrder'
  <2>1. RocketOrder
    BY Zenon DEF HistoryInv
  <2> QED
    BY <1>0, <1>1, <2>1, SMT DEF RocketOrder
<1> QED
  BY <1>2, <1>3, <1>4, <1>5, Zenon DEF HistoryInv

\* At the start the lists have the entry before the first version.
LEMMA HistoryStarts ==
  ASSUME HistoryAssumption, HistoryInit
  PROVE  HistoryInv
<1>1. PICK n \in 1 .. MaxVersions : versions \in [1 .. n -> [FilePath -> Result]]
  BY Zenon DEF HistoryInit
<1>2. versions \in Seq([FilePath -> Result])
  BY <1>1 DEF HistoryAssumption
<1>3. Entries = 1 /\ h_pc = "extract" /\ i = 1 /\ Len(versions) \in Nat
  BY <1>2 DEF HistoryInit, Entries
<1>4. \A k \in Keys : /\ failed_count[k] = <<0>> /\ executed_count[k] = <<0>>
                      /\ exd_value[k] = <<0>> /\ rocket_value[k] = <<0>>
                      /\ last_failure_time[k] = <<None>> /\ last_executed_time[k] = <<None>>
  BY Zenon DEF HistoryInit
<1>5. HistoryShape
  <2>1. \A l : \A S : \A x \in S : l = [k \in Keys |-> <<x>>] => Lists(l, S, 1)
    BY DEF Lists
  <2> HIDE DEF Lists
  <2>0. 0 \in Double
    BY DEF Double, HistoryAssumption
  <2>2. /\ Lists(failed_count, Nat, 1) /\ Lists(executed_count, Nat, 1)
        /\ Lists(exd_value, Double, 1) /\ Lists(rocket_value, Nat, 1)
        /\ Lists(last_failure_time, Nat \cup {None}, 1)
        /\ Lists(last_executed_time, Nat \cup {None}, 1)
    BY <2>0, <2>1, Zenon DEF HistoryInit
  <2> QED
    BY <1>2, <1>3, <2>2 DEF HistoryShape
<1>6. HistoryExact
  <2>1. SUFFICES ASSUME NEW k \in Keys
        PROVE  /\ failed_count[k][0 + 1] = Cardinality(FailsUpTo(0, k))
               /\ executed_count[k][0 + 1] = Cardinality(RunsUpTo(0, k))
               /\ last_failure_time[k][0 + 1] = LatestOf(FailsUpTo(0, k))
               /\ last_executed_time[k][0 + 1] = LatestOf(RunsUpTo(0, k))
    BY <1>3 DEF HistoryExact
  <2>2. FailsUpTo(0, k) = {} /\ RunsUpTo(0, k) = {} /\ Cardinality({}) = 0
    BY FS_EmptySet DEF FailsUpTo, RunsUpTo
  <2>3. LatestOf({}) = None
    BY Zenon DEF LatestOf
  <2>4. <<0>>[0 + 1] = 0 /\ <<None>>[0 + 1] = None
    OBVIOUS
  <2> QED
    BY <1>4, <2>2, <2>3, <2>4, Zenon
<1>7. ExdStart
  BY <1>4 DEF ExdStart
<1>8. ExdByRecency
  BY <1>3 DEF ExdByRecency
<1>9. RocketOrder
  BY <1>3 DEF RocketOrder
<1> QED
  BY <1>5, <1>6, <1>7, <1>8, <1>9, Zenon DEF HistoryInv

\* Every step of extract and of the ranking preserves the invariant.
LEMMA HistoryStep ==
  ASSUME HistoryAssumption, HistoryInv, [HistoryNext]_history_vars
  PROVE  HistoryInv'
<1> USE DEF HistoryInv
<1>0. i \in Nat \ {0} /\ Len(versions) \in Nat
  BY DEF HistoryShape
<1>1. CASE extract
  BY <1>1, ExtractLists, ExtractExact, ExtractExd, ExtractRocket
<1>2. CASE StartRanking
  <2>1. Entries' = Entries
    <3>1. i = Len(versions) + 1
      BY <1>0, <1>2 DEF StartRanking, HistoryShape
    <3> QED
      BY <1>2, <3>1, Zenon DEF StartRanking, Entries
  <2> QED
    BY <1>2, <2>1, ListsKept DEF StartRanking
<1>3. CASE Rank
  <2>1. Entries' = Entries
    BY <1>3, Zenon DEF Rank, Entries
  <2> QED
    BY <1>0, <1>3, <2>1, ListsKept DEF Rank
<1>4. CASE UNCHANGED history_vars
  <2>1. Entries' = Entries
    BY <1>4, Zenon DEF history_vars, Entries
  <2> QED
    BY <1>4, <2>1, ListsKept, Zenon DEF history_vars, HistoryShape
<1> QED
  BY <1>1, <1>2, <1>3, <1>4, Zenon DEF HistoryNext

\* HistoryInv holds of every data set.
LEMMA HistoryAlways ==
  ASSUME HistoryAssumption
  PROVE  HistorySpec => []HistoryInv
<1>1. HistoryInit => HistoryInv
  BY HistoryStarts, Zenon
<1>2. HistoryInv /\ [HistoryNext]_history_vars => HistoryInv'
  BY HistoryStep, Zenon
<1> QED
  BY <1>1, <1>2, PTL DEF HistorySpec

\* Whatever results the versions have, the lists of the manager say exactly
\* how often and when every file was run and failed.
THEOREM HistoryIsExact ==
  ASSUME HistoryAssumption
  PROVE  HistorySpec => []HistoryExact
<1>1. HistoryInv => HistoryExact
  BY Zenon DEF HistoryInv
<1>2. HistorySpec => []HistoryInv
  BY HistoryAlways, Zenon
<1> QED
  BY <1>1, <1>2, PTL

\* exd_value never puts a file before one that failed more recently, after
\* any number of versions and however its arithmetic rounds: the greater of
\* two values is that of the file that failed in the latest version in which
\* only one of them did, and a difference in the last version always shows.
THEOREM ExdOrdersByRecency ==
  ASSUME HistoryAssumption
  PROVE  HistorySpec => []ExdByRecency
<1>1. HistoryInv => ExdByRecency
  BY Zenon DEF HistoryInv
<1>2. HistorySpec => []HistoryInv
  BY HistoryAlways, Zenon
<1> QED
  BY <1>1, <1>2, PTL

\* In the first seven versions rocket_value puts a file that failed in the
\* last version before one that did not.  Files alike in the last version
\* are ordered by how often they failed, in whichever versions it was.
THEOREM RocketOrders ==
  ASSUME HistoryAssumption
  PROVE  HistorySpec => []RocketOrder
<1>1. HistoryInv => RocketOrder
  BY Zenon DEF HistoryInv
<1>2. HistorySpec => []HistoryInv
  BY HistoryAlways, Zenon
<1> QED
  BY <1>1, <1>2, PTL

\* Failures are runs, so there are no more of them, and the latest run is
\* among the first n versions.
LEMMA UpToFacts ==
  ASSUME HistoryShape, NEW n \in Nat, NEW k
  PROVE  /\ Cardinality(FailsUpTo(n, k)) \in Nat /\ Cardinality(RunsUpTo(n, k)) \in Nat
         /\ Cardinality(FailsUpTo(n, k)) =< Cardinality(RunsUpTo(n, k))
         /\ LatestOf(RunsUpTo(n, k)) \in 1 .. n \cup {None}
<1>1. RunsUpTo(n, k) \subseteq 1 .. n /\ FailsUpTo(n, k) \subseteq RunsUpTo(n, k)
  BY Zenon DEF RunsUpTo, FailsUpTo, Failed
<1>2. IsFiniteSet(1 .. n)
  BY FS_Interval
<1>3. IsFiniteSet(RunsUpTo(n, k)) /\ IsFiniteSet(FailsUpTo(n, k))
  BY <1>1, <1>2, FS_Subset, Zenon
<1>4. /\ Cardinality(FailsUpTo(n, k)) \in Nat /\ Cardinality(RunsUpTo(n, k)) \in Nat
      /\ Cardinality(FailsUpTo(n, k)) =< Cardinality(RunsUpTo(n, k))
  BY <1>1, <1>3, FS_Subset, FS_CardinalityType, Zenon
<1>5. ASSUME RunsUpTo(n, k) # {} PROVE Max(RunsUpTo(n, k)) \in 1 .. n
  <2> DEFINE R == RunsUpTo(n, k)
  <2>1. R # {} /\ R \subseteq Nat /\ \A y \in R : y =< n
    BY <1>1, <1>5
  <2> HIDE DEF R
  <2>2. \E x \in R : \A y \in R : y =< x
    BY <2>1, Greatest, Zenon
  <2>3. \E x \in R : \A y \in R : x >= y
    BY <2>1, <2>2, Zenon
  <2>4. Max(R) \in R
    BY <2>3, Zenon DEF Max
  <2> QED
    BY <1>1, <2>4, Zenon DEF R
<1> QED
  BY <1>4, <1>5, Zenon DEF LatestOf

\* Ranking a version never looks at its own results or at later ones
\* (NoPeeking): the entry it takes is that of the versions before it, less
\* the last history ones.
THEOREM RankingNeverPeeks ==
  ASSUME HistoryAssumption
  PROVE  HistorySpec => NoPeeking
<1> DEFINE Peeks == \A k \in DOMAIN his_arr' :
       his_arr' # his_arr =>
         /\ his_arr'[k].failed_count = Cardinality(FailsUpTo(i - 1 - history, k))
         /\ his_arr'[k].failed_rate[1] =< his_arr'[k].failed_rate[2]
         /\ his_arr'[k].time_since_last_execute # 0 =>
              his_arr'[k].time_since_last_execute > history
<1>1. ASSUME HistoryInv, [HistoryNext]_history_vars PROVE [Peeks]_history_vars
  <2>1. SUFFICES ASSUME Rank, his_arr' # his_arr, NEW k \in DOMAIN his_arr'
        PROVE  /\ his_arr'[k].failed_count = Cardinality(FailsUpTo(i - 1 - history, k))
               /\ his_arr'[k].failed_rate[1] =< his_arr'[k].failed_rate[2]
               /\ his_arr'[k].time_since_last_execute # 0 =>
                    his_arr'[k].time_since_last_execute > history
    BY <1>1, Zenon DEF HistoryNext, extract, StartRanking, history_vars
  <2> DEFINE n == i - 1 - history
             h == HisIndex
  <2>2. /\ h_pc = "rank" /\ i \in Nat \ {0} /\ i =< Len(versions) /\ Len(versions) \in Nat
        /\ ~ (i - 1 =< history) /\ history \in Nat
        /\ k \in FilePath /\ versions[i][k] # "absent" /\ his_arr'[k] = Ranked(k)
    BY <1>1, <2>1 DEF Rank, HistoryInv, HistoryShape, HistoryAssumption
  <2>3. /\ n \in Nat /\ h = n + 1 /\ n \in 0 .. Entries - 1
    BY <2>2 DEF HisIndex, Entries
  <2>4. k \in Keys
    BY <1>1, <2>2 DEF Keys, HistoryInv, HistoryShape
  <2>5. /\ failed_count[k][n + 1] = Cardinality(FailsUpTo(n, k))
        /\ executed_count[k][n + 1] = Cardinality(RunsUpTo(n, k))
        /\ last_executed_time[k][n + 1] = LatestOf(RunsUpTo(n, k))
    BY <1>1, <2>3, <2>4, Zenon DEF HistoryInv, HistoryExact
  <2>6. /\ Cardinality(FailsUpTo(n, k)) \in Nat /\ Cardinality(RunsUpTo(n, k)) \in Nat
        /\ Cardinality(FailsUpTo(n, k)) =< Cardinality(RunsUpTo(n, k))
        /\ LatestOf(RunsUpTo(n, k)) \in 1 .. n \cup {None}
    BY <1>1, <2>3, UpToFacts, Zenon DEF HistoryInv
  <2>7. /\ his_arr'[k].failed_count = failed_count[k][h]
        /\ his_arr'[k].failed_rate = IF executed_count[k][h] = 0 THEN <<0, 1>>
                                     ELSE <<failed_count[k][h], executed_count[k][h]>>
        /\ his_arr'[k].time_since_last_execute = Since(last_executed_time[k][h])
    <3>1. /\ Ranked(k).failed_count = failed_count[k][h]
          /\ Ranked(k).time_since_last_execute = Since(last_executed_time[k][h])
      BY Zenon DEF Ranked
    <3>2. Ranked(k).failed_rate = IF executed_count[k][h] = 0 THEN <<0, 1>>
                                  ELSE <<failed_count[k][h], executed_count[k][h]>>
      BY SMT DEF Ranked
    <3> QED
      BY <2>2, <3>1, <3>2, Zenon
  <2>8. his_arr'[k].failed_count = Cardinality(FailsUpTo(i - 1 - history, k))
    BY <2>3, <2>5, <2>7, Zenon
  <2>9. his_arr'[k].failed_rate[1] =< his_arr'[k].failed_rate[2]
    BY <2>3, <2>5, <2>6, <2>7
  <2>10. his_arr'[k].time_since_last_execute # 0 =>
           his_arr'[k].time_since_last_execute > history
    BY <2>2, <2>3, <2>5, <2>6, <2>7 DEF Since
  <2> QED
    BY <2>8, <2>9, <2>10, Zenon
<1>2. HistorySpec => []HistoryInv
  BY HistoryAlways, Zenon
<1>3. HistoryInv /\ [HistoryNext]_history_vars => [Peeks]_history_vars
  BY <1>1, Zenon
<1>4. HistorySpec => [][Peeks]_history_vars
  BY <1>2, <1>3, PTL DEF HistorySpec
<1> QED
  BY <1>4, Zenon DEF NoPeeking

-----------------------------------------------------------------------------
\* The control of the process and the types that the sequences need.
IRShape ==
  /\ exp \in Experiments
  /\ pc \in {"idle", "loop", "tokens", "dump", "score", "done", "killed", "raised"}
  /\ ci_index \in Nat \ {0}
  /\ pc \in {"tokens", "dump", "score"} => ci_index < Len(exp.versions)
  /\ DOMAIN m \subseteq File
  /\ token_arr \in Seq(SUBSET Word)
  /\ tf \in Seq(SUBSET Word)

\* What a start of the process finds.  The file of a killed process is absent
\* only when the process had no tokens; while the file is written it is torn.
IRStored ==
  /\ pc = "idle" => m = Empty /\ token_file = Absent
  /\ pc = "dump" => token_file = Torn /\ DOMAIN m # {}
  /\ pc = "killed" /\ token_file = Whole(m) => DOMAIN m # {}

\* What the model knows of all corpora so far.
IRFitted ==
  /\ \A j \in 1 .. Len(tf) : tf[j] \subseteq DOMAIN idf
  /\ pc = "score" => Len(token_arr) =< Len(tf)

\* TokenFileCurrent is inductive with IRShape and IRStored: a process that starts
\* after a kill goes on from what the file says.
IRInv == IRShape /\ IRStored /\ TokenFileCurrent /\ IRFitted

\* The three states of the file differ.
LEMMA FileStates ==
  /\ Absent # Torn
  /\ \A map : Whole(map) # Torn /\ Whole(map) # Absent /\ Whole(map).map = map
  /\ Absent.map = Empty /\ DOMAIN Empty = {}
<1>1. /\ Absent.state = "absent" /\ Torn.state = "torn"
      /\ \A map : Whole(map).state = "whole"
  BY Zenon DEF Absent, Torn, Whole
<1> QED
  BY <1>1, Zenon DEF Absent, Torn, Whole, Empty

\* The tokens of a file of the data set are words.
LEMMA TokensAreWords ==
  ASSUME ExperimentsAssumption, exp \in Experiments, NEW file \in File
  PROVE  Tokens(file) \in SUBSET Word
  BY Zenon DEF ExperimentsAssumption, Tokens

\* While the tests of a version are handled, they are files of the data set.
LEMMA TestsAreFiles ==
  ASSUME ExperimentsAssumption, IRShape, pc \in {"tokens", "dump", "score"}
  PROVE  Tests \in Seq(File)
<1>1. /\ exp.versions \in Seq(Version)
      /\ ci_index + 1 \in 1 .. Len(exp.versions)
      /\ ~ (ci_index < 0)
  BY DEF ExperimentsAssumption, IRShape
<1>2. exp.versions[ci_index + 1] \in Version
  BY <1>1
<1> QED
  BY <1>1, <1>2, Zenon DEF Tests, At, Version

\* The process starts from nothing.
LEMMA InitIRInv == Init => IRInv
<1> SUFFICES ASSUME Init PROVE IRInv
  BY Zenon
<1>1. IRShape
  BY DEF Init, IRShape, Empty
<1>2. IRStored /\ TokenFileCurrent
  BY FileStates, Zenon DEF Init, IRStored, TokenFileCurrent
<1>3. IRFitted
  BY DEF Init, IRFitted
<1> QED
  BY <1>1, <1>2, <1>3, Zenon DEF IRInv

\* The new file of Tokenise is a file of the data set.
LEMMA NextIsFile ==
  ASSUME ExperimentsAssumption, IRShape, Tokenise
  PROVE  NextFile \in File
<1>1. Tests \in Seq(File) /\ Len(token_arr) + 1 \in 1 .. Len(Tests)
  BY TestsAreFiles DEF Tokenise, IRShape
<1> QED
  BY <1>1 DEF NextFile

\* Every action keeps IRShape.
LEMMA NextShape ==
  ASSUME ExperimentsAssumption, IRInv, Next
  PROVE  IRShape'
<1> USE DEF IRInv
<1>1. CASE StartExp
  <2>1. token_file # Torn => DOMAIN token_file.map \subseteq File
    BY <1>1, FileStates, Zenon DEF StartExp, IRStored, TokenFileCurrent, IRShape
  <2> QED
    BY <1>1, <2>1 DEF StartExp, IRShape
<1>2. CASE CheckVersion
  BY <1>2 DEF CheckVersion, NextVersion, IRShape
<1>3. CASE Tokenise
  <2>1. NextFile \in File
    BY <1>3, NextIsFile, Zenon
  <2>2. /\ Tokens(NextFile) \in SUBSET Word
        /\ NextFile \in DOMAIN m => m[NextFile] \in SUBSET Word
    BY <2>1, TokensAreWords, Zenon DEF TokenFileCurrent, IRShape
  <2>3. /\ DOMAIN m' \subseteq DOMAIN m \cup {NextFile}
        /\ token_arr' \in {Append(token_arr, m[NextFile]),
                           Append(token_arr, Tokens(NextFile))}
        /\ NextFile \notin DOMAIN m => token_arr' = Append(token_arr, Tokens(NextFile))
        /\ pc' \in {"tokens", "dump"}
        /\ pc = "tokens" /\ exp' = exp /\ ci_index' = ci_index /\ tf' = tf
    BY <1>3, Zenon DEF Tokenise
  <2>4. token_arr' \in Seq(SUBSET Word)
    <3>1. token_arr \in Seq(SUBSET Word)
      BY Zenon DEF IRShape
    <3>2. \A w \in SUBSET Word : Append(token_arr, w) \in Seq(SUBSET Word)
      BY <3>1
    <3> QED
      BY <2>2, <2>3, <3>2, Zenon
  <2> QED
    BY <2>1, <2>3, <2>4, Zenon DEF IRShape
<1>4. CASE Dump
  BY <1>4, Zenon DEF Dump, IRShape
<1>5. CASE Fit
  BY <1>5 DEF Fit, IRShape
<1>6. CASE Score
  BY <1>6 DEF Score, NextVersion, IRShape
<1>7. CASE Return
  BY <1>7, Zenon DEF Return, IRShape
<1>8. CASE Kill
  BY <1>8, Zenon DEF Kill, IRShape
<1> QED
  BY <1>1, <1>2, <1>3, <1>4, <1>5, <1>6, <1>7, <1>8, Zenon DEF Next

\* Every action keeps the token file in step with the map.
LEMMA NextStored ==
  ASSUME ExperimentsAssumption, IRInv, Next
  PROVE  IRStored' /\ TokenFileCurrent'
<1> USE FileStates DEF IRInv
<1>1. CASE StartExp
  <2>1. CASE token_file = Torn
    BY <1>1, <2>1, Zenon DEF StartExp, IRStored, TokenFileCurrent, Tokens
  <2>2. CASE token_file # Torn
    BY <1>1, <2>2 DEF StartExp, IRStored, TokenFileCurrent, Tokens, IRShape
  <2> QED
    BY <2>1, <2>2, Zenon
<1>2. CASE CheckVersion
  BY <1>2, Zenon DEF CheckVersion, IRStored, TokenFileCurrent, Tokens
<1>3. CASE Tokenise
  <2>1. CASE NextFile \in DOMAIN m
    BY <1>3, <2>1, Zenon DEF Tokenise, IRStored, TokenFileCurrent, Tokens
  <2>2. CASE NextFile \notin DOMAIN m
    <3>1. /\ DOMAIN m' = DOMAIN m \cup {NextFile}
          /\ \A f \in DOMAIN m' : m'[f] = Tokens(f)
          /\ token_file' = Torn /\ pc' = "dump" /\ exp' = exp
      BY <1>3, <2>2 DEF Tokenise, TokenFileCurrent
    <3> QED
      BY <3>1, Zenon DEF IRStored, TokenFileCurrent, Tokens
  <2> QED
    BY <2>1, <2>2, Zenon
<1>4. CASE Dump
  BY <1>4, Zenon DEF Dump, Dumped, IRStored, TokenFileCurrent, Tokens
<1>5. CASE Fit
  BY <1>5, Zenon DEF Fit, IRStored, TokenFileCurrent, Tokens
<1>6. CASE Score
  BY <1>6, Zenon DEF Score, IRStored, TokenFileCurrent, Tokens
<1>7. CASE Return
  BY <1>7, Zenon DEF Return, IRStored, TokenFileCurrent, Tokens
<1>8. CASE Kill
  BY <1>8, Zenon DEF Kill, IRStored, TokenFileCurrent, Tokens
<1> QED
  BY <1>1, <1>2, <1>3, <1>4, <1>5, <1>6, <1>7, <1>8, Zenon DEF Next

\* Every action keeps an inverse frequency for every word the model has.
LEMMA NextFitted ==
  ASSUME ExperimentsAssumption, IRInv, Next
  PROVE  IRFitted'
<1> USE DEF IRInv
<1>1. CASE StartExp
  BY <1>1 DEF StartExp, IRFitted
<1>2. CASE Fit
  <2>1. /\ tf \in Seq(SUBSET Word) /\ token_arr \in Seq(SUBSET Word)
        /\ tf' = tf \o token_arr /\ token_arr' = token_arr
    BY <1>2, Zenon DEF Fit, IRShape
  <2>2. DOMAIN idf' = DOMAIN idf \cup Words(token_arr)
    BY <1>2, Zenon DEF Fit, NewIdf
  <2>3. \A j \in 1 .. Len(token_arr) : token_arr[j] \subseteq Words(token_arr)
    BY <2>1 DEF Words
  <2>4. /\ Len(tf') = Len(tf) + Len(token_arr)
        /\ \A j \in 1 .. Len(tf') :
             tf'[j] = IF j =< Len(tf) THEN tf[j] ELSE token_arr[j - Len(tf)]
    BY <2>1
  <2>5. ASSUME NEW j \in 1 .. Len(tf') PROVE tf'[j] \subseteq DOMAIN idf'
    <3>1. CASE j =< Len(tf)
      BY <2>1, <2>2, <2>4, <3>1 DEF IRFitted
    <3>2. CASE ~ (j =< Len(tf))
      <4>1. j - Len(tf) \in 1 .. Len(token_arr)
        BY <2>1, <2>4, <3>2
      <4> QED
        BY <2>2, <2>3, <2>4, <3>2, <4>1, Zenon
    <3> QED
      BY <3>1, <3>2, Zenon
  <2> QED
    BY <2>1, <2>4, <2>5 DEF IRFitted
<1>3. CASE CheckVersion \/ Tokenise \/ Dump \/ Score \/ Return \/ Kill
  <2>1. tf' = tf /\ idf' = idf /\ pc' # "score"
    BY <1>3, Zenon DEF CheckVersion, Tokenise, Dump, Score, Return, Kill
  <2> QED
    BY <2>1, Zenon DEF IRFitted
<1> QED
  BY <1>1, <1>2, <1>3, Zenon DEF Next

\* IRInv is inductive.
LEMMA NextIRInv ==
  ASSUME ExperimentsAssumption
  PROVE  IRInv /\ [Next]_vars => IRInv'
<1>1. ASSUME IRInv, Next PROVE IRInv'
  BY <1>1, NextShape, NextStored, NextFitted DEF IRInv
<1>2. ASSUME IRInv, UNCHANGED vars PROVE IRInv'
  BY <1>2, Zenon DEF vars, IRInv, IRShape, IRStored, TokenFileCurrent, IRFitted, Tokens
<1> QED
  BY <1>1, <1>2, Zenon

\* Of what IRInv says of the model, get_score needs the rows and the words.
LEMMA IRInvScores == IRInv => ScoresDefined
<1> SUFFICES ASSUME IRInv, pc = "score", NEW j \in 1 .. doc_num
             PROVE  j \in DOMAIN tf /\ Matched(j) \subseteq DOMAIN idf
  BY Zenon DEF ScoresDefined
<1>1. j \in 1 .. Len(tf)
  BY DEF IRInv, IRFitted, IRShape, doc_num
<1>2. tf[j] \subseteq DOMAIN idf /\ j \in DOMAIN tf
  BY <1>1 DEF IRInv, IRFitted, IRShape
<1> QED
  BY <1>2, Zenon DEF Matched

\* Whenever it is not being written, the token file of ir_main.py is what the
\* process has in memory, and a process that was killed leaves all or nothing.
THEOREM TokensSafe ==
  ASSUME ExperimentsAssumption
  PROVE  Spec => []TokenFileCurrent
<1>1. IRInv => TokenFileCurrent
  BY Zenon DEF IRInv
<1>2. Init => IRInv
  BY InitIRInv, Zenon
<1>3. IRInv /\ [Next]_vars => IRInv'
  BY NextIRInv
<1> QED
  BY <1>1, <1>2, <1>3, PTL DEF Spec

\* get_score of Bm25Model never misses a row or a word, although init keeps
\* the rows of earlier corpora.
THEOREM LookupsDefined ==
  ASSUME ExperimentsAssumption
  PROVE  Spec => []ScoresDefined
<1>1. IRInv => ScoresDefined
  BY IRInvScores, Zenon
<1>2. Init => IRInv
  BY InitIRInv, Zenon
<1>3. IRInv /\ [Next]_vars => IRInv'
  BY NextIRInv, Zenon
<1> QED
  BY <1>1, <1>2, <1>3, PTL DEF Spec
=============================================================================
