--------------------------- MODULE CoverageStore ---------------------------
(***************************************************************************)
(* The coverage of the tests of one kernel version, liebes/coverage_ana.py *)
(* and collect_coverage.py: .info files appear one by one (CollectCoverage *)
(* models how); load_coverage4checkout reads those that the cache does not *)
(* have yet, removes what the tests have in common, and saves the cache.   *)
(* A process killed while it saves leaves a torn file.  The order by total *)
(* coverage and the order by additional coverage are built from what was   *)
(* loaded.                                                                 *)
(*                                                                         *)
(* A coverage is the set of files it has a record of (SF) and the set of   *)
(* pairs of a file and a line that was hit (DA with a count above 0).      *)
(***************************************************************************)
EXTENDS Naturals, Sequences, FiniteSets, FiniteSetsExt, Functions

CONSTANTS
  Test,      \* names of test cases (TN)
  File,      \* source files of the kernel
  Line,      \* lines
  Raws,      \* what the .info files of all tests may hold
  MaxKills   \* bound: processes killed while they save

Coverage == [files : SUBSET File, lines : SUBSET (File \X Line)]

\* A file has finitely many lines; a line is recorded under its file.
ASSUME RawsAssumption ==
  /\ Raws \subseteq [Test -> Coverage]
  /\ MaxKills \in Nat
  /\ \A raw \in Raws : \A t \in Test : /\ IsFiniteSet(raw[t].lines)
                                       /\ \A x \in raw[t].lines : x[1] \in raw[t].files

VARIABLES
  raw,            \* the content of the .info files
  info,           \* the tests with an .info file
  cache,          \* total_coverage.pkl: names, coverage_info, whether it is torn
  loaded,         \* the keys of coverage_info in insertion order
  coverage_info,  \* test -> coverage
  base_cov,       \* additional_cov_generator: what the emitted tests cover
  candidate,      \* and the tests not emitted yet
  file_list,      \* and the order
  total_list,     \* the order of total_cov_generator
  kills,          \* processes killed so far
  pc

vars == <<raw, info, cache, loaded, coverage_info, base_cov, candidate,
          file_list, total_list, kills, pc>>
ordering == <<base_cov, candidate, file_list, total_list>>

Whole(names, cov) == [loaded |-> names, coverage_info |-> cov, torn |-> FALSE]
Torn == [loaded |-> << >>, coverage_info |-> << >>, torn |-> TRUE]
NoCache == Whole(<< >>, << >>)

Init ==
  /\ raw \in Raws
  /\ info = {}
  /\ cache = NoCache
  /\ loaded = << >> /\ coverage_info = << >>
  /\ base_cov = {} /\ candidate = << >> /\ file_list = << >> /\ total_list = << >>
  /\ kills = 0
  /\ pc = "idle"

\* The .info file of test t appears.
ParseInfo(t) ==
  /\ t \notin info
  /\ info' = info \cup {t}
  /\ UNCHANGED <<raw, cache, loaded, coverage_info, ordering, kills, pc>>

-----------------------------------------------------------------------------
\* Mutant: the lines that some test has hit.
CommonCoverage_Any(names, cov) ==
  {x \in cov[Head(names)].files \X Line : \E t \in Range(names) : x \in cov[t].lines}

\* The lines of the files of the first test that every test with a record of
\* the file has hit.
CommonCoverage(names, cov) ==
  {x \in cov[Head(names)].files \X Line :
     \A t \in Range(names) : x[1] \in cov[t].files => x \in cov[t].lines}

remove_common_coverage(names, cov) ==
  LET common_coverage == CommonCoverage(names, cov)
  IN  [t \in Range(names) |-> [cov[t] EXCEPT !.lines = @ \ common_coverage]]

\* glob lists files in any order.
Listings(S) == Bijection(1 .. Cardinality(S), S)

\* extract: a test that coverage_info has is skipped.
extract(cov, new, t) == IF t \in new THEN raw[t] ELSE cov[t]

\* pickle.dump over the file that open("wb") has emptied.
Save(names, cov) ==
  \/ cache' = Whole(names, cov) /\ pc' = "loaded" /\ UNCHANGED kills
  \/ kills < MaxKills /\ cache' = Torn /\ pc' = "idle" /\ kills' = kills + 1

\* Mutant: a cache that cannot be read counts as none.
Unreadable_Ignored == FALSE

\* pickle.load raises on a file without its end.
Unreadable == cache.torn

\* load_coverage4checkout of a new process.
load_coverage4checkout ==
  /\ pc = "idle" /\ ~ Unreadable
  /\ \E found \in Listings(info \ Range(cache.loaded)) :
       LET new   == Range(found)
           names == cache.loaded \o found
           read  == [t \in Range(names) |-> extract(cache.coverage_info, new, t)]
           cov   == IF new = {} THEN read ELSE remove_common_coverage(names, read)
       IN  /\ loaded' = names
           /\ coverage_info' = cov
           /\ IF new = {} THEN pc' = "loaded" /\ UNCHANGED <<cache, kills>>
                          ELSE Save(names, cov)
           /\ candidate' = names
  /\ base_cov' = {} /\ file_list' = << >> /\ total_list' = << >>
  /\ UNCHANGED <<raw, info>>

LoadRaises ==
  /\ pc = "idle" /\ Unreadable
  /\ pc' = "raised"
  /\ UNCHANGED <<raw, info, cache, loaded, coverage_info, ordering, kills>>

\* The next process.
StartAgain ==
  /\ pc = "raised"
  /\ pc' = "idle"
  /\ UNCHANGED <<raw, info, cache, loaded, coverage_info, ordering, kills>>

-----------------------------------------------------------------------------
Hits(t) == Cardinality(coverage_info[t].lines)

\* total_cov_generator: a stable sort, most lines first.
total_cov_generator ==
  /\ pc = "loaded"
  /\ LET n == Len(loaded)
         rank(i) == Cardinality({j \in 1 .. n : \/ Hits(loaded[j]) > Hits(loaded[i])
                                                \/ /\ Hits(loaded[j]) = Hits(loaded[i])
                                                   /\ j =< i})
     IN  total_list' = [r \in 1 .. n |-> loaded[CHOOSE i \in 1 .. n : rank(i) = r]]
  /\ pc' = "greedy"
  /\ UNCHANGED <<raw, info, cache, loaded, coverage_info, base_cov, candidate, file_list,
                 kills>>

\* Mutant: lines covered before are counted again.
get_additional_cov_All(base, t) == Cardinality(coverage_info[t].lines)

get_additional_cov(base, t) == Cardinality(coverage_info[t].lines \ base)

combine_cov(base, t) == base \cup coverage_info[t].lines

\* The first candidate with the largest increment.
MaxCovIdx ==
  Min({i \in DOMAIN candidate :
         \A j \in DOMAIN candidate : get_additional_cov(base_cov, candidate[j])
                                       =< get_additional_cov(base_cov, candidate[i])})

Popped(i) == SubSeq(candidate, 1, i - 1) \o SubSeq(candidate, i + 1, Len(candidate))

\* One round of the loop of additional_cov_generator.
additional_cov_generator ==
  /\ pc = "greedy"
  /\ IF candidate = << >>
     THEN pc' = "idle" /\ UNCHANGED <<base_cov, candidate, file_list>>
     ELSE LET i == MaxCovIdx
          IN  /\ base_cov' = combine_cov(base_cov, candidate[i])
              /\ file_list' = Append(file_list, candidate[i])
              /\ candidate' = Popped(i)
              /\ UNCHANGED pc
  /\ UNCHANGED <<raw, info, cache, loaded, coverage_info, total_list, kills>>

Next ==
  \/ \E t \in Test : ParseInfo(t)
  \/ load_coverage4checkout \/ LoadRaises \/ StartAgain
  \/ total_cov_generator \/ additional_cov_generator

Spec == Init /\ [][Next]_vars

-----------------------------------------------------------------------------
\* However the loads interleave with new .info files, and even after a
\* process was killed while it saved, a load never brings back a line that an
\* earlier one removed, never invents one and never loses a test.
CoverageOnlyShrinks ==
  [][\A t \in Range(loaded) :
       /\ t \in Range(loaded')
       /\ coverage_info'[t].lines \subseteq coverage_info[t].lines]_vars

\* What tells two tests apart when they are loaded together stays: of two
\* new tests with a record of a file, the one that hit a line the other did
\* not keeps the line.
DifferencesKept ==
  [][\A s, t \in Range(loaded') \ Range(loaded) :
       \A x \in raw[s].lines \ raw[t].lines :
         x[1] \in raw[t].files => x \in coverage_info'[s].lines]_vars

\* Lines that the first i tests of the additional order cover.
CoveredBy(i) == UNION {coverage_info[file_list[j]].lines : j \in 1 .. i}

\* In the additional order no test adds more lines than the one before it,
\* and it starts with a test that has as many lines as the first one of the
\* total order.
IncrementsDescend ==
  /\ \A i \in 1 .. Len(file_list) - 1 :
       Cardinality(CoveredBy(i + 1)) - Cardinality(CoveredBy(i))
         =< Cardinality(CoveredBy(i)) - Cardinality(CoveredBy(i - 1))
  /\ file_list # << >> => Hits(file_list[1]) = Hits(total_list[1])

\* "this approach will remove all same coverage that is covered by all test
\* cases": a line that a loaded test hit is gone only if all loaded tests
\* hit it.
OnlyCommonRemoved ==
  \A t \in Range(loaded) : \A x \in raw[t].lines :
    x \in coverage_info[t].lines \/ \A s \in Range(loaded) : x \in raw[s].lines
=============================================================================
