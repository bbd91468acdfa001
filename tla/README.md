# kernel-tcp: a TLA+ verification project

kernel-tcp studies test-case prioritisation for the Linux kernel. It loads CI
results from a database, cleans them, ranks the tests of every kernel version by
several approaches and measures each order with APFD (average percentage of
faults detected). Failed tests are reproduced on rebuilt kernels in virtual
machines to collect their coverage.

This directory holds TLA+ models of that code, TLC configurations, and proofs for
TLAPS. `PROJECT.json` maps definitions to source lines and lists the runs, the
mutants, the hazards, the findings and the theorems.

    tlc -workers 2 -config MCRepro.cfg MCRepro    # one run
    tlapm Repro_proofs.tla                        # one proof module

## The system and its models

| Part | Source | Module | What is modelled |
|---|---|---|---|
| data pipeline | `liebes/analysis.py`, `liebes/CiObjects.py` | `CIAnalysis`, `TestStatus` | every job of `filter_job`, threads, exceptions |
| its two loops with memory | `liebes/analysis.py` | `CaseLoops` | one test at a time, for proofs |
| adaptive random prioritisation | `tcp_approach/adaptive_random_prior.py` | `ARP` | loop and distance map |
| FAST | `tcp_approach/FAST.py` | `FAST` | index, signatures, loop |
| call-graph strategies, APFD | `tcp_approach/cg_based.py`, `liebes/EHelper.py` | `CGStrategy` | both strategies |
| contract of the approaches | (abstract) | `Prioritizer` | each position emitted once, all in the end |
| call graphs | `liebes/CallGraph.py`, `liebes/Glibc_CG.py` | `CallGraph` | loading, traversals |
| reproduction | `liebes/reproduce.py`, `reproduce_ltp_testcase.py`, `monitor.py` | `Repro` | all that a worker does, crashes, restarts |
| coverage collection | `collect_coverage.py` | `CollectCoverage` | `parse_info`: processes, failures, kills |
| coverage store | `liebes/coverage_ana.py` | `CoverageStore` | cache, torn cache, both orders |
| history | `tcp_approach/information_achieve.py`, `history_main.py` | `History` | extraction, input of the ranking |
| information retrieval | `ir_main.py`, `liebes/ir_model.py` | `IR` | `do_exp` with `Bm25Model`, token file, kills |
| log parser | `liebes/ltp_result.py` | `TCResult` | LTP logs |
| diff of a version | `liebes/GitHelper.py` | `DiffBlocks` | numbering and blocks of one file |

The parts interact through files and through the cleaned data. The pipeline
produces `ci_objs`; the prioritisers rank the tests of a checkout; the
reproduction writes coverage archives, `parse_info` turns them into `.info` files,
and the coverage store reads those. The two last steps meet in `MCCoverage`:
`InfoFromOwnArchive` of the one is what the other takes for granted about its
input. ARP, FAST and the additional strategy meet in `MCApproaches`, where all
three are shown to implement `Prioritizer`, on whose result APFD is computed.

### CIAnalysis and CaseLoops

A script calls `filter_job` with one job name after the other. `StartJob` cuts
`ci_objs` into chunks (`Chunk`), `RunChunk` is a thread that handles one chunk,
`Gather` joins the lists and sorts them. Jobs of the main thread are `MainJob`.
The jobs are operators named after their methods. `Raises` says when a thread
raises: `pqdm` then returns the exception in place of the list and `Gather` ends
the script with the part joined so far. `FILTER_CASE_BY_TYPE` always raises when
there is a test run, since `Build` has no attribute `tests`. `map_test` stores a
`Path`, on which a later `COMBINE_SAME_CASE` fails at `strip`; `is_path` records it.

`CaseLoops` takes the steps of the same operators (`TestStatus!FailStep`,
`TestStatus!CombineStep`) one test at a time over sequences of any length. This
makes them provable: an action is easier for the provers than a fold.

### ARP, FAST, CGStrategy

`ARP!PickNext` is one round of the loop. `random.sample` returns its sample in
random order, so any farthest case of any sample of size `k` may be taken.

`FAST!Insert` puts one file into the index, which raises for a path that it has;
`FAST!Pick` is one round. MinHash and MinHashLSH are external and modelled by what
they compute: component-wise minima, the share of equal components, and bands of
rows that must agree. The hash functions are any that do not collide. Python
iterates over a set in no particular order, so `Select` may return any candidate
with the largest value.

`CGStrategy` runs one strategy on one checkout and computes APFD as a fraction. A
checkout without a fault has the value 0.5: `do_exp4` measures it, the other
drivers leave it out.

### CallGraph

`format` selects the class. In "cg" format an entry replaces the edges of its
function, in "glibc" format a line adds one. `Visit` is one round of a traversal.
`get_ground_func` raises for an unknown root (`NoRoot`).

### Repro

`pc[w]` names the point of worker `w`; an action is what happens between two
points that a crash, a failing command or another worker can separate. Shared on
the host: `image`, `ltp`, `selftest`, `result`, `coverage`. Per worker: the
machine `vm`, its `pidfile`, its `disk`, the gcov `counters`. `Crash` kills a
worker and leaves its machine; `CloseVM` is the kill that `monitor.py` asks for.
qemu is external: it writes its pid file before the 90 seconds of sleep end.

The version of LTP is what a Version file says. `prepare_ltp_binary` checks
nothing out, so the tree of every tag holds `LtpVersion`, the version of `ltp_dir`.
`disk[w]` keeps apart which tag's tree was copied to the disk image (`tree`) and
what the Version file on it says (`version`), which is all that
`copy_ltp_bin_to_vm` looks at. A checkout without a tag (`get_ltp_version` returns
None) has a tag that no Version file says. A command may fail, at the cost of
`MaxFails`, and any command may hang: it is then never taken.

### CollectCoverage and CoverageStore

`parse_info` lists the versions that have an archive without `.info` file and cuts
the list into batches, one per process. For each test a process deletes the
`.gcda` files of the tree (`RemoveGcda`), unpacks the archive (`Unpack`) and calls
`lcov` (`Lcov`). A command that fails may have done nothing, part or all of its
work. `Kill` ends the script with its processes; `lcov` may have begun its file.

In `CoverageStore` files appear at any time between loads. A coverage is its set
of recorded files and its set of hit lines. `Save` writes the cache in place and
may be killed: the torn file makes every later load raise (`LoadRaises`).

### History and IR

`History` keeps the lists of `HistoryInformationManager`. `exd_value` is a double
and its arithmetic rounds: after some 17 versions a difference in the first of
them is lost. The doubles are therefore given by their rank, and the two
operations (times 1 - alpha, plus alpha) are constants `Fade` and `AddAlpha` of
which `HistoryAssumption` says what rounding preserves. `rocket_value` is scaled by
ten; where it is compared, two sums have the same terms or differ by 0.1 at least.
`history_main.py` reads the lists from the file that an earlier run of `extract`
over the same versions has saved; `StartRanking` stands for both.

`IR` walks through the versions as `do_exp` does. A text is the set of its words
and a score is known by its sign, so `Score` may return every order that is
compatible with the signs. Negative list indices wrap around as in Python (`At`).
The token file is torn between `open("w")` and the end of `json.dump`.

### TCResult and DiffBlocks

A line of a log is a marker, a result word or a summary line with its count; a
line of ndiff is what its code says: removed, added, common or a hint. Reading an unbound variable and `diff[0]` of an empty
list end in `raised`.

## Runs

Several runs check more than one module. The variable `part` names the module
whose specification the behaviour follows and the others stand still in a fixed
state, so the states of a run are the sum of those of its parts.

| Run | States | Time | What it shows |
|---|---|---|---|
| `approaches` | 270,840 | 2 min | all three approaches implement `Prioritizer`; the farthest of the sample; the most novel text; greedy gains; APFD in range |
| `analysis` | 432,746 | 1 min | jobs keep data in shape and statuses truthful under every interleaving of threads; the loops; logs; blocks |
| `repro` | 1,560,480 | 50 s | two workers: disjoint checkouts, coverage belongs to its test, nothing but the remainder is left out |
| `repro_serial` | 80,137 | 10 s | one worker: right kernel and binaries, passed tests have their files, only a hanging command keeps the worker from stopping |
| `coverage` | 2,363,792 | 90 s | `.info` files come from their own archives, none is missing; the cache never grows back; falling increments |
| `experiments` | 473,100 | 40 s | exact history, no look at the version to predict; token file and lookups of the retrieval; traversals of call graphs return, with what is reachable; edges are mirrored; reloads win |

Every property has a mutant: a change of one definition, written as an operator
before it, under which TLC finds the property violated.

Six runs expect a violation. Each checks a sentence of the repository.

- `ci_analysis_one_build`: `filter_fail_cases_in_last_version` presumes one build
  per version (`analysis.py:173`). `choose_one_build` selects by name, and two
  configurations may share a name, so two builds can be left.
- `repro_ltp`: "make whole ltp into binary" (`reproduce.py:102`).
  `prepare_ltp_binary` accepts any existing directory `build`, and `mkdir build`
  comes before make.
- `repro_version`: "checkout ltp to the specific git sha" (`reproduce.py:86`). The
  command with `git checkout` is commented out, so the tests of a checkout run with
  the version of LTP that `ltp_dir` holds.
- `coverage_common`: "remove all same coverage that is covered by all test cases"
  (`coverage_ana.py:23`). Tests without a record of a file are skipped when the
  common lines are computed, so lines that they do not cover are removed too.
- `ir_scores`: R_ij is the similarity of query i and corpus j (`ir_model.py:25`).
  `Bm25Model.init` appends to `tf` and never resets it, so from the second version
  on row j is a test of the first version.
- `ir_previous`: "previous commit sha" (`GitHelper.py:211`). When `ci_index` equals
  `history` the index is -1, and the newest version is passed as the previous one.

### Bounds

- `approaches`: ARP with four cases over three paths, samples of two, distances up
  to 2; samples smaller than, equal to and larger than the rest occur, and so do
  ties, repeated paths and missing distances. FAST with three files, two tokens,
  two bands of one row, all pairs of hash functions up to renaming. CGStrategy with
  three files, two methods, at most three tests, none or any of which failed.
- `analysis`: two checkouts with up to three builds, or three checkouts with one;
  the job sequences of the scripts plus one with the remaining jobs. Chunks hold
  one checkout, so that threads interleave. All sequences of at most four tests of
  two files or of none (failure, pass, failure, failure is the longest pattern the
  filter tells apart). All logs of at most five lines, which hold a test, its
  summary and a truncated neighbour; all outputs of ndiff of at most seven lines,
  which hold two cuts with a hint between them.
- `repro`: one crash and one failing command; two workers that share an LTP
  version, and a checkout outside all slices. `repro_serial`: one crash and two
  failing commands; two checkouts, three builds, two LTP tags of which one is that
  of no Version file, a disk image without LTP or with that of the other tag, and
  tests that are left out by name and by suite.
- `coverage`: three tests, two files of two lines, one kill during a dump; two
  processes, three versions, up to two archives each, one kill, one failure. The
  last process gets more versions than the first.
- `experiments`: two files, at most four versions, `history = 1`; the doubles are
  hundredths, so that rounding loses differences within the four versions. The
  limit of seven versions in `RocketOrder` is reached by the proof only. Retrieval:
  three versions, two files, one word in two cases, history 0 or 1, one kill. Call
  graphs: four functions, seven files with cycles, self calls, repeated edges and
  functions with two entries, loaded in any order and number.

`MaxCrashes`, `MaxKills`, `MaxFails`, `MaxTests` and `MaxVersions` are the named
bounds. The proofs hold for every value of them.

### Fairness

- `approaches`: weak fairness of the next step; each approach is one sequential
  function call.
- `CallGraph`: weak fairness of the steps of a call in progress. Nobody is bound
  to make another call.
- `Repro`: weak fairness of the steps of each worker that are not commands.
  `run_command` has no timeout, so no command is assumed to return (`InCommand`);
  what remains is Python code, the kill and the sleep of `start_qemu`. Starts,
  crashes and kills of machines are not fair. `OnlyCommandsHang` says that a worker
  stops again and again unless it stays in one command for ever.

The other modules state safety only. Deadlock checking is off where a finished
computation is the end.

## Proofs

| Module | Theorem | Statement |
|---|---|---|
| `Approaches_proofs` | `ArpTypes`, `ArpPartition` | each case is prioritised once or still in `idx_list` |
| | `FarthestOfSample` | each case emitted was the farthest of a sample of `min(K, remaining)` |
| | `FastEmitsOnce` | no position twice; all when it returns; it raises only for repeated paths |
| | `FastEmitsNovelty` | the signature chooses as the texts emitted since the last reset would |
| | `ArpRefinesPrioritizer`, `FastRefinesPrioritizer` | every step is a step of `Prioritizer` or a stutter |
| `CGStrategy_proofs` | `CGKeepsFiles` | both strategies emit every file as often as it is listed |
| | `AdditionalIsGreedy` | no test that comes later would have added more methods |
| | `ApfdIsAFraction` | APFD lies between the values of the worst and the best order |
| | `AdditionalRefinesPrioritizer` | on distinct files, every step is a step of `Prioritizer` or a stutter |
| `Sources_proofs` | `TypeCorrect`, `TraversalsExact` | a traversal returns exactly the reachable functions |
| | `MirroredEdges`, `ReloadWins` | edges are mirrored; the last entry counts |
| | `BlocksAreExact` | blocks hold all changed lines and are cut where two other lines lie between |
| `Data_proofs` | `LoopTypes`, `DropsRepeatedFailures`, `OneFailurePerEpisode` | the filter drops repeated failures only |
| | `KeepsFirstOfFile`, `MergeIsBestResult` | the merge is independent of the order |
| | `FailuresCounted` | where every end of a test has its start, a failure is counted iff a finished test shows one |
| `Repro_proofs` | `CheckoutsOwned` | two workers are never in one checkout |
| | `MachinesFound`, `KernelsOwned` | a machine has its pid file; tests run on the kernel of their checkout |
| | `BinariesRight` | without a failed command the disk holds what was prepared for the checkout, and nothing of another one is taken for it |
| | `CoverageOwned`, `LoopReproduces` | coverage is that of its test; passed tests have both files |
| | `SlicesComplete` | without failures and crashes nothing of the slices is left out, and only the remainder is untouched |
| `Coverage_proofs` | `LinesNeverReturn`, `DifferencesSurvive` | loads only remove lines, and not those that tell new tests apart |
| | `GreedyDescends` | no test of the additional order adds more than the one before it |
| | `InfoIsOwn` | an `.info` file shows its own test and no other |
| | `NothingLeftOut` | without failures and kills every archive gets its `.info` file |
| `Experiments_proofs` | `HistoryIsExact` | counts and times are those of the versions before |
| | `ExdOrdersByRecency` | `exd_value` never orders against recency, however it is rounded |
| | `RocketOrders` | `rocket_value` orders by the last version, up to the seventh, and otherwise by the number of failures |
| | `RankingNeverPeeks` | a ranking uses results of earlier versions only |
| | `TokensSafe` | the token file is the map in memory unless it is being written |
| | `LookupsDefined` | `get_score` finds every row and every word |

`Lemmas` holds what several of them need: least and greatest elements, sums over
finite sets, the largest element of a list, and the principles below. A proof
module about two components extends both.

Assumptions, all named and evaluated by TLC on the instances:

- `ARP` (`Parameters`): at least one case, positive sample size, distances that are
  natural numbers.
- `FAST` (`FastParameters`): positive numbers of files, bands and rows; finitely many
  tokens; hash functions that do not collide.
- `CGStrategy` (`CGAssumption`): finitely many methods.
- `CallGraph` (`FilesAssumption`): files are sequences of entries.
- `CaseLoops` (`InputsAssumption`): no test object occurs twice in the input.
- `TCResult` (`LogsAssumption`): a log is a sequence of the kinds of lines.
- `DiffBlocks` (`DeltasAssumption`): a line is one of the four kinds.
- `Repro` (`ConstantsAssumption`): at least one worker; every checkout has a build;
  `None` is not a tag or a coverage. Nothing is assumed of `LtpVersion` and
  `DiskVersions`.
- `CollectCoverage` (`CollectAssumption`): at least one process; finitely many
  versions, each with finitely many archives.
- `CoverageStore` (`RawsAssumption`): a test covers finitely many lines; a line is
  recorded under its file.
- `History` (`HistoryAssumption`): types of the data set; rounding keeps the order
  of doubles, and 0.9 plus a faded value is greater than every faded value, which
  is 0.1 at most.
- `IR` (`ExperimentsAssumption`): types of the data set.

Every invariant is proved with an inductive strengthening.

- `ARP`: `Partition` with the types. Its last conjunct ties the counter
  `idx_list_len` to the set; without it the loop could stop early or sample from
  nothing.
- `ARP`, `Sampling`: the sample shrinks only when fewer cases are left. What
  `PickBeatsSample` says of a case was true when it was taken, and later rounds
  change neither what was emitted before it nor what was left then.
- `FAST`: `Indexed` and `Selected`. The index has refused repeated paths, so a path
  that was not selected is a position that was not emitted.
- `FAST`, `Novel`: the signature of the loop is that of the words in `SeenAt` at the
  next position. The component-wise minimum of two signatures is the signature of
  the union of their texts, and as hash functions do not collide, two signatures
  agree in a component iff the texts have the same least word there.
- `CGStrategy`, `Balance`: the files emitted and the files left are together the
  files listed, counted with repetitions. For the total strategy a lemma says that
  counting the tests ahead in a stable sort numbers them. `Order`: `slide_set` is
  what `CoveredUpTo` says of the positions emitted, and no test that is left would
  have added more at an earlier position. For APFD, a sum of `f` different
  positions from 1 to `n` lies between the sums of the first and of the last `f`.
- `CallGraph`: `WalkInv`. During a walk, every edge that leaves a visited function
  leads to a visited function or to the stack, all of both is reachable from the
  root, and `found` is what the method notes of the visited functions. With an
  empty stack the visited set is closed under edges, hence it is everything that
  is reachable. `EdgesKnown` (both ends of an edge are nodes) is part of it.
- `CaseLoops`, `FilterInv`: a file is in `failing` iff its last visited test failed,
  and every visited failure is still remembered or was followed by a test that did
  not fail. `CombineInv`: the kept ids are ids of visited tests, so the test of a
  step is not among them yet.
- `TCResult`, `LogInv`: since the last start of a test and until the next marker,
  `extracted_content` holds the lines in between (`Extracting`), and the blocks cut
  so far are those of the tests finished so far, as many as there are
  (`BlocksOfTests`). The second part is claimed of logs whose ends are matched: an
  end without a start reads the block of an earlier test, or raises.
- `DiffBlocks`, `Numbered`: the cut compares line numbers in the old and in the new
  file, the property compares places in the text of ndiff. Between two changed
  lines one number grows as the place does and the other by one less, hints
  included. `Blocked`: the blocks hold the lines before `prev_idx`, where a block
  begins, and the lines from there to `idx` belong together.
- `CollectCoverage`: the tree of a process holds no counters but those of the test
  it handles, two processes never have the same version, since the batches are
  disjoint, and the versions that no process has left are done.
- `Repro`: eight parts. `Position`: the loops stay inside the slice, the builds and
  their tests, and slices are disjoint (a lemma about products). `Images`: a kernel
  is made for the first build only. `Machines`: a live machine has a live pid file,
  none runs when the next is started, and one runs while a test is handled.
  `Disks`: what the disk holds unless a command failed. `Collected`: on the way to
  a coverage file the counters hold exactly the test. `Files`: what results and
  coverage may be. `PassedOf`: what the loop has left behind. The last two need
  disjoint checkouts: no other worker touches the files of the checkout. The whole
  invariant was checked by TLC on both instances before it was proved.
- `Repro`, `SInv` on top of these: as long as no budget was spent, a booted machine
  runs and has its script (`HealthyOf`), and the tests, builds and checkouts before
  the place of a worker are settled (`DoneOf`). The flag `failed` is not enough
  here: workers that share an LTP version can make each other's copy fail without
  a failure of the bound, and the tests still have to get their files. `Untouched`
  covers the checkouts of no slice, and the lemma `SlicesCover` says which these
  are: a product and a division with remainder. TLC checked `SInv` on an instance
  with two workers and on one with two builds before it was proved.
- `CoverageStore`: a readable cache is what the last load had in memory, so a load
  continues from it; after a torn one nothing is loaded any more.
- `CoverageStore`, `GreedyInv`: a test that is left would have added no more than the
  last one did in its place (`LastWasBest`), and by now adds no more than that.
- `History`: each property with the shape of the lists (`HistoryShape`).
  `ExdByRecency` is inductive: when two files have the same last result, the
  greater value was the greater one before, since the two operations keep the
  order; otherwise one failure outweighs all before it. It starts from `ExdStart`.
  `RocketOrder` needs the counts of `HistoryExact`: by induction over the versions
  `rocket_value` is a count of failures and what the last version adds
  (`RocketCounts`).
- `IR`: `IRStored` (what a start finds) with `TokenFileCurrent`; `IRFitted`: every word
  of every row has an inverse frequency, since `idf` is never reset either.

Induction over data (sums, recursive functions, cardinalities) is done by lemmas
about sets in place of predicates: a set of natural numbers that has 0 and with a
number the next is all of them (`NatInduces`); a set that has the empty set and,
with a part of a finite set `S`, the part with one more element, has all parts of
`S` (`FiniteInduces`). `Recursion` gives the functions that recursive definitions
denote.

## Only model-checked

- `CIAnalysis` (`DataInShape`, `StatusFaithful`, `OneCasePerFile`, `AllFailExact`,
  `DensestConfigKept`): no theorem. Its jobs are compositions of the library's
  `SelectSeq`, `FlattenSeq`, `FoldLeft` and `SetToSortSeq`, which take operators as
  arguments or are recursive; the provers cannot instantiate facts about them. The
  two loops of `CIAnalysis` with a memory are proved in the form of `CaseLoops`.
- Liveness: `WalkReturns`, `OnlyCommandsHang`, and the part of
  `ApproachesImplementPrioritizer` that all positions are emitted. The prover has
  no ENABLED.

## Not modelled

- `test_cases/` and `parser/`: copies of LTP, kselftest and the tree-sitter
  grammars, over 99% of the lines of the repository. They are what the tool reads,
  not what it does, so the mapped share of the whole tree is close to zero.
- `TfIdfModel`, `LSIModel`, `LDAModel`, learned models, topics, embeddings,
  distance metrics: floating-point libraries without state of their own.
- `llvm_process.py`, `ltp_cg_gen.py` and similar: rewriting of command strings and
  one-shot pipelines of external tools.
- Database access, logging, spiders, plots and one-shot scripts: pure I/O.
- Drivers around the approaches that parse logs, and queries that change nothing
  (`get_node`, `get_top_func`, `forward_step`, `backward_step`, printing).
- Contents: test names, configuration text, logs beyond the words that are looked
  for, the function that a diff block belongs to. Whether a file that a failed copy
  or a killed `lcov` left is complete. Recycled process ids.
