-------------------------- MODULE CollectCoverage --------------------------
(***************************************************************************)
(* collect_coverage.py --task parse_info: processes that turn the archives *)
(* fetched from the virtual machines into .info files, one kernel tree     *)
(* after the other.  The counters of one test at a time are unpacked into  *)
(* the tree and read by lcov.  Failed commands are logged and otherwise    *)
(* ignored; the script may be killed and started again.                    *)
(*                                                                         *)
(* The task load_cov divides the versions in the same way; what it does    *)
(* with one is load_coverage4checkout of CoverageStore.                    *)
(***************************************************************************)
EXTENDS Naturals, Sequences, FiniteSets, Functions

CONSTANTS
  Version,            \* directories under repro_linuxs
  TestName,
  number_of_process,
  Archives,           \* the possible contents of the directories: Version -> tests
  MaxScriptKills, MaxFails  \* bounds: script killed, commands that fail

\* There are processes, and directories hold finitely many files.
CollectAssumption ==
  /\ number_of_process \in Nat \ {0} /\ MaxScriptKills \in Nat /\ MaxFails \in Nat
  /\ IsFiniteSet(Version)
  /\ \A a \in Archives : /\ a \in [Version -> SUBSET TestName]
                         /\ \A v \in Version : IsFiniteSet(a[v])

VARIABLES
  archives,    \* archives[v]: the tests with a .tar.gz
  info_files,  \* info_files[v]: test -> the tests whose counters its .info shows
  gcda,        \* gcda[v]: the tests whose counters lie in the tree
  to_list,     \* versions that have an archive without .info
  queue,       \* the versions a process still has
  listing,     \* the archives it still has of the first of them
  c_pc,        \* c_pc[p]: where process p is
  budget       \* kills and failures left

collect_vars == <<archives, info_files, gcda, to_list, queue, listing, c_pc, budget>>

Process == 1 .. number_of_process
NoInfo == [t \in {} |-> {}]

CollectInit ==
  /\ archives \in Archives
  /\ info_files = [v \in Version |-> NoInfo]
  /\ gcda = [v \in Version |-> {}]
  /\ to_list = << >>
  /\ queue = [p \in Process |-> << >>]
  /\ listing = [p \in Process |-> << >>]
  /\ c_pc = [p \in Process |-> "off"]
  /\ budget = [kills |-> MaxScriptKills, fails |-> MaxFails]

\* A directory is listed in any order.
DirListings(S) == Bijection(1 .. Cardinality(S), S)

HasInfo(v, t) == t \in DOMAIN info_files[v]

\* Mutant: the last process leaves the rest as the others do.
Batch_NoRest(list, p) ==
  LET batch == Len(list) \div number_of_process
  IN  SubSeq(list, (p - 1) * batch + 1, p * batch)

\* to_list[start: end] of process p; the last one takes the rest.
Batch(list, p) ==
  LET batch == Len(list) \div number_of_process
  IN  SubSeq(list, (p - 1) * batch + 1,
             IF p = number_of_process THEN Len(list) ELSE p * batch)

\* The main process lists what is to be done and starts the others.
StartScript ==
  /\ \A p \in Process : c_pc[p] \in {"off", "joined"}
  /\ \E list \in DirListings({v \in Version : \E t \in archives[v] : ~ HasInfo(v, t)}) :
       /\ list # << >>
       /\ to_list' = list
       /\ queue' = [p \in Process |-> Batch(list, p)]
  /\ c_pc' = [p \in Process |-> "version"]
  /\ UNCHANGED <<archives, info_files, gcda, listing, budget>>

Goto(p, label) == c_pc' = [c_pc EXCEPT ![p] = label]
Tree(p) == Head(queue[p])
Archive(p) == Head(listing[p])

\* mkdir and cp into cov_all, and the listing of the tree in any order.
EnterVersion(p) ==
  /\ c_pc[p] = "version" /\ queue[p] # << >>
  /\ \E list \in DirListings(archives[Tree(p)]) : listing' = [listing EXCEPT ![p] = list]
  /\ Goto(p, "archive")
  /\ UNCHANGED <<archives, info_files, gcda, to_list, queue, budget>>

LeaveVersion(p) ==
  /\ c_pc[p] = "archive" /\ listing[p] = << >>
  /\ queue' = [queue EXCEPT ![p] = Tail(@)]
  /\ Goto(p, "version")
  /\ UNCHANGED <<archives, info_files, gcda, to_list, listing, budget>>

Join(p) ==
  /\ c_pc[p] = "version" /\ queue[p] = << >>
  /\ Goto(p, "joined")
  /\ UNCHANGED <<archives, info_files, gcda, to_list, queue, listing, budget>>

Skip(p) ==
  /\ c_pc[p] = "archive" /\ listing[p] # << >>
  /\ HasInfo(Tree(p), Archive(p))
  /\ listing' = [listing EXCEPT ![p] = Tail(@)]
  /\ UNCHANGED <<archives, info_files, gcda, to_list, queue, c_pc, budget>>

\* Mutant: the counters of the test before stay.
RemoveGcda_Not(p) ==
  /\ c_pc[p] = "archive" /\ listing[p] # << >>
  /\ ~ HasInfo(Tree(p), Archive(p))
  /\ Goto(p, "tar")
  /\ UNCHANGED <<archives, info_files, gcda, to_list, queue, listing, budget>>

RemoveGcda(p) ==
  /\ c_pc[p] = "archive" /\ listing[p] # << >>
  /\ ~ HasInfo(Tree(p), Archive(p))
  /\ gcda' = [gcda EXCEPT ![Tree(p)] = {}]
  /\ Goto(p, "tar")
  /\ UNCHANGED <<archives, info_files, to_list, queue, listing, budget>>

Fails == budget.fails > 0 /\ budget' = [budget EXCEPT !.fails = @ - 1]

\* tar: all of the counters, or when it fails none or some of them.
Unpack(p) ==
  /\ c_pc[p] = "tar"
  /\ \/ UNCHANGED budget /\ gcda' = [gcda EXCEPT ![Tree(p)] = @ \cup {Archive(p)}]
     \/ Fails /\ gcda' \in {gcda, [gcda EXCEPT ![Tree(p)] = @ \cup {Archive(p)}]}
  /\ Goto(p, "lcov")
  /\ UNCHANGED <<archives, info_files, to_list, queue, listing>>

Written(v, t) ==
  [info_files EXCEPT ![v] = [x \in DOMAIN @ \cup {t} |-> IF x = t THEN gcda[v] ELSE @[x]]]

\* lcov -c: without counters there is no file; when it fails there may be one.
Lcov(p) ==
  /\ c_pc[p] = "lcov"
  /\ LET v == Tree(p)
         t == Archive(p)
     IN  \/ gcda[v] # {} /\ info_files' = Written(v, t) /\ UNCHANGED budget
         \/ gcda[v] = {} /\ UNCHANGED <<info_files, budget>>
         \/ gcda[v] # {} /\ Fails /\ info_files' \in {info_files, Written(v, t)}
  /\ listing' = [listing EXCEPT ![p] = Tail(@)]
  /\ Goto(p, "archive")
  /\ UNCHANGED <<archives, gcda, to_list, queue>>

\* The script is killed with its processes; lcov may have begun its file.
Kill ==
  /\ \E p \in Process : c_pc[p] \notin {"off", "joined"}
  /\ budget.kills > 0
  /\ budget' = [budget EXCEPT !.kills = @ - 1]
  /\ \E begun \in SUBSET {p \in Process : c_pc[p] = "lcov" /\ gcda[Tree(p)] # {}} :
       info_files' = [v \in Version |->
                        LET now == {Archive(p) : p \in {q \in begun : Tree(q) = v}}
                        IN  [t \in DOMAIN info_files[v] \cup now |->
                               IF t \in now THEN gcda[v] ELSE info_files[v][t]]]
  /\ c_pc' = [p \in Process |-> "off"]
  /\ queue' = [p \in Process |-> << >>]
  /\ listing' = [p \in Process |-> << >>]
  /\ UNCHANGED <<archives, gcda, to_list>>

Work(p) ==
  \/ EnterVersion(p) \/ LeaveVersion(p) \/ Join(p)
  \/ Skip(p) \/ RemoveGcda(p) \/ Unpack(p) \/ Lcov(p)

CollectNext == StartScript \/ Kill \/ \E p \in Process : Work(p)

CollectSpec == CollectInit /\ [][CollectNext]_collect_vars

-----------------------------------------------------------------------------
\* An .info file of parse_info shows the counters of its own test and of no
\* other, although the tests of a version are unpacked into one tree, and
\* whenever the script was killed before.
InfoFromOwnArchive ==
  \A v \in Version : \A t \in DOMAIN info_files[v] : t \in archives[v] /\ info_files[v][t] = {t}

\* When all processes have been joined and nothing failed or was killed,
\* every archive of every version has its .info file: whatever the number
\* of versions, the batches of the processes leave none out.
AllParsed ==
  (/\ \A p \in Process : c_pc[p] = "joined"
   /\ budget = [kills |-> MaxScriptKills, fails |-> MaxFails])
  => \A v \in Version : archives[v] \subseteq DOMAIN info_files[v]
=============================================================================
