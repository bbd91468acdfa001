------------------------------- MODULE Repro -------------------------------
(***************************************************************************)
(* Reproduction of the failed tests on rebuilt kernels: the worker         *)
(* processes of reproduce_ltp_testcase.py, one per virtual machine, the    *)
(* class ReproUtil they drive (liebes/reproduce.py), and the restarts that *)
(* monitor.py asks for.                                                    *)
(*                                                                         *)
(* Workers share the directories of one host: the kernel tree and the      *)
(* results of a checkout, and the LTP trees repro_ltps/<tag>.  Every       *)
(* worker has a disk image of its own, which outlives its virtual          *)
(* machines.  An action is what a worker does between two points where     *)
(* another worker, a crash or a failed command can be told apart; pc[w]    *)
(* names the point.                                                        *)
(*                                                                         *)
(* prepare_ltp_binary copies ltp_dir into the tree of a tag and checks     *)
(* nothing out there, so every tree holds the version that ltp_dir has.    *)
(* get_ltp_version finds no tag for an unknown checkout: None in the code, *)
(* here a tag that no Version file says.                                   *)
(*                                                                         *)
(* qemu is external: it writes its pid file before the worker's sleep(90)  *)
(* ends or a restarted worker gets to start_qemu, and a second qemu on a   *)
(* taken port exits.                                                       *)
(***************************************************************************)
EXTENDS Naturals, Sequences, FiniteSets

CONSTANTS
  vmnum,         \* number of workers
  NumCheckouts,  \* length of cia.ci_objs
  Builds,        \* Builds[c][b]: the failed tests of build b, in order
  LtpTag,        \* LtpTag[c]: get_ltp_version of the checkout
  LtpVersion,    \* the version of LTP that ltp_dir holds
  DiskVersions,  \* what the Version file of a disk image may say at first
  Excluded,      \* tests the loop leaves out by their name
  Unsupported,   \* tests of neither suite, ltp or selftest
  None,          \* no Version file, no LTP tree, no coverage file
  MaxCrashes,    \* bound: workers killed
  MaxFails       \* bound: commands that fail for no reason of the model

Workers == 1 .. vmnum
Checkouts == 1 .. NumCheckouts
Tags == {LtpTag[c] : c \in Checkouts}
TestsOf(c) == UNION {{Builds[c][b][k] : k \in DOMAIN Builds[c][b]} : b \in DOMAIN Builds[c]}
Tests == UNION {TestsOf(c) : c \in Checkouts}

ASSUME ConstantsAssumption ==
  /\ vmnum \in Nat \ {0} /\ NumCheckouts \in Nat
  /\ \A c \in Checkouts : Builds[c] \in Seq(Seq(TestsOf(c))) /\ Builds[c] # << >>
  /\ None \notin [kernel : Nat, ran : SUBSET Tests] /\ None \notin Tags
  /\ MaxCrashes \in Nat /\ MaxFails \in Nat

\* Mutant: the slice takes one checkout too many.
Slice_OneMore(w) ==
  LET batch_per_run == NumCheckouts \div vmnum
  IN  (w - 1) * batch_per_run + 1 .. w * batch_per_run + 1

\* Mutant: vmindex counts from zero.
Slice_ZeroBased(w) ==
  LET batch_per_run == NumCheckouts \div vmnum
  IN  w * batch_per_run + 1 .. (w + 1) * batch_per_run

\* ci_objs[start_index:end_index] of worker w.
Slice(w) ==
  LET batch_per_run == NumCheckouts \div vmnum
  IN  (w - 1) * batch_per_run + 1 .. w * batch_per_run

VARIABLES
  pc,        \* where worker w is
  at,        \* its checkout, build and test: [c, b, k]
  failed,    \* some command failed since it began the build
  image,     \* image[c]: 0, or the build whose configuration bzImage has
  ltp,       \* ltp[g]: the build directory in the LTP tree of tag g
  selftest,  \* selftest[c]: the directory selftest_build
  vm,        \* vm[w]: the checkout whose kernel runs, or 0
  pidfile,   \* pidfile[w]: none, live or stale (its process is gone)
  disk,      \* on the disk image of w: the tag whose LTP build was copied
             \* to it, what its Version file says, selftests and script
  counters,  \* the tests counted by gcov in the machine since the reset
  result,    \* result[c][t]: 0, or the kernel behind the result file
  coverage,  \* coverage[c][t]: None, or what the file was collected from
  budget     \* crashes and failures left

vars == <<pc, at, failed, image, ltp, selftest, vm, pidfile, disk, counters,
          result, coverage, budget>>

host == <<image, ltp, selftest>>
machine == <<vm, pidfile, disk, counters>>
files == <<result, coverage>>

Init ==
  /\ pc = [w \in Workers |-> "idle"]
  /\ at = [w \in Workers |-> [c |-> 0, b |-> 0, k |-> 0]]
  /\ failed = [w \in Workers |-> FALSE]
  /\ image = [c \in Checkouts |-> 0]
  /\ ltp = [g \in Tags |-> "absent"]
  /\ selftest = [c \in Checkouts |-> "absent"]
  /\ vm = [w \in Workers |-> 0]
  /\ pidfile = [w \in Workers |-> "none"]
  /\ disk \in [Workers -> {[tree |-> None, version |-> g, selftest |-> 0, script |-> 0] :
                            g \in DiskVersions}]
  /\ counters = [w \in Workers |-> {}]
  /\ result = [c \in Checkouts |-> [t \in TestsOf(c) |-> 0]]
  /\ coverage = [c \in Checkouts |-> [t \in TestsOf(c) |-> None]]
  /\ budget = [crashes |-> MaxCrashes, fails |-> MaxFails]

-----------------------------------------------------------------------------
Stopped == {"idle", "crashed", "exited", "finished"}

Goto(w, label) == pc' = [pc EXCEPT ![w] = label]

\* run_command: the command succeeds, or fails at the cost of the bound.
Succeeds == UNCHANGED <<failed, budget>>
Fails(w) ==
  /\ budget.fails > 0
  /\ budget' = [budget EXCEPT !.fails = @ - 1]
  /\ failed' = [failed EXCEPT ![w] = TRUE]
\* A command that cannot succeed.
MustFail(w) == failed' = [failed EXCEPT ![w] = TRUE] /\ UNCHANGED budget

Tag(w) == LtpTag[at[w].c]

\* The loop goes on with build b of checkout c, or ends.
EnterBuild(w, c, b) ==
  IF c \in Slice(w)
  THEN /\ at' = [at EXCEPT ![w] = [c |-> c, b |-> b, k |-> 1]]
       /\ Goto(w, "image")
       /\ failed' = [failed EXCEPT ![w] = FALSE]
  ELSE /\ Goto(w, "finished")
       /\ UNCHANGED <<at, failed>>

\* The process starts, or is started again as monitor.py asks for every
\* task that is not running, the finished ones included.
Start(w) ==
  /\ pc[w] \in Stopped
  /\ LET batch_per_run == NumCheckouts \div vmnum
     IN  EnterBuild(w, (w - 1) * batch_per_run + 1, 1)
  /\ UNCHANGED <<host, machine, files, budget>>

-----------------------------------------------------------------------------
(* prepare_linux_image *)

\* An existing bzImage is taken as it is, for whatever build it was made.
CheckImage(w) ==
  /\ pc[w] = "image"
  /\ Goto(w, IF image[at[w].c] # 0 THEN "ltp" ELSE "make")
  /\ UNCHANGED <<at, failed, budget, host, machine, files>>

\* cp, git checkout, git clean, the configuration, and make up to bzImage.
MakeImage(w) ==
  /\ pc[w] = "make"
  /\ \/ /\ Succeeds
        /\ image' = [image EXCEPT ![at[w].c] = at[w].b]
        /\ Goto(w, "made")
     \/ Fails(w) /\ Goto(w, "exited") /\ UNCHANGED image
  /\ UNCHANGED <<at, ltp, selftest, machine, files>>

\* make returns; when it fails now, bzImage stays.
ImageMade(w) ==
  /\ pc[w] = "made"
  /\ \/ Succeeds /\ Goto(w, "ltp")
     \/ Fails(w) /\ Goto(w, "exited")
  /\ UNCHANGED <<at, host, machine, files>>

(* prepare_ltp_binary *)

\* Mutant: a build directory that is not whole is waited for.
CheckLtp_Waits(w) ==
  /\ pc[w] = "ltp"
  /\ Goto(w, CASE ltp[Tag(w)] = "absent"  -> "ltp_copy"
               [] ltp[Tag(w)] = "partial" -> "ltp"
               [] ltp[Tag(w)] = "whole"   -> "selftest")
  /\ UNCHANGED <<at, failed, budget, host, machine, files>>

\* A build directory that exists is taken as it is.
CheckLtp(w) ==
  /\ pc[w] = "ltp"
  /\ Goto(w, IF ltp[Tag(w)] # "absent" THEN "selftest" ELSE "ltp_copy")
  /\ UNCHANGED <<at, failed, budget, host, machine, files>>

\* cp -r of ltp_dir and git clean -df, which may also delete the untracked
\* build directory that another worker has made in the meantime.
CopyLtp(w) ==
  /\ pc[w] = "ltp_copy"
  /\ \/ /\ Succeeds
        /\ ltp' \in {ltp, [ltp EXCEPT ![Tag(w)] = "absent"]}
        /\ Goto(w, "ltp_mkdir")
     \/ Fails(w) /\ Goto(w, "exited") /\ UNCHANGED ltp
  /\ UNCHANGED <<at, image, selftest, machine, files>>

\* make autotools && mkdir build && ./configure
MkdirLtp(w) ==
  /\ pc[w] = "ltp_mkdir"
  /\ \/ /\ ltp[Tag(w)] = "absent"
        /\ Succeeds
        /\ ltp' = [ltp EXCEPT ![Tag(w)] = "partial"]
        /\ Goto(w, "ltp_make")
     \/ /\ ltp[Tag(w)] # "absent"
        /\ MustFail(w)
        /\ Goto(w, "exited")
        /\ UNCHANGED ltp
     \/ /\ Fails(w)
        /\ ltp' \in {ltp, [ltp EXCEPT ![Tag(w)] = IF @ = "absent" THEN "partial" ELSE @]}
        /\ Goto(w, "exited")
  /\ UNCHANGED <<at, image, selftest, machine, files>>

\* make && make install
MakeLtp(w) ==
  /\ pc[w] = "ltp_make"
  /\ \/ /\ Succeeds
        /\ ltp' = [ltp EXCEPT ![Tag(w)] = "whole"]
        /\ Goto(w, "selftest")
     \/ Fails(w) /\ Goto(w, "exited") /\ UNCHANGED ltp
  /\ UNCHANGED <<at, image, selftest, machine, files>>

(* prepare_selftest_binary *)

\* An existing selftest_build is taken as it is; otherwise it is made.
CheckSelftest(w) ==
  /\ pc[w] = "selftest"
  /\ LET c == at[w].c
     IN  \/ selftest[c] # "absent" /\ Succeeds /\ Goto(w, "start") /\ UNCHANGED selftest
         \/ /\ selftest[c] = "absent"
            /\ Succeeds
            /\ selftest' = [selftest EXCEPT ![c] = "partial"]
            /\ Goto(w, "selftest_make")
         \/ /\ selftest[c] = "absent"
            /\ Fails(w)
            /\ Goto(w, "exited")
            /\ UNCHANGED selftest
  /\ UNCHANGED <<at, image, ltp, machine, files>>

\* make headers, make install into selftest_build
MakeSelftest(w) ==
  /\ pc[w] = "selftest_make"
  /\ \/ /\ Succeeds
        /\ selftest' = [selftest EXCEPT ![at[w].c] = "whole"]
        /\ Goto(w, "start")
     \/ Fails(w) /\ Goto(w, "exited") /\ UNCHANGED selftest
  /\ UNCHANGED <<at, image, ltp, machine, files>>

-----------------------------------------------------------------------------
(* The virtual machine: start_qemu, the copies, kill_qemu *)

\* Mutant: the previous machine is not killed.
KillPrevious_Not(w) ==
  /\ pc[w] = "start"
  /\ pidfile' = [pidfile EXCEPT ![w] = IF @ = "live" THEN "stale" ELSE @]
  /\ Goto(w, "boot")
  /\ UNCHANGED <<at, failed, budget, host, files, vm, disk, counters>>

\* start_qemu kills the process that the pid file names.
KillPrevious(w) ==
  /\ pc[w] = "start"
  /\ vm' = [vm EXCEPT ![w] = IF pidfile[w] = "live" THEN 0 ELSE @]
  /\ pidfile' = [pidfile EXCEPT ![w] = IF @ = "live" THEN "stale" ELSE @]
  /\ Goto(w, "boot")
  /\ UNCHANGED <<at, failed, budget, host, files, disk, counters>>

\* unlink, Popen and the sleep.  A machine that still runs keeps the port.
Boot(w) ==
  /\ pc[w] = "boot"
  /\ \/ /\ vm[w] = 0
        /\ Succeeds
        /\ vm' = [vm EXCEPT ![w] = at[w].c]
        /\ pidfile' = [pidfile EXCEPT ![w] = "live"]
        /\ counters' = [counters EXCEPT ![w] = {}]
     \/ /\ IF vm[w] = 0 THEN Fails(w) ELSE MustFail(w)
        /\ pidfile' = [pidfile EXCEPT ![w] = "none"]
        /\ UNCHANGED <<vm, counters>>
  /\ Goto(w, "copy_files")
  /\ UNCHANGED <<at, host, files, disk>>

\* A command in the machine (ssh, scp): it fails when no machine runs.
SshFails(w) == IF vm[w] = 0 THEN MustFail(w) ELSE Fails(w)
SshSucceeds(w) == vm[w] # 0 /\ Succeeds

\* copy_essential_files_to_vm; the script it leaves reads the gcov directory
\* of this checkout.  The worker ignores what the copies return.
CopyEssentialFiles(w) ==
  /\ pc[w] = "copy_files"
  /\ \/ SshSucceeds(w) /\ disk' = [disk EXCEPT ![w].script = at[w].c]
     \/ SshFails(w) /\ UNCHANGED disk
  /\ Goto(w, "copy_ltp")
  /\ UNCHANGED <<at, host, files, vm, pidfile, counters>>

\* What scp -r of the build directory can leave on the disk of w: one that is
\* not whole may lack its Version file.
LtpCopied(w) ==
  {[disk EXCEPT ![w] = [@ EXCEPT !.tree = Tag(w), !.version = g]] :
     g \in CASE ltp[Tag(w)] = "whole"   -> {LtpVersion}
            [] ltp[Tag(w)] = "partial" -> {LtpVersion, None}
            [] ltp[Tag(w)] = "absent"  -> {}}
LtpRemoved(w) == [disk EXCEPT ![w] = [@ EXCEPT !.tree = None, !.version = None]]

\* Mutant: any version found on the disk will do.
LtpFound_Any(w) == disk[w].version # None

\* cat /root/ltp_bin/Version says the tag.
LtpFound(w) == disk[w].version = Tag(w)

\* copy_ltp_bin_to_vm: nothing to do when the version is found; else rm and
\* scp.  When cat fails, they follow although the version may be there;
\* when they fail, the old LTP, none, or the new one is left.
CopyLtpBin(w) ==
  /\ pc[w] = "copy_ltp"
  /\ \/ SshSucceeds(w) /\ LtpFound(w) /\ UNCHANGED disk
     \/ SshSucceeds(w) /\ ~ LtpFound(w) /\ disk' \in LtpCopied(w)
     \/ /\ vm[w] # 0 /\ ~ LtpFound(w) /\ ltp[Tag(w)] = "absent"
        /\ MustFail(w)
        /\ disk' = LtpRemoved(w)
     \/ vm[w] # 0 /\ Fails(w) /\ disk' \in {disk, LtpRemoved(w)} \cup LtpCopied(w)
     \/ vm[w] = 0 /\ MustFail(w) /\ UNCHANGED disk
  /\ Goto(w, "copy_selftest")
  /\ UNCHANGED <<at, host, files, vm, pidfile, counters>>

\* copy_selftest_bin_to_vm: rm and scp, always.
CopySelftestBin(w) ==
  /\ pc[w] = "copy_selftest"
  /\ \/ SshSucceeds(w) /\ disk' = [disk EXCEPT ![w].selftest = at[w].c]
     \/ /\ SshFails(w)
        /\ disk' \in {[disk EXCEPT ![w].selftest = c] :
                        c \in IF vm[w] = 0 THEN {disk[w].selftest}
                              ELSE {disk[w].selftest, 0, at[w].c}}
  /\ Goto(w, "tests")
  /\ UNCHANGED <<at, host, files, vm, pidfile, counters>>

\* Mutant: the pid file goes, the machine stays.
KillQemu_NoKill(w) ==
  /\ pc[w] = "tests"
  /\ at[w].k > Len(Builds[at[w].c][at[w].b])
  /\ pidfile' = [pidfile EXCEPT ![w] = "none"]
  /\ IF at[w].b < Len(Builds[at[w].c])
     THEN EnterBuild(w, at[w].c, at[w].b + 1)
     ELSE EnterBuild(w, at[w].c + 1, 1)
  /\ UNCHANGED <<host, files, vm, disk, counters, budget>>

\* After the last test kill_qemu, and the next build or checkout.
KillQemu(w) ==
  /\ pc[w] = "tests"
  /\ at[w].k > Len(Builds[at[w].c][at[w].b])
  /\ vm' = [vm EXCEPT ![w] = IF pidfile[w] = "live" THEN 0 ELSE @]
  /\ pidfile' = [pidfile EXCEPT ![w] = "none"]
  /\ IF at[w].b < Len(Builds[at[w].c])
     THEN EnterBuild(w, at[w].c, at[w].b + 1)
     ELSE EnterBuild(w, at[w].c + 1, 1)
  /\ UNCHANGED <<host, files, disk, counters, budget>>

-----------------------------------------------------------------------------
(* The loop over the failed tests, and execute_testcase *)

Test(w) == Builds[at[w].c][at[w].b][at[w].k]
HasResult(c, t) == result[c][t] # 0
HasCoverage(c, t) == coverage[c][t] # None
Reproduced(w) == HasResult(at[w].c, Test(w)) /\ HasCoverage(at[w].c, Test(w))

\* The loop goes on with the next failed test.
NextTest(w) ==
  /\ at' = [at EXCEPT ![w].k = @ + 1]
  /\ Goto(w, "tests")

\* Mutant: a result alone is enough to skip the test.
SkipTest_NoCoverage(w) ==
  /\ pc[w] = "tests"
  /\ at[w].k <= Len(Builds[at[w].c][at[w].b])
  /\ Test(w) \in Excluded \/ HasResult(at[w].c, Test(w))
  /\ NextTest(w)
  /\ UNCHANGED <<failed, budget, host, machine, files>>

\* Two tests are never run; one with a result and a coverage file is not run
\* again.
SkipTest(w) ==
  /\ pc[w] = "tests"
  /\ at[w].k <= Len(Builds[at[w].c][at[w].b])
  /\ Test(w) \in Excluded \/ Reproduced(w)
  /\ NextTest(w)
  /\ UNCHANGED <<failed, budget, host, machine, files>>

\* Mutant: the counters are not reset.
ResetCounters_Not(w) ==
  /\ pc[w] = "tests"
  /\ at[w].k <= Len(Builds[at[w].c][at[w].b])
  /\ Test(w) \notin Excluded /\ ~ Reproduced(w)
  /\ \/ SshSucceeds(w) /\ Goto(w, "run") /\ UNCHANGED at
     \/ SshFails(w) /\ NextTest(w)
  /\ UNCHANGED <<host, files, vm, pidfile, disk, counters>>

\* lcov -z
ResetCounters(w) ==
  /\ pc[w] = "tests"
  /\ at[w].k <= Len(Builds[at[w].c][at[w].b])
  /\ Test(w) \notin Excluded /\ ~ Reproduced(w)
  /\ \/ /\ SshSucceeds(w)
        /\ counters' = [counters EXCEPT ![w] = {}]
        /\ Goto(w, "run")
        /\ UNCHANGED at
     \/ SshFails(w) /\ NextTest(w) /\ UNCHANGED counters
  /\ UNCHANGED <<host, files, vm, pidfile, disk>>

\* runltp or run_kselftest.sh; whatever it returns, 124 included, there is
\* a result to save.  A test of another suite is given up.
RunTest(w) ==
  /\ pc[w] = "run"
  /\ Succeeds
  /\ IF Test(w) \in Unsupported
     THEN NextTest(w) /\ UNCHANGED counters
     ELSE /\ counters' = [counters EXCEPT ![w] = @ \cup {Test(w)}]
          /\ Goto(w, "save")
          /\ UNCHANGED at
  /\ UNCHANGED <<host, files, vm, pidfile, disk>>

\* The .result or .err file is written; an existing coverage file stays.
SaveResult(w) ==
  /\ pc[w] = "save"
  /\ result' = [result EXCEPT ![at[w].c][Test(w)] = vm[w]]
  /\ IF HasCoverage(at[w].c, Test(w)) THEN NextTest(w)
     ELSE Goto(w, "collect") /\ UNCHANGED at
  /\ UNCHANGED <<failed, budget, host, machine, coverage>>

\* collect_coverage.sh in the machine: it needs the gcov directory it names.
CollectCoverage(w) ==
  /\ pc[w] = "collect"
  /\ \/ SshSucceeds(w) /\ disk[w].script = vm[w] /\ Goto(w, "fetch") /\ UNCHANGED at
     \/ disk[w].script # vm[w] /\ MustFail(w) /\ NextTest(w)
     \/ Fails(w) /\ NextTest(w)
  /\ UNCHANGED <<host, machine, files>>

\* scp of the archive, which when it fails may leave a file all the same.
FetchCoverage(w) ==
  /\ pc[w] = "fetch"
  /\ LET c == at[w].c
         fetched == [coverage EXCEPT ![c][Test(w)] = [kernel |-> vm[w], ran |-> counters[w]]]
     IN  \/ SshSucceeds(w) /\ coverage' = fetched
         \/ SshFails(w) /\ coverage' \in {coverage, fetched}
  /\ NextTest(w)
  /\ UNCHANGED <<host, machine, result>>

-----------------------------------------------------------------------------
(* What happens to a worker from outside *)

\* The process is killed; its machine lives on.
Crash(w) ==
  /\ pc[w] \notin Stopped
  /\ budget.crashes > 0
  /\ budget' = [budget EXCEPT !.crashes = @ - 1]
  /\ Goto(w, "crashed")
  /\ UNCHANGED <<at, failed, host, machine, files>>

\* monitor.py: the machine of a task that is not running "Need kill!"; kill
\* -9 leaves its pid file behind.
CloseVM(w) ==
  /\ pc[w] \in Stopped
  /\ pidfile[w] = "live" /\ vm[w] # 0
  /\ vm' = [vm EXCEPT ![w] = 0]
  /\ pidfile' = [pidfile EXCEPT ![w] = "stale"]
  /\ UNCHANGED <<pc, at, failed, budget, host, files, disk, counters>>

Work(w) ==
  \/ CheckImage(w) \/ MakeImage(w) \/ ImageMade(w)
  \/ CheckLtp(w) \/ CopyLtp(w) \/ MkdirLtp(w) \/ MakeLtp(w)
  \/ CheckSelftest(w) \/ MakeSelftest(w)
  \/ KillPrevious(w) \/ Boot(w)
  \/ CopyEssentialFiles(w) \/ CopyLtpBin(w) \/ CopySelftestBin(w)
  \/ SkipTest(w) \/ ResetCounters(w) \/ RunTest(w) \/ SaveResult(w)
  \/ CollectCoverage(w) \/ FetchCoverage(w) \/ KillQemu(w)

Next == \E w \in Workers : Work(w) \/ Start(w) \/ Crash(w) \/ CloseVM(w)

\* Worker w waits for a command that may hang: run_command has no timeout.
\* What it does in between, the kill and the sleep of start_qemu included,
\* ends by itself.
InCommand(w) ==
  \/ pc[w] \in {"make", "made", "ltp_copy", "ltp_mkdir", "ltp_make", "selftest_make",
               "copy_files", "copy_ltp", "copy_selftest", "run", "collect", "fetch"}
  \/ pc[w] = "selftest" /\ selftest[at[w].c] = "absent"
  \/ /\ pc[w] = "tests"
     /\ at[w].k <= Len(Builds[at[w].c][at[w].b])
     /\ Test(w) \notin Excluded /\ ~ Reproduced(w)

\* A worker that runs goes on, unless it waits for a command: whether that
\* returns is not assumed.
Spec == Init /\ [][Next]_vars /\ \A w \in Workers : WF_vars(~ InCommand(w) /\ Work(w))

-----------------------------------------------------------------------------
Running(w) == pc[w] \notin Stopped
InTests(w) == pc[w] \in {"tests", "run", "save", "collect", "fetch"}

Labels ==
  Stopped \cup
    {"image", "make", "made", "ltp", "ltp_copy", "ltp_mkdir", "ltp_make", "selftest",
     "selftest_make", "start", "boot", "copy_files", "copy_ltp", "copy_selftest",
     "tests", "run", "save", "collect", "fetch"}

\* Types of the state of workers, host, machines and files.
TypeOK ==
  /\ pc \in [Workers -> Labels]
  /\ at \in [Workers -> [c : Nat, b : Nat, k : Nat]]
  /\ failed \in [Workers -> BOOLEAN]
  /\ image \in [Checkouts -> Nat]
  /\ ltp \in [Tags -> {"absent", "partial", "whole"}]
  /\ selftest \in [Checkouts -> {"absent", "partial", "whole"}]
  /\ vm \in [Workers -> Nat]
  /\ pidfile \in [Workers -> {"none", "live", "stale"}]
  /\ disk \in [Workers -> [tree : Tags \cup {None},
                           version : DiskVersions \cup {LtpVersion, None},
                           selftest : Nat, script : Nat]]
  /\ DOMAIN counters = Workers
  /\ DOMAIN result = Checkouts /\ \A c \in Checkouts : DOMAIN result[c] = TestsOf(c)
  /\ DOMAIN coverage = Checkouts /\ \A c \in Checkouts : DOMAIN coverage[c] = TestsOf(c)
  /\ budget \in [crashes : Nat, fails : Nat]

\* No two workers ever work on the same checkout: the directories of a
\* checkout need no lock.
OwnCheckout ==
  \A v, w \in Workers : v # w /\ Running(v) /\ Running(w) => at[v].c # at[w].c

\* Tests run on the kernel of their own checkout, however workers crashed
\* and machines were left behind: every result comes from that kernel.  A
\* checkout has one kernel, that of its first build, for all its builds.
OwnKernel ==
  /\ \A c \in Checkouts : image[c] \in {0, 1}
  /\ \A w \in Workers : InTests(w) => vm[w] \in {0, at[w].c}
  /\ \A c \in Checkouts : \A t \in TestsOf(c) : result[c][t] \in {0, c}

\* A coverage file is what one run of its own test executed on the kernel of
\* its own checkout, and the result of the test was saved before it.
OwnCoverage ==
  \A c \in Checkouts : \A t \in TestsOf(c) : HasCoverage(c, t) =>
    /\ coverage[c][t] = [kernel |-> c, ran |-> {t}]
    /\ HasResult(c, t)

\* When no command failed for the build, its tests run with its selftests,
\* its script, and an LTP that was copied from the tree of its tag or whose
\* Version file says the tag: what another checkout left on the disk image,
\* which outlives the machines, is never taken for it.  (Which version the
\* tree of a tag holds is another matter, see LtpOfCheckout.)
RightBinaries ==
  \A w \in Workers : InTests(w) /\ ~ failed[w] =>
    /\ disk[w].tree = Tag(w) \/ disk[w].version = Tag(w)
    /\ disk[w].selftest = at[w].c /\ disk[w].script = at[w].c

\* The tests that the loop has passed without a failed command have both
\* files, those of runs before a crash included, unless the loop leaves them
\* out by name or by suite.
PassedAreReproduced ==
  \A w \in Workers : InTests(w) /\ ~ failed[w] =>
    \A k \in 1 .. at[w].k - 1 :
      LET t == Builds[at[w].c][at[w].b][k]
      IN  \/ t \in Excluded \cup Unsupported
          \/ HasResult(at[w].c, t) /\ HasCoverage(at[w].c, t)

\* A pid file that names a live process names the machine of the worker, and
\* no machine runs without one: start_qemu and kill_qemu find it.
MachineHasPidFile == \A w \in Workers : vm[w] # 0 <=> pidfile[w] = "live"

\* When all workers have ended and nothing failed or crashed, the tests of
\* the first checkouts have their files, up to the last multiple of vmnum;
\* the rest belongs to no slice and is never touched.
SlicesReproduced ==
  (\A w \in Workers : pc[w] = "finished") /\ budget = [crashes |-> MaxCrashes, fails |-> MaxFails] =>
    \A c \in Checkouts : \A t \in TestsOf(c) \ (Excluded \cup Unsupported) :
      IF c =< NumCheckouts - (NumCheckouts % vmnum)
      THEN HasResult(c, t) /\ HasCoverage(c, t)
      ELSE ~ HasResult(c, t) /\ ~ HasCoverage(c, t)

\* A worker stops again and again, or it hangs in one command for ever: that
\* is all that can hold it up.  No directory, file or machine that a killed,
\* failed or hung run left behind makes it wait.
OnlyCommandsHang ==
  \A w \in Workers :
    \/ []<>(~ Running(w))
    \/ <>[]InCommand(w) /\ <>[][UNCHANGED <<pc[w], at[w]>>]_vars

\* "checkout ltp to the specific git sha": when no command failed, the tests
\* run with the LTP version of the checkout.
LtpOfCheckout ==
  \A w \in Workers : InTests(w) /\ ~ failed[w] => disk[w].version = Tag(w)

\* "make whole ltp into binary, the location of the binary is ./build": the
\* LTP that prepare_ltp_binary hands on is whole.
LtpBinWhole == \A w \in Workers : pc[w] = "selftest" => ltp[Tag(w)] = "whole"
=============================================================================
