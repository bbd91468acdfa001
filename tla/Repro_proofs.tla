---------------------------- MODULE Repro_proofs ---------------------------
(***************************************************************************)
(* The safety of the reproduction on rebuilt kernels, for any number of    *)
(* workers, checkouts, builds and tests, and any number of crashes and     *)
(* failed commands.                                                        *)
(***************************************************************************)
EXTENDS Repro, TLAPS

OnTest(w) == pc[w] \in {"run", "save", "collect", "fetch"}
Booted(w) == InTests(w) \/ pc[w] \in {"copy_files", "copy_ltp", "copy_selftest"}

\* The loops of a worker stay inside its slice, its builds and their tests.
PositionOf(w) ==
  /\ Running(w) => /\ at[w].c \in Slice(w)
                   /\ at[w].b \in 1 .. Len(Builds[at[w].c])
                   /\ at[w].k \in 1 .. Len(Builds[at[w].c][at[w].b]) + 1
  /\ Running(w) /\ ~ InTests(w) => at[w].k = 1
  /\ OnTest(w) => at[w].k =< Len(Builds[at[w].c][at[w].b])

\* A kernel is made for the first build only: when the loop comes to another
\* one, bzImage is there.
ImageOf(w) ==
  /\ Running(w) /\ at[w].b > 1 => image[at[w].c] # 0
  /\ Running(w) /\ pc[w] \notin {"image", "make"} => image[at[w].c] # 0
  /\ pc[w] = "make" => at[w].b = 1

\* The machine of a worker: killed before the next one starts, found through
\* its pid file, and up while a test is handled.
MachineOf(w) ==
  /\ vm[w] # 0 <=> pidfile[w] = "live"
  /\ pc[w] = "boot" => vm[w] = 0
  /\ Booted(w) => vm[w] \in {0, at[w].c}
  /\ OnTest(w) => vm[w] # 0

\* What the disk image holds as long as no copy failed.
DiskOf(w) ==
  ~ failed[w] =>
    /\ Booted(w) /\ pc[w] # "copy_files" => disk[w].script = at[w].c
    /\ InTests(w) \/ pc[w] = "copy_selftest" =>
         disk[w].tree = Tag(w) \/ disk[w].version = Tag(w)
    /\ InTests(w) => disk[w].selftest = at[w].c

\* What the counters and the result file hold on the way to a coverage file.
CollectedOf(w) ==
  /\ pc[w] = "run" => counters[w] = {}
  /\ pc[w] \in {"save", "collect", "fetch"} => counters[w] = {Test(w)}
  /\ pc[w] \in {"collect", "fetch"} => HasResult(at[w].c, Test(w))

\* The tests of the build that the loop has passed.
PassedOf(w) ==
  InTests(w) /\ ~ failed[w] =>
    \A k \in 1 .. at[w].k - 1 :
      LET t == Builds[at[w].c][at[w].b][k]
      IN  \/ t \in Excluded \cup Unsupported
          \/ HasResult(at[w].c, t) /\ HasCoverage(at[w].c, t)

Position == \A w \in Workers : PositionOf(w)
Images == (\A c \in Checkouts : image[c] \in {0, 1}) /\ \A w \in Workers : ImageOf(w)
Machines == \A w \in Workers : MachineOf(w)
Disks == \A w \in Workers : DiskOf(w)
Collected == \A w \in Workers : CollectedOf(w)

\* What the files of a test may be.
Files ==
  \A c \in Checkouts : \A t \in TestsOf(c) :
    /\ result[c][t] \in {0, c}
    /\ HasCoverage(c, t) => coverage[c][t] = [kernel |-> c, ran |-> {t}] /\ HasResult(c, t)

\* The inductive invariant.
IInv ==
  /\ TypeOK /\ Position /\ Images /\ Machines /\ Disks /\ Collected /\ Files
  /\ \A w \in Workers : PassedOf(w)

-----------------------------------------------------------------------------
\* The steps of worker w by what they are about.
Prepare(w) ==
  \/ CheckImage(w) \/ MakeImage(w) \/ ImageMade(w)
  \/ CheckLtp(w) \/ CopyLtp(w) \/ MkdirLtp(w) \/ MakeLtp(w)
  \/ CheckSelftest(w) \/ MakeSelftest(w)
UseMachine(w) ==
  \/ KillPrevious(w) \/ Boot(w)
  \/ CopyEssentialFiles(w) \/ CopyLtpBin(w) \/ CopySelftestBin(w)
TestLoop(w) ==
  \/ SkipTest(w) \/ ResetCounters(w) \/ RunTest(w) \/ SaveResult(w)
  \/ CollectCoverage(w) \/ FetchCoverage(w)
Outside(w) == KillQemu(w) \/ Start(w) \/ Crash(w) \/ CloseVM(w)
Step(w) == Prepare(w) \/ UseMachine(w) \/ TestLoop(w) \/ Outside(w)

-----------------------------------------------------------------------------
\* The slices of the workers are disjoint parts of the list of checkouts.
LEMMA SlicesDisjoint ==
  /\ \A w \in Workers : Slice(w) \subseteq Checkouts
  /\ \A v, w \in Workers : v # w => Slice(v) \cap Slice(w) = {}
<1> DEFINE batch == NumCheckouts \div vmnum
<1>1. vmnum \in Nat \ {0} /\ NumCheckouts \in Nat
  BY ConstantsAssumption, Zenon
<1>2. batch \in Nat /\ vmnum * batch =< NumCheckouts
  BY <1>1
<1> HIDE DEF batch
<1>3. \A w \in Workers : Slice(w) = (w - 1) * batch + 1 .. w * batch
  BY Zenon DEF Slice, batch
<1>4. \A v, w \in Nat : v =< w => v * batch =< w * batch
  <2> SUFFICES ASSUME NEW v \in Nat, NEW w \in Nat, v =< w PROVE v * batch =< w * batch
    BY Zenon
  <2>1. (w - v) * batch >= 0
    BY <1>2
  <2>2. w * batch = v * batch + (w - v) * batch
    BY <1>2
  <2> QED
    BY <1>2, <2>1, <2>2
<1>5. \A w \in Workers : w \in Nat /\ w - 1 \in Nat /\ w =< vmnum
  BY <1>1 DEF Workers
<1>6. ASSUME NEW w \in Workers PROVE Slice(w) \subseteq Checkouts
  <2>1. w * batch =< NumCheckouts /\ (w - 1) * batch >= 0
    BY <1>1, <1>2, <1>4, <1>5
  <2>2. w * batch \in Nat /\ (w - 1) * batch \in Nat
    BY <1>2, <1>5
  <2> QED
    BY <1>1, <1>3, <2>1, <2>2 DEF Checkouts
<1>7. ASSUME NEW v \in Workers, NEW w \in Workers, v < w PROVE Slice(v) \cap Slice(w) = {}
  <2>1. v * batch =< (w - 1) * batch
    BY <1>4, <1>5, <1>7
  <2>2. v * batch \in Nat /\ (w - 1) * batch \in Nat /\ (v - 1) * batch \in Nat /\ w * batch \in Nat
    BY <1>2, <1>5
  <2> QED
    BY <1>3, <2>1, <2>2
<1> QED
  BY <1>5, <1>6, <1>7

\* The other workers and their machines are left alone by a step.
OthersStand(w) ==
  \A v \in Workers \ {w} :
    /\ pc'[v] = pc[v] /\ at'[v] = at[v] /\ failed'[v] = failed[v]
    /\ vm'[v] = vm[v] /\ pidfile'[v] = pidfile[v] /\ disk'[v] = disk[v]
    /\ counters'[v] = counters[v]

\* Zero is no checkout.
LEMMA CheckoutNumbers == \A c \in Checkouts : c \in Nat \ {0}
<1>1. NumCheckouts \in Nat
  BY ConstantsAssumption, Zenon
<1> QED
  BY <1>1 DEF Checkouts

\* Facts about the indices of the loops.
LEMMA Indices ==
  ASSUME NEW l \in Nat
  PROVE  /\ \A x \in 1 .. l : x \in Nat \ {0} /\ x =< l /\ x \in 1 .. l + 1
         /\ \A x \in 1 .. l : x \in 1 .. l - 1 \/ x = l
         /\ \A x \in 1 .. l + 1 : x =< l => x \in 1 .. l
         /\ \A x \in 1 .. l + 1 : \A i \in 1 .. x - 1 : i \in 1 .. l
         /\ l + 1 \in Nat /\ (l + 1) - 1 = l /\ 1 \in 1 .. l + 1
  OBVIOUS

\* The checkouts have builds and the builds have tests, in order.
LEMMA BuildLists ==
  ASSUME NEW c \in Checkouts
  PROVE  /\ Len(Builds[c]) \in Nat /\ 1 \in 1 .. Len(Builds[c])
         /\ \A b \in 1 .. Len(Builds[c]) :
              /\ Len(Builds[c][b]) \in Nat
              /\ \A k \in 1 .. Len(Builds[c][b]) : Builds[c][b][k] \in TestsOf(c)
<1>1. \A T : \A s \in Seq(T) : Len(s) \in Nat /\ \A i \in 1 .. Len(s) : s[i] \in T
  OBVIOUS
<1>2. Builds[c] \in Seq(Seq(TestsOf(c))) /\ Builds[c] # << >>
  BY ConstantsAssumption, Zenon
<1>3. Len(Builds[c]) \in Nat /\ \A b \in 1 .. Len(Builds[c]) : Builds[c][b] \in Seq(TestsOf(c))
  BY <1>1, <1>2, Zenon
<1>4. 1 \in 1 .. Len(Builds[c])
  BY <1>2
<1> QED
  BY <1>1, <1>3, <1>4, Zenon

\* A running worker is at a checkout of its slice.
LEMMA AtCheckout ==
  ASSUME TypeOK, Position, NEW w \in Workers, Running(w)
  PROVE  /\ at[w].c \in Checkouts /\ at[w].c \in Nat \ {0} /\ Tag(w) \in Tags
         /\ Len(Builds[at[w].c]) \in Nat /\ Len(Builds[at[w].c][at[w].b]) \in Nat
         /\ OnTest(w) => Test(w) \in TestsOf(at[w].c)
<1>1. at[w].c \in Checkouts /\ at[w].b \in 1 .. Len(Builds[at[w].c])
  BY SlicesDisjoint, Zenon DEF Position, PositionOf
<1>2. Len(Builds[at[w].c]) \in Nat /\ Len(Builds[at[w].c][at[w].b]) \in Nat
  BY <1>1, BuildLists, Zenon
<1>3. OnTest(w) => at[w].k \in 1 .. Len(Builds[at[w].c][at[w].b])
  BY <1>2 DEF Position, PositionOf
<1>4. OnTest(w) => Test(w) \in TestsOf(at[w].c)
  BY <1>1, <1>3, BuildLists, Zenon DEF Test
<1> QED
  BY <1>1, <1>2, <1>4, ConstantsAssumption DEF Checkouts, Tag, Tags

\* What Goto and run_command leave: types, and the other workers.
PcStep(w) == pc' \in [Workers -> Labels] /\ \A v \in Workers \ {w} : pc'[v] = pc[v]
CommandStep(w) ==
  /\ failed' \in [Workers -> BOOLEAN] /\ budget' \in [crashes : Nat, fails : Nat]
  /\ \A v \in Workers \ {w} : failed'[v] = failed[v]

\* Goto moves one worker.
LEMMA GotoStep ==
  ASSUME TypeOK, NEW w \in Workers, NEW label \in Labels, Goto(w, label)
  PROVE  PcStep(w) /\ pc'[w] = label
  BY Zenon DEF TypeOK, Goto, PcStep

\* Setting the flag of one worker.
LEMMA SetFailed ==
  ASSUME TypeOK, NEW w \in Workers, NEW value \in BOOLEAN, failed' = [failed EXCEPT ![w] = value]
  PROVE  /\ failed' \in [Workers -> BOOLEAN] /\ failed'[w] = value
         /\ \A v \in Workers \ {w} : failed'[v] = failed[v]
  BY Zenon DEF TypeOK

\* A command changes no more than the flag of its worker and the bound.
LEMMA CommandTypes ==
  ASSUME TypeOK, NEW w \in Workers, Succeeds \/ Fails(w) \/ MustFail(w)
  PROVE  CommandStep(w)
<1>1. CASE Succeeds
  BY <1>1, Zenon DEF Succeeds, TypeOK, CommandStep
<1>2. CASE Fails(w)
  <2>1. /\ budget \in [crashes : Nat, fails : Nat] /\ budget.fails > 0
        /\ budget' = [budget EXCEPT !.fails = @ - 1]
    BY <1>2, Zenon DEF Fails, TypeOK
  <2>2. budget' \in [crashes : Nat, fails : Nat]
    BY <2>1
  <2> QED
    BY <1>2, <2>2, SetFailed, Zenon DEF Fails, CommandStep
<1>3. CASE MustFail(w)
  BY <1>3, SetFailed, Zenon DEF MustFail, CommandStep, TypeOK
<1> QED
  BY <1>1, <1>2, <1>3, Zenon

\* A step that prepares the host keeps the types.
LEMMA PrepareTypes ==
  ASSUME TypeOK, Position, NEW w \in Workers,
         Prepare(w)
  PROVE  TypeOK' /\ OthersStand(w)
<1>1. PcStep(w)
  <2>1. \E label \in Labels : Goto(w, label)
    BY Zenon DEF Prepare, CheckImage, MakeImage, ImageMade, CheckLtp, CopyLtp, MkdirLtp,
           MakeLtp, CheckSelftest, MakeSelftest, Labels, Stopped
  <2> QED
    BY <2>1, GotoStep, Zenon
<1>2. CommandStep(w)
  <2>1. Succeeds \/ Fails(w) \/ MustFail(w)
    BY Zenon DEF Prepare, CheckImage, MakeImage, ImageMade, CheckLtp, CopyLtp, MkdirLtp,
           MakeLtp, CheckSelftest, MakeSelftest, Succeeds
  <2> QED
    BY <2>1, CommandTypes, Zenon
<1>3. UNCHANGED <<at, machine, files>>
  BY Zenon DEF Prepare, CheckImage, MakeImage, ImageMade, CheckLtp, CopyLtp, MkdirLtp,
           MakeLtp, CheckSelftest, MakeSelftest
<1>4. Running(w)
  BY Zenon DEF Prepare, CheckImage, MakeImage, ImageMade, CheckLtp, CopyLtp, MkdirLtp,
           MakeLtp, CheckSelftest, MakeSelftest, Running, Stopped
<1>5. at[w].c \in Checkouts /\ Tag(w) \in Tags /\ at[w].b \in Nat
  BY <1>4, AtCheckout, Zenon DEF TypeOK
<1>6. image' \in [Checkouts -> Nat]
  <2>1. image' = image \/ image' = [image EXCEPT ![at[w].c] = at[w].b]
    BY Zenon DEF Prepare, CheckImage, MakeImage, ImageMade, CheckLtp, CopyLtp, MkdirLtp,
           MakeLtp, CheckSelftest, MakeSelftest, host
  <2> QED
    BY <1>5, <2>1, Zenon DEF TypeOK
<1>7. ltp' \in [Tags -> {"absent", "partial", "whole"}]
  <2>1. ltp' = ltp \/ \E s \in {"absent", "partial", "whole"} : ltp' = [ltp EXCEPT ![Tag(w)] = s]
    BY <1>5, Zenon DEF Prepare, CheckImage, MakeImage, ImageMade, CheckLtp, CopyLtp, MkdirLtp,
           MakeLtp, CheckSelftest, MakeSelftest, host, TypeOK
  <2> QED
    BY <1>5, <2>1, Zenon DEF TypeOK
<1>8. selftest' \in [Checkouts -> {"absent", "partial", "whole"}]
  <2>1. \/ selftest' = selftest
        \/ \E s \in {"absent", "partial", "whole"} : selftest' = [selftest EXCEPT ![at[w].c] = s]
    BY Zenon DEF Prepare, CheckImage, MakeImage, ImageMade, CheckLtp, CopyLtp, MkdirLtp,
           MakeLtp, CheckSelftest, MakeSelftest, host
  <2> QED
    BY <1>5, <2>1, Zenon DEF TypeOK
<1> QED
  BY <1>1, <1>2, <1>3, <1>6, <1>7, <1>8, Zenon
     DEF TypeOK, OthersStand, PcStep, CommandStep, machine, files

\* What a disk image may hold.
DiskContent ==
  [tree : Tags \cup {None}, version : DiskVersions \cup {LtpVersion, None},
   selftest : Nat, script : Nat]

\* One disk image gets another LTP.
LEMMA LtpReplaced ==
  ASSUME disk \in [Workers -> DiskContent], NEW w \in Workers, NEW t \in Tags \cup {None},
         NEW g \in DiskVersions \cup {LtpVersion, None},
         disk' = [disk EXCEPT ![w] = [@ EXCEPT !.tree = t, !.version = g]]
  PROVE  /\ disk' = [disk EXCEPT ![w] = disk'[w]] /\ disk'[w] \in DiskContent
         /\ disk'[w].script = disk[w].script /\ disk'[w].selftest = disk[w].selftest
         /\ disk'[w].tree = t
<1> DEFINE old == disk[w]
           new == [old EXCEPT !.tree = t, !.version = g]
<1>1. old \in DiskContent
  BY Zenon
<1>2. disk' = [disk EXCEPT ![w] = new]
  BY Zenon
<1> HIDE DEF old
<1>3. /\ new \in DiskContent /\ new.script = old.script /\ new.selftest = old.selftest
      /\ new.tree = t
  BY <1>1, Zenon DEF DiskContent
<1> HIDE DEF new
<1>4. disk'[w] = new
  BY <1>2, Zenon
<1> QED
  BY <1>2, <1>3, <1>4, Zenon DEF old

\* What copy_ltp_bin_to_vm leaves on the disk: LTP from the tree of the tag or
\* with the tag as its version, or the build is marked as failed.
LEMMA LtpCopy ==
  ASSUME TypeOK, NEW w \in Workers, Tag(w) \in Tags, CopyLtpBin(w)
  PROVE  /\ disk' = [disk EXCEPT ![w] = disk'[w]] /\ disk'[w] \in DiskContent
         /\ disk'[w].script = disk[w].script /\ disk'[w].selftest = disk[w].selftest
         /\ \/ failed' = [failed EXCEPT ![w] = TRUE]
            \/ failed' = failed /\ (disk'[w].tree = Tag(w) \/ disk'[w].version = Tag(w))
<1>1. disk \in [Workers -> DiskContent]
  BY Zenon DEF TypeOK, DiskContent
<1>2. CASE disk' = disk /\ disk' \notin LtpCopied(w)
  <2>1. \/ failed' = [failed EXCEPT ![w] = TRUE]
        \/ failed' = failed /\ disk[w].version = Tag(w)
    BY <1>2, Zenon DEF CopyLtpBin, LtpFound, SshSucceeds, Succeeds, Fails, MustFail
  <2>2. disk' = [disk EXCEPT ![w] = disk'[w]] /\ disk'[w] \in DiskContent
    BY <1>1, <1>2
  <2> QED
    BY <1>2, <2>1, <2>2, Zenon
<1>3. CASE disk' \in LtpCopied(w)
  <2>0. ltp[Tag(w)] \in {"absent", "partial", "whole"}
    BY Zenon DEF TypeOK
  <2>1. PICK g \in {LtpVersion, None} :
          disk' = [disk EXCEPT ![w] = [@ EXCEPT !.tree = Tag(w), !.version = g]]
    BY <1>3, <2>0, Zenon DEF LtpCopied
  <2>2. failed' = failed \/ failed' = [failed EXCEPT ![w] = TRUE]
    BY Zenon DEF CopyLtpBin, SshSucceeds, Succeeds, Fails, MustFail
  <2>3. /\ disk' = [disk EXCEPT ![w] = disk'[w]] /\ disk'[w] \in DiskContent
        /\ disk'[w].script = disk[w].script /\ disk'[w].selftest = disk[w].selftest
        /\ disk'[w].tree = Tag(w)
    BY <1>1, <2>1, LtpReplaced, Zenon
  <2> QED
    BY <2>2, <2>3, Zenon
<1>4. CASE disk' = LtpRemoved(w) /\ failed' = [failed EXCEPT ![w] = TRUE]
  <2>1. /\ disk' = [disk EXCEPT ![w] = disk'[w]] /\ disk'[w] \in DiskContent
        /\ disk'[w].script = disk[w].script /\ disk'[w].selftest = disk[w].selftest
    BY <1>1, <1>4, LtpReplaced, Zenon DEF LtpRemoved
  <2> QED
    BY <1>4, <2>1, Zenon
<1> QED
  BY <1>2, <1>3, <1>4, Zenon DEF CopyLtpBin, Fails, MustFail

\* A step that starts the machine or copies to it keeps the types.
LEMMA MachineTypes ==
  ASSUME TypeOK, Position, NEW w \in Workers,
         UseMachine(w)
  PROVE  TypeOK' /\ OthersStand(w)
<1> USE DEF UseMachine, KillPrevious, Boot, CopyEssentialFiles, CopyLtpBin, CopySelftestBin
<1>1. PcStep(w)
  <2>1. \E label \in Labels : Goto(w, label)
    BY Zenon DEF Labels
  <2> QED
    BY <2>1, GotoStep, Zenon
<1>2. CommandStep(w)
  <2>1. Succeeds \/ Fails(w) \/ MustFail(w)
    BY Zenon DEF SshSucceeds, SshFails, Succeeds
  <2> QED
    BY <2>1, CommandTypes, Zenon
<1>3. UNCHANGED <<at, host, files>>
  BY Zenon
<1>4. Running(w)
  BY Zenon DEF Running, Stopped
<1>5. at[w].c \in Nat /\ Tag(w) \in Tags
  BY <1>4, AtCheckout, Zenon
<1>6. \E kernel \in Nat : vm' = [vm EXCEPT ![w] = kernel]
  BY <1>5 DEF TypeOK
<1>7. \E state \in {"none", "live", "stale"} : pidfile' = [pidfile EXCEPT ![w] = state]
  BY DEF TypeOK
<1>8. \E content \in DiskContent : disk' = [disk EXCEPT ![w] = content]
  <2>0. disk[w] \in DiskContent
    BY Zenon DEF TypeOK, DiskContent
  <2>1. CASE CopyLtpBin(w)
    BY <1>5, <2>1, LtpCopy, Zenon
  <2> HIDE DEF CopyLtpBin
  <2>2. CASE disk' = disk
    BY <2>2 DEF TypeOK, DiskContent
  <2>3. CASE CopyEssentialFiles(w) /\ disk' # disk
    <3>1. disk' = [disk EXCEPT ![w] = [disk[w] EXCEPT !.script = at[w].c]]
      BY <2>3, Zenon
    <3>2. [disk[w] EXCEPT !.script = at[w].c] \in DiskContent
      BY <1>5, <2>0, Zenon DEF DiskContent
    <3> QED
      BY <3>1, <3>2, Zenon
  <2>4. CASE CopySelftestBin(w) /\ disk' # disk
    <3>1. \E c \in {disk[w].selftest, 0, at[w].c} :
            disk' = [disk EXCEPT ![w] = [disk[w] EXCEPT !.selftest = c]]
      BY <2>4, Zenon
    <3>2. disk[w].selftest \in Nat /\ 0 \in Nat
      BY <2>0 DEF DiskContent
    <3>3. \A c \in Nat : [disk[w] EXCEPT !.selftest = c] \in DiskContent
      BY <2>0, Zenon DEF DiskContent
    <3> QED
      BY <1>5, <3>1, <3>2, <3>3, Zenon
  <2> QED
    BY <2>1, <2>2, <2>3, <2>4, Zenon
<1>9. counters' = counters \/ counters' = [counters EXCEPT ![w] = {}]
  BY Zenon
<1> HIDE DEF UseMachine, KillPrevious, Boot, CopyEssentialFiles, CopyLtpBin, CopySelftestBin
<1>10. /\ vm' \in [Workers -> Nat] /\ pidfile' \in [Workers -> {"none", "live", "stale"}]
       /\ \A v \in Workers \ {w} : vm'[v] = vm[v] /\ pidfile'[v] = pidfile[v]
  BY <1>6, <1>7 DEF TypeOK
<1>11. /\ disk' \in [Workers -> DiskContent]
       /\ DOMAIN counters' = Workers
       /\ \A v \in Workers \ {w} : disk'[v] = disk[v] /\ counters'[v] = counters[v]
  <2>1. disk \in [Workers -> DiskContent]
    BY Zenon DEF TypeOK, DiskContent
  <2> QED
    BY <1>8, <1>9, <2>1 DEF TypeOK
<1> QED
  BY <1>1, <1>2, <1>3, <1>10, <1>11, Zenon
     DEF TypeOK, DiskContent, OthersStand, PcStep, CommandStep, host, files

\* The next build: a place in the loops, or the end of the worker.
LEMMA EnterBuildStep ==
  ASSUME TypeOK, NEW w \in Workers, NEW c \in Nat, NEW b \in Nat, EnterBuild(w, c, b)
  PROVE  /\ PcStep(w) /\ failed' \in [Workers -> BOOLEAN]
         /\ at' \in [Workers -> [c : Nat, b : Nat, k : Nat]]
         /\ \A v \in Workers \ {w} : at'[v] = at[v] /\ failed'[v] = failed[v]
         /\ \/ /\ c \in Slice(w) /\ pc'[w] = "image" /\ failed'[w] = FALSE
               /\ at'[w].c = c /\ at'[w].b = b /\ at'[w].k = 1
            \/ pc'[w] = "finished"
<1>1. CASE c \in Slice(w)
  <2>1. /\ at' = [at EXCEPT ![w] = [c |-> c, b |-> b, k |-> 1]] /\ Goto(w, "image")
        /\ failed' = [failed EXCEPT ![w] = FALSE]
    BY <1>1, Zenon DEF EnterBuild
  <2>2. PcStep(w) /\ pc'[w] = "image"
    BY <2>1, GotoStep, Zenon DEF Labels
  <2>3. /\ at' \in [Workers -> [c : Nat, b : Nat, k : Nat]]
        /\ at'[w].c = c /\ at'[w].b = b /\ at'[w].k = 1
        /\ \A v \in Workers \ {w} : at'[v] = at[v]
    BY <2>1, Zenon DEF TypeOK
  <2>4. /\ failed' \in [Workers -> BOOLEAN] /\ failed'[w] = FALSE
        /\ \A v \in Workers \ {w} : failed'[v] = failed[v]
    BY <2>1, SetFailed, Zenon
  <2> QED
    BY <1>1, <2>2, <2>3, <2>4, Zenon
<1>2. CASE c \notin Slice(w)
  <2>1. Goto(w, "finished") /\ at' = at /\ failed' = failed
    BY <1>2, Zenon DEF EnterBuild
  <2>2. PcStep(w) /\ pc'[w] = "finished"
    BY <2>1, GotoStep, Zenon DEF Labels, Stopped
  <2> QED
    BY <2>1, <2>2, Zenon DEF TypeOK
<1> QED
  BY <1>1, <1>2, Zenon

\* The next test: the same build, one test further.
LEMMA NextTestStep ==
  ASSUME TypeOK, NEW w \in Workers, NextTest(w)
  PROVE  /\ PcStep(w) /\ pc'[w] = "tests"
         /\ at' \in [Workers -> [c : Nat, b : Nat, k : Nat]]
         /\ at'[w].c = at[w].c /\ at'[w].b = at[w].b /\ at'[w].k = at[w].k + 1
         /\ \A v \in Workers \ {w} : at'[v] = at[v]
<1>1. PcStep(w) /\ pc'[w] = "tests"
  BY GotoStep, Zenon DEF NextTest, Labels
<1>2. /\ at \in [Workers -> [c : Nat, b : Nat, k : Nat]]
      /\ at' = [at EXCEPT ![w].k = @ + 1]
  BY Zenon DEF NextTest, TypeOK
<1> QED
  BY <1>1, <1>2

\* The actions of the loop over the tests leave the host and the pid file
\* alone, and go on with the same test or the next one.
LEMMA LoopStep ==
  ASSUME TypeOK, Position, NEW w \in Workers,
         TestLoop(w)
  PROVE  /\ PcStep(w) /\ CommandStep(w) /\ UNCHANGED <<host, vm, pidfile, disk>>
         /\ at' \in [Workers -> [c : Nat, b : Nat, k : Nat]]
         /\ \A v \in Workers \ {w} : at'[v] = at[v]
         /\ InTests(w) /\ Running(w) /\ at'[w].c = at[w].c /\ at'[w].b = at[w].b
         /\ pc'[w] \in {"tests", "run", "save", "collect", "fetch"}
         /\ \/ NextTest(w) /\ pc'[w] = "tests" /\ at'[w].k = at[w].k + 1
            \/ at' = at /\ pc'[w] \in {"run", "save", "collect", "fetch"}
<1>1. CommandStep(w)
  <2>1. Succeeds \/ Fails(w) \/ MustFail(w)
    BY Zenon DEF SshSucceeds, SshFails, Succeeds, TestLoop, SkipTest, ResetCounters, RunTest, SaveResult, CollectCoverage, FetchCoverage
  <2> QED
    BY <2>1, CommandTypes, Zenon
<1>2. UNCHANGED <<host, vm, pidfile, disk>>
  BY Zenon DEF machine, TestLoop, SkipTest, ResetCounters, RunTest, SaveResult, CollectCoverage, FetchCoverage
<1>3. InTests(w) /\ Running(w)
  BY Zenon DEF InTests, Running, Stopped, TestLoop, SkipTest, ResetCounters, RunTest, SaveResult, CollectCoverage, FetchCoverage
<1>4. NextTest(w) \/ (at' = at /\ \E label \in {"run", "save", "collect", "fetch"} : Goto(w, label))
  BY Zenon DEF TestLoop, SkipTest, ResetCounters, RunTest, SaveResult, CollectCoverage, FetchCoverage
<1>5. CASE NextTest(w)
  BY <1>1, <1>2, <1>3, <1>5, NextTestStep, Zenon
<1>6. CASE at' = at /\ \E label \in {"run", "save", "collect", "fetch"} : Goto(w, label)
  <2>1. PICK label \in {"run", "save", "collect", "fetch"} : Goto(w, label)
    BY <1>6, Zenon
  <2>2. PcStep(w) /\ pc'[w] = label
    BY <2>1, GotoStep, Zenon DEF Labels
  <2>3. at' \in [Workers -> [c : Nat, b : Nat, k : Nat]]
    BY <1>6, Zenon DEF TypeOK
  <2> QED
    BY <1>1, <1>2, <1>3, <1>6, <2>2, <2>3, Zenon
<1> QED
  BY <1>4, <1>5, <1>6, Zenon

\* A step of the loop over the tests keeps the types.
LEMMA LoopTypes ==
  ASSUME TypeOK, Position, NEW w \in Workers,
         TestLoop(w)
  PROVE  TypeOK' /\ OthersStand(w)
<1>1. DOMAIN counters' = Workers /\ \A v \in Workers \ {w} : counters'[v] = counters[v]
  BY Zenon DEF TypeOK, TestLoop, SkipTest, ResetCounters, RunTest, SaveResult, CollectCoverage, FetchCoverage,
         machine
<1>2. DOMAIN result' = Checkouts /\ \A c \in Checkouts : DOMAIN result'[c] = TestsOf(c)
  BY ZenonT(60)
     DEF TypeOK, TestLoop, SkipTest, ResetCounters, RunTest, SaveResult, CollectCoverage, FetchCoverage,
         files
<1>3. DOMAIN coverage' = Checkouts /\ \A c \in Checkouts : DOMAIN coverage'[c] = TestsOf(c)
  BY ZenonT(60)
     DEF TypeOK, TestLoop, SkipTest, ResetCounters, RunTest, SaveResult, CollectCoverage, FetchCoverage,
         files
<1>4. /\ PcStep(w) /\ CommandStep(w) /\ UNCHANGED <<host, vm, pidfile, disk>>
      /\ at' \in [Workers -> [c : Nat, b : Nat, k : Nat]]
      /\ \A v \in Workers \ {w} : at'[v] = at[v]
  BY LoopStep, Zenon
<1> QED
  BY <1>1, <1>2, <1>3, <1>4, Zenon DEF TypeOK, OthersStand, PcStep, CommandStep, host

\* The end of a build, a start, a crash and a machine closed from outside
\* keep the types.
LEMMA OutsideTypes ==
  ASSUME TypeOK, Position, NEW w \in Workers,
         Outside(w)
  PROVE  TypeOK' /\ OthersStand(w)
<1>1. CASE KillQemu(w)
  <2>1. \E c, b \in Nat : EnterBuild(w, c, b)
    <3>1. at[w].c \in Nat /\ at[w].b \in Nat
      BY Zenon DEF TypeOK
    <3>2. at[w].c + 1 \in Nat /\ at[w].b + 1 \in Nat /\ 1 \in Nat
      BY <3>1
    <3>3. EnterBuild(w, at[w].c, at[w].b + 1) \/ EnterBuild(w, at[w].c + 1, 1)
      BY <1>1, Zenon DEF KillQemu
    <3> QED
      BY <3>1, <3>2, <3>3, Zenon
  <2> QED
    BY <1>1, <2>1, EnterBuildStep, ZenonT(60)
       DEF KillQemu, TypeOK, OthersStand, PcStep, host, files
<1>2. CASE Start(w)
  <2>1. \E c \in Nat : EnterBuild(w, c, 1)
    <3>1. (w - 1) * (NumCheckouts \div vmnum) + 1 \in Nat
      <4>1. w - 1 \in Nat /\ NumCheckouts \div vmnum \in Nat
        BY ConstantsAssumption DEF Workers
      <4> QED
        BY <4>1
    <3> QED
      BY <1>2, <3>1, Zenon DEF Start
  <2>2. /\ PcStep(w) /\ failed' \in [Workers -> BOOLEAN]
        /\ at' \in [Workers -> [c : Nat, b : Nat, k : Nat]]
        /\ \A v \in Workers \ {w} : at'[v] = at[v] /\ failed'[v] = failed[v]
    BY <2>1, EnterBuildStep, ZenonT(60)
  <2>3. UNCHANGED <<host, machine, files, budget>>
    BY <1>2, Zenon DEF Start
  <2> QED
    BY <2>2, <2>3, Zenon DEF TypeOK, OthersStand, PcStep, host, machine, files
<1>3. CASE Crash(w)
  <2>1. PcStep(w)
    BY <1>3, GotoStep, Zenon DEF Crash, Labels, Stopped
  <2>2. budget' \in [crashes : Nat, fails : Nat]
    <3>1. /\ budget \in [crashes : Nat, fails : Nat] /\ budget.crashes > 0
          /\ budget' = [budget EXCEPT !.crashes = @ - 1]
      BY <1>3, Zenon DEF Crash, TypeOK
    <3> QED
      BY <3>1
  <2>3. UNCHANGED <<at, failed, host, machine, files>>
    BY <1>3, Zenon DEF Crash
  <2> QED
    BY <2>1, <2>2, <2>3, Zenon DEF TypeOK, OthersStand, PcStep, host, machine, files
<1>4. CASE CloseVM(w)
  BY <1>4, Zenon DEF CloseVM, TypeOK, OthersStand, host, files
<1> QED
  BY <1>1, <1>2, <1>3, <1>4, Zenon DEF Outside

\* Types are kept, and a step concerns one worker.
LEMMA StepTypes ==
  ASSUME TypeOK, Position, NEW w \in Workers, Step(w)
  PROVE  TypeOK' /\ OthersStand(w)
  BY PrepareTypes, MachineTypes, LoopTypes, OutsideTypes, Zenon DEF Step

\* Where the preparation leads.
LEMMA PrepareStep ==
  ASSUME TypeOK, NEW w \in Workers, Prepare(w)
  PROVE  /\ UNCHANGED <<at, machine, files>> /\ Running(w) /\ ~ InTests(w) /\ ~ Booted(w)
         /\ pc'[w] \in {"exited", "make", "made", "ltp", "ltp_copy", "ltp_mkdir", "ltp_make",
                        "selftest", "selftest_make", "start"}
  BY DEF Prepare, CheckImage, MakeImage, ImageMade, CheckLtp, CopyLtp, MkdirLtp, MakeLtp,
         CheckSelftest, MakeSelftest, Running, InTests, Booted, Stopped, Goto, TypeOK

\* Where the start of the machine and the copies lead.
LEMMA MachineStep ==
  ASSUME TypeOK, NEW w \in Workers, UseMachine(w)
  PROVE  /\ UNCHANGED <<at, host, files>> /\ Running(w) /\ ~ InTests(w)
         /\ pc'[w] \in {"boot", "copy_files", "copy_ltp", "copy_selftest", "tests"}
         /\ pc[w] \notin {"image", "make"}
  BY Zenon DEF UseMachine, KillPrevious, Boot, CopyEssentialFiles, CopyLtpBin, CopySelftestBin,
         Running, InTests, Stopped, Goto, TypeOK

\* Where the end of a build leads: to the next build, to the next checkout of
\* the slice, or to the end.
LEMMA KillQemuStep ==
  ASSUME TypeOK, Position, NEW w \in Workers, KillQemu(w)
  PROVE  /\ UNCHANGED <<host, files>> /\ pc[w] = "tests"
         /\ \/ pc'[w] = "finished"
            \/ /\ pc'[w] = "image" /\ at'[w].c \in Slice(w) /\ at'[w].k = 1 /\ failed'[w] = FALSE
               /\ at'[w].b \in 1 .. Len(Builds[at'[w].c])
               /\ at'[w].b > 1 => at'[w].c = at[w].c
<1>1. UNCHANGED <<host, files>> /\ pc[w] = "tests" /\ Running(w)
  BY Zenon DEF KillQemu, Running, Stopped
<1>2. /\ at[w].c \in Nat /\ at[w].b \in Nat /\ at[w].b >= 1
      /\ Len(Builds[at[w].c]) \in Nat
  <2>1. at[w].c \in Nat /\ at[w].b \in Nat
    BY Zenon DEF TypeOK
  <2>2. at[w].b \in 1 .. Len(Builds[at[w].c])
    BY <1>1, Zenon DEF Position, PositionOf
  <2>3. Len(Builds[at[w].c]) \in Nat
    BY <1>1, AtCheckout, Zenon
  <2> QED
    BY <2>1, <2>2, <2>3
<1>3. CASE at[w].b < Len(Builds[at[w].c])
  <2>1. EnterBuild(w, at[w].c, at[w].b + 1)
    BY <1>3, Zenon DEF KillQemu
  <2>2. at[w].b + 1 \in 1 .. Len(Builds[at[w].c]) /\ at[w].b + 1 \in Nat
    BY <1>2, <1>3
  <2>3. \/ /\ at[w].c \in Slice(w) /\ pc'[w] = "image" /\ failed'[w] = FALSE
           /\ at'[w].c = at[w].c /\ at'[w].b = at[w].b + 1 /\ at'[w].k = 1
        \/ pc'[w] = "finished"
    BY <1>2, <2>1, <2>2, EnterBuildStep, Zenon
  <2> QED
    BY <1>1, <2>2, <2>3, Zenon
<1>4. CASE ~ (at[w].b < Len(Builds[at[w].c]))
  <2>1. EnterBuild(w, at[w].c + 1, 1)
    BY <1>4, Zenon DEF KillQemu
  <2>2. at[w].c + 1 \in Slice(w) => 1 \in 1 .. Len(Builds[at[w].c + 1])
    BY SlicesDisjoint, BuildLists, Zenon
  <2>3. at[w].c + 1 \in Nat
    BY <1>2
  <2>4. \/ /\ at[w].c + 1 \in Slice(w) /\ pc'[w] = "image" /\ failed'[w] = FALSE
           /\ at'[w].c = at[w].c + 1 /\ at'[w].b = 1 /\ at'[w].k = 1
        \/ pc'[w] = "finished"
    BY <2>1, <2>3, EnterBuildStep, Zenon
  <2>5. ~ (1 > 1)
    OBVIOUS
  <2> QED
    BY <1>1, <2>2, <2>4, <2>5, ZenonT(60)
<1> QED
  BY <1>3, <1>4, Zenon

\* Where a start leads: to the first checkout of the slice, or to the end.
LEMMA StartStep ==
  ASSUME TypeOK, NEW w \in Workers, Start(w)
  PROVE  /\ UNCHANGED <<host, machine, files>>
         /\ \/ pc'[w] = "finished"
            \/ /\ pc'[w] = "image" /\ at'[w].c \in Slice(w) /\ at'[w].k = 1 /\ at'[w].b = 1
               /\ failed'[w] = FALSE /\ 1 \in 1 .. Len(Builds[at'[w].c])
<1> DEFINE first == (w - 1) * (NumCheckouts \div vmnum) + 1
<1>1. EnterBuild(w, first, 1) /\ UNCHANGED <<host, machine, files>>
  BY Zenon DEF Start
<1>2. first \in Nat
  <2>1. w - 1 \in Nat /\ NumCheckouts \div vmnum \in Nat
    BY ConstantsAssumption DEF Workers
  <2> QED
    BY <2>1
<1> HIDE DEF first
<1>3. first \in Slice(w) => 1 \in 1 .. Len(Builds[first])
  BY SlicesDisjoint, BuildLists, Zenon
<1>4. \/ /\ first \in Slice(w) /\ pc'[w] = "image" /\ failed'[w] = FALSE
         /\ at'[w].c = first /\ at'[w].b = 1 /\ at'[w].k = 1
      \/ pc'[w] = "finished"
  BY <1>1, <1>2, EnterBuildStep, Zenon
<1> QED
  BY <1>1, <1>3, <1>4, Zenon

\* A worker that ends a build, starts or is killed is at no machine.
LEMMA OutsideStep ==
  ASSUME TypeOK, Position, NEW w \in Workers, Outside(w)
  PROVE  pc'[w] \in Stopped \cup {"image"}
<1>1. CASE KillQemu(w)
  BY <1>1, KillQemuStep, Zenon DEF Stopped
<1>2. CASE Start(w)
  BY <1>2, StartStep, ZenonT(60) DEF Stopped
<1>3. CASE Crash(w)
  BY <1>3, Zenon DEF Crash, Goto, TypeOK, Stopped
<1>4. CASE CloseVM(w)
  BY <1>4, Zenon DEF CloseVM
<1> QED
  BY <1>1, <1>2, <1>3, <1>4, Zenon DEF Outside

\* The test at hand is one of the build while the loop handles it.
LEMMA InsideBuild ==
  ASSUME TypeOK, Position, NEW w \in Workers, TestLoop(w)
  PROVE  at[w].k \in 1 .. Len(Builds[at[w].c][at[w].b]) /\ Test(w) \in TestsOf(at[w].c)
<1>1. /\ Running(w) /\ (pc[w] = "tests" \/ OnTest(w))
      /\ pc[w] = "tests" => at[w].k =< Len(Builds[at[w].c][at[w].b])
  BY Zenon DEF TestLoop, SkipTest, ResetCounters, RunTest, SaveResult, CollectCoverage, FetchCoverage,
         Running, Stopped, OnTest
<1>2. at[w].k \in 1 .. Len(Builds[at[w].c][at[w].b]) + 1
  BY <1>1, Zenon DEF Position, PositionOf
<1>3. /\ at[w].c \in Checkouts /\ at[w].b \in 1 .. Len(Builds[at[w].c])
      /\ Len(Builds[at[w].c][at[w].b]) \in Nat
  BY <1>1, AtCheckout, Zenon DEF Position, PositionOf
<1>4. at[w].k \in 1 .. Len(Builds[at[w].c][at[w].b])
  <2>1. at[w].k =< Len(Builds[at[w].c][at[w].b])
    BY <1>1, Zenon DEF Position, PositionOf
  <2> QED
    BY <1>2, <1>3, <2>1, Indices, Zenon
<1> QED
  BY <1>3, <1>4, BuildLists, ZenonT(60) DEF Test

\* The loops stay inside their bounds.
LEMMA StepPosition ==
  ASSUME TypeOK, Position, NEW w \in Workers, Step(w)
  PROVE  Position'
<1> DEFINE Fits(l) == 1 \in 1 .. l + 1 /\ \A x \in 1 .. l : x \in 1 .. l + 1
<1>a. \A l \in Nat : Fits(l)
  OBVIOUS
<1>0. TypeOK' /\ OthersStand(w)
  BY StepTypes, Zenon
<1>1. ASSUME NEW v \in Workers \ {w} PROVE PositionOf(v)'
  BY <1>0, <1>1, ZenonT(60) DEF OthersStand, Position, PositionOf, Running, InTests, OnTest
<1>2. PositionOf(w)'
  <2> USE DEF PositionOf, Running, InTests, OnTest, Stopped
  <2>1. CASE Prepare(w)
    BY <2>1, PrepareStep, Zenon DEF Position
  <2>2. CASE UseMachine(w)
    BY <2>2, MachineStep, Zenon DEF Position
  <2>3. CASE TestLoop(w)
    <3>1. at[w].k \in 1 .. Len(Builds[at[w].c][at[w].b])
      BY <2>3, InsideBuild, Zenon
    <3>2. Running(w) /\ at[w].c \in Slice(w) /\ at[w].b \in 1 .. Len(Builds[at[w].c])
      BY <2>3, LoopStep, Zenon DEF Position
    <3>3. Len(Builds[at[w].c][at[w].b]) \in Nat
      BY <3>2, AtCheckout, Zenon
    <3>4. CASE at' = at /\ pc'[w] \in {"run", "save", "collect", "fetch"}
      <4>1. /\ at[w].k \in 1 .. Len(Builds[at[w].c][at[w].b]) + 1
            /\ at[w].k =< Len(Builds[at[w].c][at[w].b])
        BY <3>1, <3>3, Indices, Zenon
      <4> QED
        BY <3>2, <3>4, <4>1, ZenonT(60)
    <3>5. CASE pc'[w] = "tests" /\ at'[w].k = at[w].k + 1
      <4>1. at[w].k + 1 \in 1 .. Len(Builds[at[w].c][at[w].b]) + 1
        BY <3>1, <3>3
      <4>2. at'[w].c = at[w].c /\ at'[w].b = at[w].b
        BY <2>3, LoopStep, Zenon
      <4> QED
        BY <3>2, <3>5, <4>1, <4>2, Zenon
    <3> QED
      BY <2>3, <3>4, <3>5, LoopStep, Zenon
  <2>4. CASE KillQemu(w) \/ Start(w)
    <3>1. \/ pc'[w] = "finished"
          \/ /\ pc'[w] = "image" /\ at'[w].c \in Slice(w) /\ at'[w].k = 1
             /\ at'[w].b \in 1 .. Len(Builds[at'[w].c])
      BY <2>4, KillQemuStep, StartStep, Zenon
    <3>2. CASE pc'[w] = "finished"
      BY <3>2, Zenon
    <3>3. CASE /\ pc'[w] = "image" /\ at'[w].c \in Slice(w) /\ at'[w].k = 1
               /\ at'[w].b \in 1 .. Len(Builds[at'[w].c])
      <4>1. Len(Builds[at'[w].c][at'[w].b]) \in Nat
        BY <3>3, SlicesDisjoint, BuildLists, Zenon
      <4>2. 1 \in 1 .. Len(Builds[at'[w].c][at'[w].b]) + 1
        BY <4>1, Indices, Zenon
      <4> QED
        BY <3>3, <4>2, Zenon
    <3> QED
      BY <3>1, <3>2, <3>3, Zenon
  <2>5. CASE Crash(w)
    BY <2>5, Zenon DEF Crash, Goto, TypeOK
  <2>6. CASE CloseVM(w)
    BY <2>6, Zenon DEF CloseVM, Position
  <2> QED
    BY <2>1, <2>2, <2>3, <2>4, <2>5, <2>6, Zenon DEF Step, Outside
<1> QED
  BY <1>1, <1>2, Zenon DEF Position

-----------------------------------------------------------------------------
\* No two workers are at the same checkout.
LEMMA PositionOwns == ASSUME TypeOK, Position PROVE OwnCheckout
  BY SlicesDisjoint, Zenon DEF Position, PositionOf, OwnCheckout

\* An image is made once, for the first build.
LEMMA ImageKept ==
  ASSUME TypeOK, Position, Images, NEW w \in Workers, Step(w)
  PROVE  \A c \in Checkouts : image'[c] \in {0, 1} /\ (image[c] # 0 => image'[c] # 0)
<1>1. CASE MakeImage(w)
  <2>1. at[w].b = 1 /\ Running(w)
    BY <1>1, Zenon DEF MakeImage, Images, ImageOf, Running, Stopped
  <2>2. image' = image \/ image' = [image EXCEPT ![at[w].c] = 1]
    BY <1>1, <2>1, Zenon DEF MakeImage
  <2> QED
    BY <2>2, Zenon DEF Images, TypeOK
<1>2. CASE ~ MakeImage(w)
  <2>1. image' = image
    BY <1>2, LoopStep, MachineStep, Zenon
       DEF Step, Prepare, CheckImage, ImageMade, CheckLtp, CopyLtp, MkdirLtp, MakeLtp,
           CheckSelftest, MakeSelftest, Outside, KillQemu, Start, Crash, CloseVM, host
  <2> QED
    BY <2>1, Zenon DEF Images
<1> QED
  BY <1>1, <1>2, Zenon

\* Images is kept.
LEMMA StepImages ==
  ASSUME TypeOK, Position, Images, NEW w \in Workers, Step(w)
  PROVE  Images'
<1>0. /\ TypeOK' /\ OthersStand(w)
      /\ \A c \in Checkouts : image'[c] \in {0, 1} /\ (image[c] # 0 => image'[c] # 0)
  BY StepTypes, ImageKept, Zenon
<1>1. ASSUME NEW v \in Workers \ {w} PROVE ImageOf(v)'
  <2>1. Running(v) => at[v].c \in Checkouts
    BY AtCheckout, Zenon
  <2>2. pc'[v] = pc[v] /\ at'[v] = at[v]
    BY <1>0, Zenon DEF OthersStand
  <2>3. ImageOf(v)
    BY Zenon DEF Images
  <2> QED
    BY <1>0, <2>1, <2>2, <2>3, ZenonT(60) DEF ImageOf, Running
<1>2. ImageOf(w)'
  <2>0. Running(w) => at[w].c \in Checkouts /\ at[w].b \in Nat \ {0}
    <3>1. Running(w) => at[w].b \in 1 .. Len(Builds[at[w].c]) /\ Len(Builds[at[w].c]) \in Nat
      BY AtCheckout, Zenon DEF Position, PositionOf
    <3> QED
      BY <3>1, AtCheckout, Indices, Zenon
  <2> USE DEF ImageOf, Running, Stopped
  <2>1. CASE CheckImage(w)
    <3>1. /\ at' = at /\ image' = image /\ pc[w] = "image"
          /\ pc'[w] = IF image[at[w].c] # 0 THEN "ltp" ELSE "make"
      BY <2>1, Zenon DEF CheckImage, Goto, TypeOK, host
    <3>2. at[w].b \in Nat \ {0} /\ (at[w].b > 1 => image[at[w].c] # 0)
      BY <2>0, <3>1, Zenon DEF Images
    <3>3. ~ (1 > 1) /\ \A x \in Nat \ {0} : x > 1 \/ x = 1
      OBVIOUS
    <3>4. CASE image[at[w].c] # 0
      BY <3>1, <3>4, Zenon
    <3>5. CASE image[at[w].c] = 0
      <4>1. at[w].b = 1 /\ pc'[w] = "make"
        BY <3>1, <3>2, <3>3, <3>5, Zenon
      <4> QED
        BY <3>1, <3>3, <4>1, ZenonT(60)
    <3> QED
      BY <3>4, <3>5, Zenon
  <2>2. CASE MakeImage(w)
    <3>1. /\ at' = at /\ pc[w] = "make" /\ at[w].b = 1
          /\ \/ pc'[w] = "exited"
             \/ pc'[w] = "made" /\ image' = [image EXCEPT ![at[w].c] = at[w].b]
      BY <2>2, Zenon DEF MakeImage, Goto, TypeOK, Images
    <3> QED
      BY <2>0, <3>1, Zenon DEF TypeOK
  <2>3. CASE Prepare(w) /\ ~ CheckImage(w) /\ ~ MakeImage(w)
    <3>1. /\ at' = at /\ pc[w] \notin {"image", "make"} /\ pc'[w] \notin {"image", "make"}
          /\ Running(w)
      BY <2>3, PrepareStep, ZenonT(60)
         DEF Prepare, ImageMade, CheckLtp, CopyLtp, MkdirLtp, MakeLtp,
             CheckSelftest, MakeSelftest, Goto, TypeOK
    <3> QED
      BY <1>0, <2>0, <3>1, Zenon DEF Images
  <2>4. CASE UseMachine(w)
    BY <1>0, <2>0, <2>4, MachineStep, Zenon DEF Images
  <2>5. CASE TestLoop(w)
    <3>1. /\ at'[w].c = at[w].c /\ at'[w].b = at[w].b
          /\ Running(w) /\ pc[w] \notin {"image", "make"}
          /\ pc'[w] \notin {"image", "make"}
      BY <2>5, LoopStep, Zenon DEF InTests
    <3> QED
      BY <1>0, <2>0, <3>1, Zenon DEF Images
  <2>6. CASE KillQemu(w)
    <3>1. image[at[w].c] # 0
      BY <2>6, KillQemuStep, Zenon DEF Images
    <3>2. at[w].c \in Checkouts
      BY <2>0, <2>6, KillQemuStep, Zenon
    <3> QED
      BY <1>0, <2>6, <3>1, <3>2, KillQemuStep, Zenon
  <2>7. CASE Start(w)
    <3>1. pc'[w] = "finished" \/ (pc'[w] = "image" /\ at'[w].b = 1)
      BY <2>7, StartStep, Zenon
    <3> QED
      BY <3>1
  <2>8. CASE Crash(w)
    BY <2>8, Zenon DEF Crash, Goto, TypeOK
  <2>9. CASE CloseVM(w)
    BY <2>9, Zenon DEF CloseVM, Images, host
  <2> QED
    BY <2>1, <2>2, <2>3, <2>4, <2>5, <2>6, <2>7, <2>8, <2>9, Zenon DEF Step, Outside
<1> QED
  BY <1>0, <1>1, <1>2, Zenon DEF Images

\* Machines is kept.
LEMMA StepMachines ==
  ASSUME TypeOK, Position, Machines, NEW w \in Workers, Step(w)
  PROVE  Machines'
<1>0. TypeOK' /\ OthersStand(w)
  BY StepTypes, Zenon
<1>1. ASSUME NEW v \in Workers \ {w} PROVE MachineOf(v)'
  BY <1>0, Zenon DEF OthersStand, Machines, MachineOf, Booted, OnTest, InTests
<1>2. MachineOf(w)'
  <2> USE DEF MachineOf, Booted, OnTest, InTests
  <2>0. Running(w) => at[w].c \in Nat \ {0}
    BY AtCheckout, Zenon
  <2>1. CASE Prepare(w)
    <3>1. vm' = vm /\ pidfile' = pidfile
      BY <2>1, PrepareStep, Zenon DEF machine
    <3> QED
      BY <2>1, <3>1, PrepareStep, Zenon DEF Machines
  <2>2. CASE KillPrevious(w)
    BY <2>2, Zenon DEF KillPrevious, Goto, TypeOK, Machines
  <2>3. CASE Boot(w)
    <3>1. /\ vm[w] = 0 /\ pc'[w] = "copy_files" /\ at' = at /\ at[w].c # 0
      BY <2>0, <2>3, Zenon DEF Boot, Goto, TypeOK, Machines, Running, Stopped
    <3>2. vm \in [Workers -> Nat] /\ pidfile \in [Workers -> {"none", "live", "stale"}]
      BY Zenon DEF TypeOK
    <3>3. \/ vm' = [vm EXCEPT ![w] = at[w].c] /\ pidfile' = [pidfile EXCEPT ![w] = "live"]
          \/ vm' = vm /\ pidfile' = [pidfile EXCEPT ![w] = "none"]
      BY <2>3, Zenon DEF Boot
    <3>4. \/ vm'[w] = at[w].c /\ pidfile'[w] = "live"
          \/ vm'[w] = 0 /\ pidfile'[w] = "none"
      BY <3>1, <3>2, <3>3, Zenon
    <3> QED
      BY <3>1, <3>4, Zenon
  <2>4. CASE CopyEssentialFiles(w) \/ CopyLtpBin(w) \/ CopySelftestBin(w)
    <3>1. /\ vm' = vm /\ pidfile' = pidfile /\ at' = at
          /\ pc[w] \in {"copy_files", "copy_ltp", "copy_selftest"}
          /\ pc'[w] \in {"copy_ltp", "copy_selftest", "tests"}
      BY <2>4, Zenon DEF CopyEssentialFiles, CopyLtpBin, CopySelftestBin, Goto, TypeOK
    <3> QED
      BY <3>1, Zenon DEF Machines
  <2>5. CASE TestLoop(w)
    <3>1. /\ vm' = vm /\ pidfile' = pidfile /\ at'[w].c = at[w].c /\ InTests(w)
          /\ pc'[w] \in {"tests", "run", "save", "collect", "fetch"}
      BY <2>5, LoopStep, Zenon
    <3>2. pc'[w] # "tests" => vm[w] # 0
      <4>1. CASE OnTest(w)
        BY <4>1, Zenon DEF Machines
      <4>2. CASE SkipTest(w)
        BY <4>2, NextTestStep, Zenon DEF SkipTest
      <4>3. CASE ResetCounters(w)
        <5>1. vm[w] # 0 \/ NextTest(w)
          BY <4>3, Zenon DEF ResetCounters, SshSucceeds
        <5> QED
          BY <5>1, NextTestStep, Zenon
      <4> QED
        BY <2>5, <4>1, <4>2, <4>3, Zenon
           DEF TestLoop, RunTest, SaveResult, CollectCoverage, FetchCoverage
    <3> QED
      BY <3>1, <3>2, Zenon DEF Machines
  <2>6. CASE KillQemu(w)
    <3>1. /\ vm' = [vm EXCEPT ![w] = IF pidfile[w] = "live" THEN 0 ELSE @]
          /\ pidfile' = [pidfile EXCEPT ![w] = "none"] /\ pc'[w] \in {"finished", "image"}
      BY <2>6, KillQemuStep, ZenonT(60) DEF KillQemu
    <3> QED
      BY <3>1, Zenon DEF Machines, TypeOK
  <2>7. CASE Start(w)
    <3>1. vm' = vm /\ pidfile' = pidfile /\ pc'[w] \in {"finished", "image"}
      BY <2>7, StartStep, ZenonT(60) DEF machine
    <3> QED
      BY <3>1, Zenon DEF Machines
  <2>8. CASE Crash(w)
    BY <2>8, Zenon DEF Crash, Goto, TypeOK, machine, Machines
  <2>9. CASE CloseVM(w)
    <3>1. /\ vm' = [vm EXCEPT ![w] = 0] /\ pidfile' = [pidfile EXCEPT ![w] = "stale"]
          /\ pc' = pc /\ pc[w] \in Stopped
      BY <2>9, Zenon DEF CloseVM
    <3> QED
      BY <3>1, Zenon DEF TypeOK, Stopped
  <2> QED
    BY <2>1, <2>2, <2>3, <2>4, <2>5, <2>6, <2>7, <2>8, <2>9, Zenon DEF Step, UseMachine, Outside
<1> QED
  BY <1>1, <1>2, Zenon DEF Machines

\* Disks is kept: every copy succeeds, or marks the build as failed.
LEMMA StepDisks ==
  ASSUME TypeOK, Position, Disks, NEW w \in Workers, Step(w)
  PROVE  Disks'
<1>0. TypeOK' /\ OthersStand(w)
  BY StepTypes, Zenon
<1>1. ASSUME NEW v \in Workers \ {w} PROVE DiskOf(v)'
  <2>1. /\ pc'[v] = pc[v] /\ at'[v] = at[v] /\ disk'[v] = disk[v] /\ failed'[v] = failed[v]
    BY <1>0, Zenon DEF OthersStand
  <2>2. DiskOf(v)
    BY Zenon DEF Disks
  <2> QED
    BY <2>1, <2>2, Zenon DEF DiskOf, Booted, InTests, Tag
<1>2. DiskOf(w)'
  <2>1. CASE Prepare(w)
    BY <2>1, PrepareStep, Zenon DEF DiskOf, Booted, InTests
  <2>2. CASE KillPrevious(w) \/ Boot(w)
    <3>1. pc'[w] \in {"boot", "copy_files"}
      BY <2>2, Zenon DEF KillPrevious, Boot, Goto, TypeOK
    <3> QED
      BY <3>1, Zenon DEF DiskOf, Booted, InTests
  <2>3. CASE CopyEssentialFiles(w)
    <3>1. pc'[w] = "copy_ltp" /\ at' = at /\ (failed'[w] = TRUE \/ disk'[w].script = at[w].c)
      <4>1. pc'[w] = "copy_ltp" /\ at' = at
        BY <2>3, Zenon DEF CopyEssentialFiles, Goto, TypeOK
      <4>2. CASE disk' = [disk EXCEPT ![w].script = at[w].c]
        BY <4>1, <4>2 DEF TypeOK
      <4>3. CASE SshFails(w)
        <5>1. failed' = [failed EXCEPT ![w] = TRUE]
          BY <4>3, Zenon DEF SshFails, Fails, MustFail
        <5> QED
          BY <4>1, <5>1, SetFailed, ZenonT(60)
      <4> QED
        BY <2>3, <4>2, <4>3, ZenonT(60) DEF CopyEssentialFiles
    <3> QED
      BY <3>1, Zenon DEF DiskOf, Booted, InTests
  <2>4. CASE CopyLtpBin(w)
    <3>1. pc[w] = "copy_ltp" /\ pc'[w] = "copy_selftest" /\ at' = at
      BY <2>4, Zenon DEF CopyLtpBin, Goto, TypeOK
    <3>2. CASE failed' = [failed EXCEPT ![w] = TRUE]
      BY <3>2, SetFailed, ZenonT(60) DEF DiskOf
    <3>3. CASE /\ failed' = failed /\ disk'[w].script = disk[w].script
               /\ disk'[w].tree = Tag(w) \/ disk'[w].version = Tag(w)
      BY <3>1, <3>3, Zenon DEF Disks, DiskOf, Booted, InTests, Tag
    <3>4. Tag(w) \in Tags
      <4>1. Running(w)
        BY <3>1, Zenon DEF Running, Stopped
      <4> QED
        BY <4>1, AtCheckout, Zenon
    <3>5. \/ failed' = [failed EXCEPT ![w] = TRUE]
          \/ /\ failed' = failed /\ disk'[w].script = disk[w].script
             /\ disk'[w].tree = Tag(w) \/ disk'[w].version = Tag(w)
      BY <2>4, <3>4, LtpCopy, Zenon
    <3> QED
      BY <3>2, <3>3, <3>5, Zenon
  <2>5. CASE CopySelftestBin(w)
    <3>1. pc[w] = "copy_selftest" /\ pc'[w] = "tests" /\ at' = at
      BY <2>5, Zenon DEF CopySelftestBin, Goto, TypeOK
    <3>2. CASE failed' = [failed EXCEPT ![w] = TRUE]
      BY <3>2, SetFailed, Zenon DEF DiskOf
    <3>3. CASE /\ failed' = failed /\ disk'[w].selftest = at[w].c
               /\ disk'[w].script = disk[w].script
               /\ disk'[w].tree = disk[w].tree /\ disk'[w].version = disk[w].version
      BY <3>1, <3>3, Zenon DEF Disks, DiskOf, Booted, InTests, Tag
    <3>4. \/ failed' = [failed EXCEPT ![w] = TRUE]
          \/ /\ failed' = failed /\ disk'[w].selftest = at[w].c
             /\ disk'[w].script = disk[w].script
             /\ disk'[w].tree = disk[w].tree /\ disk'[w].version = disk[w].version
      BY <2>5 DEF CopySelftestBin, Succeeds, SshSucceeds, SshFails, Fails, MustFail, TypeOK
    <3> QED
      BY <3>2, <3>3, <3>4, Zenon
  <2>6. CASE TestLoop(w)
    <3>1. /\ disk' = disk /\ at'[w].c = at[w].c /\ InTests(w)
          /\ pc'[w] \in {"tests", "run", "save", "collect", "fetch"}
      BY <2>6, LoopStep, Zenon
    <3>2. failed' = failed \/ failed' = [failed EXCEPT ![w] = TRUE]
      BY <2>6, Zenon DEF TestLoop, SkipTest, ResetCounters, RunTest, SaveResult, CollectCoverage,
                  FetchCoverage, SshSucceeds, SshFails, Succeeds, Fails, MustFail
    <3>3. CASE failed' = [failed EXCEPT ![w] = TRUE]
      BY <3>3, SetFailed, Zenon DEF DiskOf
    <3>4. CASE failed' = failed
      BY <3>1, <3>4, Zenon DEF Disks, DiskOf, Booted, InTests, Tag
    <3> QED
      BY <3>2, <3>3, <3>4, Zenon
  <2>7. CASE KillQemu(w) \/ Start(w)
    <3>1. pc'[w] \in {"finished", "image"}
      BY <2>7, KillQemuStep, StartStep, ZenonT(60)
    <3> QED
      BY <3>1, Zenon DEF DiskOf, Booted, InTests
  <2>8. CASE Crash(w)
    <3>1. pc'[w] = "crashed"
      BY <2>8, Zenon DEF Crash, Goto, TypeOK
    <3> QED
      BY <3>1, Zenon DEF DiskOf, Booted, InTests
  <2>9. CASE CloseVM(w)
    <3>1. pc' = pc /\ at' = at /\ disk' = disk /\ failed' = failed
      BY <2>9, Zenon DEF CloseVM
    <3> QED
      BY <3>1, Zenon DEF Disks, DiskOf, Booted, InTests, Tag
  <2> QED
    BY <2>1, <2>2, <2>3, <2>4, <2>5, <2>6, <2>7, <2>8, <2>9, Zenon DEF Step, UseMachine, Outside
<1> QED
  BY <1>1, <1>2, Zenon DEF Disks

\* What a result is saved from and a coverage file fetched from: the kernel
\* of the checkout, and a machine that has run this test only.
LEMMA SavedAndFetched ==
  ASSUME TypeOK, Position, Machines, Collected, NEW w \in Workers
  PROVE  /\ SaveResult(w) => /\ result' = [result EXCEPT ![at[w].c][Test(w)] = at[w].c]
                             /\ coverage' = coverage
         /\ FetchCoverage(w) =>
              /\ result' = result
              /\ coverage' \in {coverage, [coverage EXCEPT ![at[w].c][Test(w)] =
                                             [kernel |-> at[w].c, ran |-> {Test(w)}]]}
              /\ HasResult(at[w].c, Test(w))
<1>1. OnTest(w) => vm[w] = at[w].c
  BY Zenon DEF Machines, MachineOf, Booted, OnTest, InTests
<1>2. ASSUME SaveResult(w)
      PROVE  /\ result' = [result EXCEPT ![at[w].c][Test(w)] = at[w].c] /\ coverage' = coverage
  BY <1>1, <1>2, ZenonT(60) DEF SaveResult, OnTest
<1>3. ASSUME FetchCoverage(w)
      PROVE  /\ result' = result
             /\ coverage' \in {coverage, [coverage EXCEPT ![at[w].c][Test(w)] =
                                            [kernel |-> at[w].c, ran |-> {Test(w)}]]}
             /\ HasResult(at[w].c, Test(w))
  <2>1. vm[w] = at[w].c /\ counters[w] = {Test(w)} /\ HasResult(at[w].c, Test(w))
    BY <1>1, <1>3, Zenon DEF FetchCoverage, OnTest, Collected, CollectedOf
  <2> QED
    BY <1>3, <2>1, Zenon DEF FetchCoverage
<1> QED
  BY <1>2, <1>3, Zenon

\* The other steps leave the files alone.
LEMMA FilesUnchanged ==
  ASSUME TypeOK, Position, NEW w \in Workers, Step(w), ~ SaveResult(w), ~ FetchCoverage(w)
  PROVE  result' = result /\ coverage' = coverage
  BY PrepareStep, MachineStep, Zenon
     DEF Step, TestLoop, SkipTest, ResetCounters, RunTest, CollectCoverage,
         Outside, KillQemu, Start, Crash, CloseVM, files

\* Files is kept, and no file is ever lost.
LEMMA StepFiles ==
  ASSUME TypeOK, Position, Machines, Collected, Files, NEW w \in Workers, Step(w)
  PROVE  /\ Files'
         /\ \A c \in Checkouts : \A t \in TestsOf(c) :
              (HasResult(c, t) => HasResult(c, t)') /\ (HasCoverage(c, t) => HasCoverage(c, t)')
<1> USE DEF HasResult, HasCoverage
<1>1. CASE SaveResult(w)
  <2>1. /\ Running(w) /\ OnTest(w) /\ coverage' = coverage
        /\ result' = [result EXCEPT ![at[w].c][Test(w)] = at[w].c]
    BY <1>1, SavedAndFetched, ZenonT(60) DEF SaveResult, Running, Stopped, OnTest
  <2>2. at[w].c \in Checkouts /\ at[w].c # 0 /\ Test(w) \in TestsOf(at[w].c)
    BY <2>1, AtCheckout, Zenon
  <2>3. \A c \in Checkouts : \A t \in TestsOf(c) :
          result'[c][t] = IF c = at[w].c /\ t = Test(w) THEN c ELSE result[c][t]
    BY <2>1, <2>2 DEF TypeOK
  <2>4. \A c \in Checkouts : \A t \in TestsOf(c) :
          result'[c][t] \in {0, c} /\ (result[c][t] # 0 => result'[c][t] # 0)
    BY <2>2, <2>3, ZenonT(60) DEF Files
  <2>5. Files'
    BY <2>1, <2>4, ZenonT(60) DEF Files
  <2> QED
    BY <2>1, <2>4, <2>5, ZenonT(60)
<1>2. CASE FetchCoverage(w)
  <2> DEFINE own == [kernel |-> at[w].c, ran |-> {Test(w)}]
  <2>1. /\ Running(w) /\ OnTest(w) /\ result' = result /\ HasResult(at[w].c, Test(w))
        /\ coverage' = coverage \/ coverage' = [coverage EXCEPT ![at[w].c][Test(w)] = own]
    BY <1>2, SavedAndFetched, ZenonT(60) DEF FetchCoverage, Running, Stopped, OnTest
  <2>2. at[w].c \in Checkouts /\ at[w].c \in Nat /\ Test(w) \in TestsOf(at[w].c)
    BY <2>1, AtCheckout, Zenon
  <2>3. own # None
    <3>1. Test(w) \in Tests
      BY <2>2, Zenon DEF Tests
    <3>2. own \in [kernel : Nat, ran : SUBSET Tests]
      BY <2>2, <3>1, Zenon
    <3> QED
      BY <3>2, ConstantsAssumption, Zenon
  <2>4. CASE coverage' = coverage
    BY <2>1, <2>4, Zenon DEF Files
  <2>5. CASE coverage' = [coverage EXCEPT ![at[w].c][Test(w)] = own]
    <3> HIDE DEF own
    <3>1. \A c \in Checkouts : \A t \in TestsOf(c) :
            coverage'[c][t] = IF c = at[w].c /\ t = Test(w) THEN own ELSE coverage[c][t]
      BY <2>2, <2>5 DEF TypeOK
    <3>2. ASSUME NEW c \in Checkouts, NEW t \in TestsOf(c), coverage'[c][t] # None
          PROVE  coverage'[c][t] = [kernel |-> c, ran |-> {t}] /\ result[c][t] # 0
      <4>1. CASE c = at[w].c /\ t = Test(w)
        BY <2>1, <3>1, <4>1, ZenonT(60) DEF own
      <4>2. CASE ~ (c = at[w].c /\ t = Test(w))
        BY <3>1, <3>2, <4>2 DEF Files
      <4> QED
        BY <4>1, <4>2, Zenon
    <3>3. Files'
      BY <2>1, <3>2, ZenonT(60) DEF Files
    <3>4. \A c \in Checkouts : \A t \in TestsOf(c) : coverage[c][t] # None => coverage'[c][t] # None
      BY <2>3, <3>1, ZenonT(60)
    <3> QED
      BY <2>1, <3>3, <3>4, ZenonT(60)
  <2> QED
    BY <2>1, <2>4, <2>5, Zenon
<1>3. CASE ~ SaveResult(w) /\ ~ FetchCoverage(w)
  BY <1>3, FilesUnchanged, SMTT(60) DEF Files
<1> QED
  BY <1>1, <1>2, <1>3, Zenon

\* Collected is kept.
LEMMA StepCollected ==
  ASSUME TypeOK, Position, Machines, Collected, Files, NEW w \in Workers, Step(w)
  PROVE  Collected'
<1>0. /\ TypeOK' /\ OthersStand(w)
      /\ \A c \in Checkouts : \A t \in TestsOf(c) : HasResult(c, t) => HasResult(c, t)'
  BY StepTypes, StepFiles, Zenon
<1>1. ASSUME NEW v \in Workers \ {w} PROVE CollectedOf(v)'
  <2>1. pc'[v] = pc[v] /\ at'[v] = at[v] /\ counters'[v] = counters[v] /\ Test(v)' = Test(v)
    BY <1>0, Zenon DEF OthersStand, Test
  <2>2. OnTest(v) => at[v].c \in Checkouts /\ Test(v) \in TestsOf(at[v].c)
    BY AtCheckout, Zenon DEF OnTest, Running, Stopped
  <2>3. CollectedOf(v)
    BY Zenon DEF Collected
  <2>4. pc[v] \in {"collect", "fetch"} => result'[at[v].c][Test(v)] # 0
    BY <1>0, <2>2, <2>3, Zenon DEF CollectedOf, OnTest, HasResult
  <2> QED
    BY <2>1, <2>3, <2>4, Zenon DEF CollectedOf, HasResult
<1>2. CollectedOf(w)'
  <2>1. CASE Prepare(w) \/ UseMachine(w) \/ Outside(w)
    <3>1. pc'[w] \notin {"run", "save", "collect", "fetch"}
      <4>1. CASE Prepare(w)
        BY <4>1, PrepareStep, Zenon
      <4>2. CASE UseMachine(w)
        BY <4>2, MachineStep, Zenon
      <4>3. CASE Outside(w)
        BY <4>3, OutsideStep, Zenon DEF Stopped
      <4> QED
        BY <2>1, <4>1, <4>2, <4>3, Zenon
    <3> QED
      BY <3>1, Zenon DEF CollectedOf
  <2>2. CASE TestLoop(w) /\ pc'[w] = "tests"
    BY <2>2, Zenon DEF CollectedOf
  <2>3. CASE TestLoop(w) /\ pc'[w] # "tests"
    <3>1. at' = at /\ Test(w)' = Test(w) /\ ~ NextTest(w)
      BY <2>3, LoopStep, NextTestStep, Zenon DEF Test
    <3>2. at[w].c \in Checkouts /\ Test(w) \in TestsOf(at[w].c)
      BY <2>3, LoopStep, InsideBuild, AtCheckout, Zenon
    <3>3. CASE ResetCounters(w)
      <4>1. pc'[w] = "run" /\ counters'[w] = {}
        BY <3>1, <3>3, Zenon DEF ResetCounters, Goto, TypeOK
      <4> QED
        BY <4>1, Zenon DEF CollectedOf
    <3>4. CASE RunTest(w)
      <4>1. pc'[w] = "save" /\ counters'[w] = counters[w] \cup {Test(w)} /\ counters[w] = {}
        BY <3>1, <3>4, Zenon DEF RunTest, Goto, TypeOK, Collected, CollectedOf
      <4> QED
        BY <3>1, <4>1, Zenon DEF CollectedOf
    <3>5. CASE SaveResult(w)
      <4>1. pc'[w] = "collect" /\ counters' = counters /\ counters[w] = {Test(w)}
        BY <3>1, <3>5, Zenon DEF SaveResult, Goto, TypeOK, Collected, CollectedOf, machine
      <4>2. result'[at[w].c][Test(w)] = at[w].c
        <5>1. result' = [result EXCEPT ![at[w].c][Test(w)] = at[w].c]
          BY <3>5, SavedAndFetched, ZenonT(60)
        <5>2. DOMAIN result = Checkouts /\ DOMAIN result[at[w].c] = TestsOf(at[w].c)
          BY <3>2, Zenon DEF TypeOK
        <5>3. \A f : \A a \in DOMAIN f : \A b \in DOMAIN f[a] : \A x :
                [f EXCEPT ![a][b] = x][a][b] = x
          BY Zenon
        <5> QED
          BY <3>2, <5>1, <5>2, <5>3, ZenonT(60)
      <4>3. at[w].c # 0
        BY <3>2, CheckoutNumbers, Zenon
      <4> QED
        BY <3>1, <4>1, <4>2, <4>3, Zenon DEF CollectedOf, HasResult
    <3>6. CASE CollectCoverage(w)
      <4>1. /\ pc'[w] = "fetch" /\ counters' = counters /\ result' = result
            /\ counters[w] = {Test(w)} /\ HasResult(at[w].c, Test(w))
        BY <3>1, <3>6, Zenon DEF CollectCoverage, Goto, TypeOK, Collected, CollectedOf, machine, files
      <4> QED
        BY <3>1, <4>1, Zenon DEF CollectedOf, HasResult
    <3> QED
      BY <2>3, <3>1, <3>3, <3>4, <3>5, <3>6, Zenon DEF TestLoop, SkipTest, FetchCoverage
  <2> QED
    BY <2>1, <2>2, <2>3, Zenon DEF Step
<1> QED
  BY <1>1, <1>2, Zenon DEF Collected

\* A test that the loop leaves behind without a failure has its files, or is
\* one that the loop never runs.
Settled(c, t) == t \in Excluded \cup Unsupported \/ (HasResult(c, t) /\ HasCoverage(c, t))

\* The test that a step of the loop leaves behind is settled, when the build
\* is not marked as failed or the machine is up and has its script.
LEMMA LeavesSettled ==
  ASSUME TypeOK, Position, Machines, Collected, Files, NEW w \in Workers, TestLoop(w),
         NextTest(w),
         failed'[w] = FALSE \/ (~ Fails(w) /\ vm[w] # 0 /\ disk[w].script = vm[w]),
         NEW c, NEW t, c = at[w].c, t = Test(w)
  PROVE  Settled(c, t)'
<1> USE DEF Settled, HasResult, HasCoverage
<1>0. c \in Checkouts /\ c # 0 /\ t \in TestsOf(c) /\ pc'[w] = "tests"
  BY LoopStep, InsideBuild, AtCheckout, NextTestStep, Zenon
<1>1. ~ Fails(w) /\ (MustFail(w) => vm[w] # 0 /\ disk[w].script = vm[w])
  BY SetFailed, ZenonT(60) DEF Fails, MustFail
<1>2. CASE SkipTest(w)
  BY <1>2, Zenon DEF SkipTest, Reproduced, files
<1>3. CASE ResetCounters(w)
  <2>1. Goto(w, "run") => pc'[w] = "run"
    BY Zenon DEF Goto, TypeOK
  <2> QED
    BY <1>0, <1>1, <1>3, <2>1, Zenon DEF ResetCounters, SshFails
<1>4. CASE RunTest(w)
  <2>1. Goto(w, "save") => pc'[w] = "save"
    BY Zenon DEF Goto, TypeOK
  <2> QED
    BY <1>0, <1>4, <2>1, Zenon DEF RunTest
<1>5. CASE SaveResult(w)
  <2>1. Goto(w, "collect") => pc'[w] = "collect"
    BY Zenon DEF Goto, TypeOK
  <2>2. coverage[c][t] # None
    BY <1>0, <1>5, <2>1, ZenonT(60) DEF SaveResult
  <2>3. result' = [result EXCEPT ![c][t] = c] /\ coverage' = coverage
    BY <1>5, SavedAndFetched, ZenonT(60)
  <2>4. DOMAIN result = Checkouts /\ DOMAIN result[c] = TestsOf(c)
    BY <1>0, Zenon DEF TypeOK
  <2> QED
    BY <1>0, <2>2, <2>3, <2>4, Zenon
<1>6. CASE CollectCoverage(w)
  <2>1. Goto(w, "fetch") => pc'[w] = "fetch"
    BY DEF Goto, TypeOK
  <2> QED
    BY <1>0, <1>1, <1>6, <2>1, Zenon DEF CollectCoverage
<1>7. CASE FetchCoverage(w)
  <2>1. result' = result /\ result[c][t] # 0
    BY <1>7, SavedAndFetched, ZenonT(60)
  <2>2. coverage' = [coverage EXCEPT ![c][t] = [kernel |-> vm[w], ran |-> counters[w]]]
    BY <1>1, <1>7, Zenon DEF FetchCoverage, SshFails
  <2>3. vm[w] \in Nat /\ counters[w] = {t}
    BY <1>7, Zenon DEF FetchCoverage, TypeOK, Collected, CollectedOf
  <2>4. [kernel |-> vm[w], ran |-> counters[w]] # None
    <3>1. t \in Tests
      BY <1>0, Zenon DEF Tests
    <3>2. [kernel |-> vm[w], ran |-> counters[w]] \in [kernel : Nat, ran : SUBSET Tests]
      BY <2>3, <3>1, Zenon
    <3> QED
      BY <3>2, ConstantsAssumption, Zenon
  <2>5. DOMAIN coverage = Checkouts /\ DOMAIN coverage[c] = TestsOf(c)
    BY <1>0, Zenon DEF TypeOK
  <2> QED
    BY <1>0, <2>1, <2>2, <2>4, <2>5, Zenon
<1> QED
  BY <1>2, <1>3, <1>4, <1>5, <1>6, <1>7, Zenon DEF TestLoop

\* What the loop has passed stays settled.
LEMMA StepPassed ==
  ASSUME IInv, NEW w \in Workers, Step(w), NEW v \in Workers
  PROVE  PassedOf(v)'
<1> USE DEF IInv
<1> DEFINE Passed(c, b, k) == \A i \in 1 .. k - 1 : Settled(c, Builds[c][b][i])
<1>0. /\ TypeOK' /\ OthersStand(w)
      /\ \A c \in Checkouts : \A t \in TestsOf(c) : Settled(c, t) => Settled(c, t)'
  BY StepTypes, StepFiles, Zenon DEF Settled
<1>1. PassedOf(v) /\ InTests(v) /\ failed[v] = FALSE => Passed(at[v].c, at[v].b, at[v].k)
  BY Zenon DEF PassedOf, Settled
<1>2. \A c, b, k : /\ c \in Checkouts /\ b \in 1 .. Len(Builds[c])
                   /\ k \in 1 .. Len(Builds[c][b]) + 1 /\ Passed(c, b, k)
                   => Passed(c, b, k)'
  <2> SUFFICES ASSUME NEW c \in Checkouts, NEW b \in 1 .. Len(Builds[c]),
                      NEW k \in 1 .. Len(Builds[c][b]) + 1, Passed(c, b, k),
                      NEW i \in 1 .. k - 1
               PROVE  Settled(c, Builds[c][b][i])'
    BY ZenonT(60)
  <2>1. Len(Builds[c][b]) \in Nat
    BY BuildLists, Zenon
  <2>2. i \in 1 .. Len(Builds[c][b])
    BY <2>1, Indices, Zenon
  <2>3. Builds[c][b][i] \in TestsOf(c)
    BY <2>2, BuildLists, Zenon
  <2> QED
    BY <1>0, <2>3, Zenon
<1>3. Running(v) => /\ at[v].c \in Checkouts /\ at[v].b \in 1 .. Len(Builds[at[v].c])
                    /\ at[v].k \in 1 .. Len(Builds[at[v].c][at[v].b]) + 1
  BY AtCheckout, Zenon DEF Position, PositionOf
<1>4. InTests(v) => Running(v)
  BY Zenon DEF InTests, Running, Stopped
<1>5. SUFFICES ASSUME pc'[v] \in {"tests", "run", "save", "collect", "fetch"}, failed'[v] = FALSE
               PROVE  \A c, b, k : c = at'[v].c /\ b = at'[v].b /\ k = at'[v].k => Passed(c, b, k)'
  <2>0. failed' \in [Workers -> BOOLEAN]
    BY <1>0, Zenon DEF TypeOK
  <2>1. failed'[v] = TRUE \/ failed'[v] = FALSE
    BY <2>0, Zenon
  <2>2. PassedOf(v)' <=>
          (InTests(v)' /\ ~ failed'[v] =>
             \A i \in 1 .. at'[v].k - 1 :
               \/ Builds[at'[v].c][at'[v].b][i] \in Excluded \cup Unsupported
               \/ HasResult(at[v].c, Builds[at[v].c][at[v].b][i])'
                  /\ HasCoverage(at[v].c, Builds[at[v].c][at[v].b][i])')
    BY Zenon DEF PassedOf
  <2> QED
    BY <2>1, <2>2, Zenon DEF InTests, Settled, HasResult, HasCoverage
<1>6. CASE at'[v] = at[v] /\ InTests(v) /\ failed[v] = FALSE
  BY <1>1, <1>2, <1>3, <1>4, <1>6, ZenonT(60)
<1>7. CASE v # w
  <2>1. at'[v] = at[v] /\ pc'[v] = pc[v] /\ failed'[v] = failed[v]
    BY <1>0, <1>7, Zenon DEF OthersStand
  <2> QED
    BY <1>5, <1>6, <2>1, ZenonT(60) DEF InTests
<1>8. CASE v = w
  <2>1. CASE UseMachine(w)
    <3>1. at'[v].k = 1
      BY <1>8, <2>1, MachineStep, Zenon DEF Position, PositionOf
    <3>2. 1 .. (1 - 1) = {}
      OBVIOUS
    <3> QED
      BY <3>1, <3>2, ZenonT(60)
  <2>2. CASE TestLoop(w)
    <3>1. InTests(v) /\ failed[v] = FALSE
      <4>1. InTests(v)
        BY <1>8, <2>2, LoopStep, Zenon
      <4>2. failed' = failed \/ failed' = [failed EXCEPT ![w] = TRUE]
        BY <2>2, Zenon DEF TestLoop, SkipTest, ResetCounters, RunTest, SaveResult, CollectCoverage,
                    FetchCoverage, SshSucceeds, SshFails, Succeeds, Fails, MustFail
      <4>3. failed' = failed
        BY <1>5, <1>8, <4>2, SetFailed, ZenonT(60)
      <4> QED
        BY <1>5, <4>1, <4>3, Zenon
    <3>2. CASE at' = at
      BY <1>6, <3>1, <3>2, ZenonT(60)
    <3>3. CASE NextTest(w)
      <4>1. at'[v].c = at[v].c /\ at'[v].b = at[v].b /\ at'[v].k = at[v].k + 1
        BY <1>8, <3>3, NextTestStep, Zenon
      <4> SUFFICES ASSUME NEW c, NEW b, NEW k, c = at'[v].c, b = at'[v].b, k = at'[v].k,
                          NEW i \in 1 .. k - 1
                   PROVE  Settled(c, Builds[c][b][i])'
        BY Zenon
      <4>2. c = at[v].c /\ b = at[v].b /\ k - 1 = at[v].k /\ k \in Nat /\ at[v].k \in Nat
        <5>1. at[v].k \in Nat
          BY Zenon DEF TypeOK
        <5>2. c = at[v].c /\ b = at[v].b /\ k = at[v].k + 1
          BY <4>1, ZenonT(60)
        <5>3. \A x \in Nat : \A y : y = x + 1 => y - 1 = x /\ y \in Nat
          OBVIOUS
        <5>4. k - 1 = at[v].k /\ k \in Nat
          BY <5>1, <5>2, <5>3, Zenon
        <5> QED
          BY <5>1, <5>2, <5>4, Zenon
      <4>3. Passed(c, b, k - 1)
        BY <1>1, <3>1, <4>2, Zenon
      <4>4. Passed(c, b, k - 1)'
        BY <1>2, <1>3, <1>4, <3>1, <4>2, <4>3, Zenon
      <4>5. CASE i \in 1 .. (k - 1) - 1
        BY <4>4, <4>5, Zenon
      <4>6. CASE i = k - 1
        <5>1. Builds[c][b][i] = Test(w)
          BY <1>8, <4>2, <4>6, Zenon DEF Test
        <5> QED
          BY <1>5, <1>8, <2>2, <3>3, <4>2, <5>1, LeavesSettled, ZenonT(60)
      <4>7. k - 1 \in Nat
        BY <4>2, Zenon
      <4>8. i \in 1 .. (k - 1) - 1 \/ i = k - 1
        BY <4>7, Indices, Zenon
      <4> QED
        BY <4>5, <4>6, <4>8, Zenon
    <3> QED
      BY <2>2, <3>2, <3>3, LoopStep, Zenon
  <2>3. CASE Prepare(w)
    BY <1>5, <1>8, <2>3, PrepareStep
  <2>4. CASE Outside(w)
    <3>1. pc'[w] \in Stopped \cup {"image"}
      BY <2>4, OutsideStep, Zenon
    <3> QED
      BY <1>5, <1>8, <3>1, Zenon DEF Stopped
  <2> QED
    BY <2>1, <2>2, <2>3, <2>4, Zenon DEF Step
<1> QED
  BY <1>7, <1>8, Zenon

-----------------------------------------------------------------------------
\* Init establishes the invariant.
LEMMA InitIInv == Init => IInv
<1> SUFFICES ASSUME Init PROVE IInv
  BY Zenon
<1>1. TypeOK
  <2>1. disk \in [Workers -> DiskContent]
    <3>1. 0 \in Nat
      OBVIOUS
    <3>2. \A g \in DiskVersions :
            [tree |-> None, version |-> g, selftest |-> 0, script |-> 0] \in DiskContent
      BY <3>1, Zenon DEF DiskContent
    <3> QED
      BY <3>2, Zenon DEF Init
  <2>2. disk \in [Workers -> [tree : Tags \cup {None},
                             version : DiskVersions \cup {LtpVersion, None},
                             selftest : Nat, script : Nat]]
    BY <2>1, Zenon DEF DiskContent
  <2>3. DOMAIN counters = Workers /\ (\A c \in Checkouts : DOMAIN result[c] = TestsOf(c))
        /\ (\A c \in Checkouts : DOMAIN coverage[c] = TestsOf(c))
        /\ DOMAIN result = Checkouts /\ DOMAIN coverage = Checkouts
    BY Zenon DEF Init
  <2>4. /\ pc \in [Workers -> Labels] /\ failed \in [Workers -> BOOLEAN]
        /\ ltp \in [Tags -> {"absent", "partial", "whole"}]
        /\ selftest \in [Checkouts -> {"absent", "partial", "whole"}]
        /\ pidfile \in [Workers -> {"none", "live", "stale"}]
    BY Zenon DEF Init, Labels, Stopped
  <2>5. /\ at \in [Workers -> [c : Nat, b : Nat, k : Nat]] /\ image \in [Checkouts -> Nat]
        /\ vm \in [Workers -> Nat] /\ budget \in [crashes : Nat, fails : Nat]
    BY ConstantsAssumption DEF Init
  <2> QED
    BY <2>2, <2>3, <2>4, <2>5, Zenon DEF TypeOK
<1>2. \A w \in Workers : pc[w] = "idle" /\ vm[w] = 0 /\ pidfile[w] = "none"
  BY Zenon DEF Init
<1>3. Position /\ Collected /\ (\A w \in Workers : PassedOf(w)) /\ Disks
  BY <1>2, Zenon DEF Position, PositionOf, Collected, CollectedOf, PassedOf, Disks, DiskOf,
              Running, Stopped, InTests, OnTest, Booted
<1>4. Images
  BY <1>2, Zenon DEF Init, Images, ImageOf, Running, Stopped
<1>5. Machines
  BY <1>2, Zenon DEF Machines, MachineOf, Booted, OnTest, InTests
<1>6. Files
  BY Zenon DEF Init, Files, HasCoverage
<1> QED
  BY <1>1, <1>3, <1>4, <1>5, <1>6, Zenon DEF IInv

\* IInv is inductive.
LEMMA NextIInv == IInv /\ [Next]_vars => IInv'
<1>1. ASSUME IInv, Next PROVE IInv'
  <2>1. PICK w \in Workers : Work(w) \/ Start(w) \/ Crash(w) \/ CloseVM(w)
    BY <1>1, Zenon DEF Next
  <2>2. Step(w)
    BY <2>1, Zenon DEF Step, Work, Prepare, UseMachine, TestLoop, Outside
  <2>3. TypeOK' /\ Position' /\ Images' /\ Machines' /\ Disks'
    BY <1>1, <2>2, StepTypes, StepPosition, StepImages, StepMachines, StepDisks, Zenon DEF IInv
  <2>4. Collected' /\ Files'
    BY <1>1, <2>2, StepCollected, StepFiles, Zenon DEF IInv
  <2>5. \A v \in Workers : PassedOf(v)'
    BY <1>1, <2>2, StepPassed, Zenon
  <2> QED
    BY <2>3, <2>4, <2>5, Zenon DEF IInv
<1>2. ASSUME IInv, UNCHANGED vars PROVE IInv'
  <2> USE <1>2 DEF vars, IInv
  <2>1. TypeOK'
    BY Zenon DEF TypeOK
  <2>2. Position' /\ Images' /\ Machines' /\ Disks'
    BY Zenon DEF Position, PositionOf, Images, ImageOf, Machines, MachineOf, Disks, DiskOf,
           Running, InTests, OnTest, Booted, Tag
  <2>3. Collected' /\ Files' /\ \A w \in Workers : PassedOf(w)'
    BY Zenon DEF Collected, CollectedOf, Files, PassedOf, HasResult, HasCoverage, Test, InTests
  <2> QED
    BY <2>1, <2>2, <2>3, Zenon
<1> QED
  BY <1>1, <1>2, Zenon

\* The invariant holds of every behaviour; fairness is not needed.
LEMMA Invariant == Spec => []IInv
  BY InitIInv, NextIInv, PTL DEF Spec

\* The slices that the workers of reproduce_ltp_testcase.py take keep them
\* apart, for any number of workers and checkouts.
THEOREM CheckoutsOwned == Spec => []OwnCheckout
<1>1. IInv => OwnCheckout
  BY PositionOwns, Zenon DEF IInv
<1> QED
  BY <1>1, Invariant, PTL

\* start_qemu and kill_qemu always find the machine of their worker.
THEOREM MachinesFound == Spec => []MachineHasPidFile
<1>1. IInv => MachineHasPidFile
  BY Zenon DEF IInv, Machines, MachineOf, MachineHasPidFile
<1> QED
  BY <1>1, Invariant, PTL

\* execute_testcase runs tests on the kernel of their own checkout.
THEOREM KernelsOwned == Spec => []OwnKernel
<1>1. IInv => OwnKernel
  BY Zenon DEF IInv, Images, Machines, MachineOf, Files, OwnKernel, Booted
<1> QED
  BY <1>1, Invariant, PTL

\* The coverage that execute_testcase fetches is that of the one test.
THEOREM CoverageOwned == Spec => []OwnCoverage
<1>1. IInv => OwnCoverage
  BY Zenon DEF IInv, Files, OwnCoverage
<1> QED
  BY <1>1, Invariant, PTL

\* The copies to the machine leave the selftests and the script of the
\* checkout on the disk image, and an LTP copied from the tree of its tag or
\* with the tag as its version, or the build is marked as failed.
THEOREM BinariesRight == Spec => []RightBinaries
<1>1. ASSUME IInv PROVE RightBinaries
  <2> SUFFICES ASSUME NEW w \in Workers, InTests(w), ~ failed[w]
               PROVE  /\ disk[w].tree = Tag(w) \/ disk[w].version = Tag(w)
                      /\ disk[w].selftest = at[w].c /\ disk[w].script = at[w].c
    BY Zenon DEF RightBinaries
  <2> QED
    BY <1>1, Zenon DEF IInv, Disks, DiskOf, Booted, InTests
<1> QED
  BY <1>1, Invariant, PTL

\* The loop over the failed tests skips none without a reason, also after a
\* crash and a restart.
THEOREM LoopReproduces == Spec => []PassedAreReproduced
<1>1. IInv => PassedAreReproduced
  BY Zenon DEF IInv, PassedOf, PassedAreReproduced
<1> QED
  BY <1>1, Invariant, PTL

-----------------------------------------------------------------------------
(***************************************************************************)
(* The completeness of the reproduction: when no command failed and no     *)
(* worker was killed, the workers that have ended leave nothing of their   *)
(* slices out, and the slices are all checkouts but the remainder.         *)
(***************************************************************************)
\* Nothing has failed or crashed so far.
Full == budget.crashes = MaxCrashes /\ budget.fails = MaxFails

Spent == budget.crashes =< MaxCrashes /\ budget.fails =< MaxFails

\* Then the machine is up and has the script.  The flag failed does not say
\* this: workers that share an LTP version can make each other's copy fail.
HealthyOf(w) ==
  /\ Booted(w) => vm[w] = at[w].c
  /\ Booted(w) /\ pc[w] # "copy_files" => disk[w].script = at[w].c

\* The first n tests of a build, the builds before b, a whole checkout.
TestsDone(c, b, n) == \A i \in 1 .. n : Settled(c, Builds[c][b][i])
BuildsDone(c, n) == \A b \in 1 .. n : TestsDone(c, b, Len(Builds[c][b]))
CheckoutDone(c) == BuildsDone(c, Len(Builds[c]))

\* What the loops of a worker have left behind.
DoneOf(w) ==
  /\ Running(w) => /\ \A c \in Slice(w) : c < at[w].c => CheckoutDone(c)
                   /\ BuildsDone(at[w].c, at[w].b - 1)
                   /\ TestsDone(at[w].c, at[w].b, at[w].k - 1)
  /\ pc[w] = "finished" => \A c \in Slice(w) : CheckoutDone(c)

\* Checkouts that no slice holds.
Untouched ==
  \A c \in Checkouts : (\A w \in Workers : c \notin Slice(w)) =>
    \A t \in TestsOf(c) : ~ HasResult(c, t) /\ ~ HasCoverage(c, t)

\* The inductive invariant, on top of IInv.
SInv == Spent /\ Untouched /\ (Full => \A w \in Workers : HealthyOf(w) /\ DoneOf(w))

-----------------------------------------------------------------------------
\* The slices are all checkouts up to the last multiple of vmnum.
LEMMA SlicesCover ==
  ASSUME NEW c \in Checkouts
  PROVE  c =< NumCheckouts - (NumCheckouts % vmnum) <=> \E w \in Workers : c \in Slice(w)
<1> DEFINE batch == NumCheckouts \div vmnum
<1>1. vmnum \in Nat \ {0} /\ NumCheckouts \in Nat /\ c \in Nat \ {0}
  BY ConstantsAssumption DEF Checkouts
<1>2. batch \in Nat /\ NumCheckouts - (NumCheckouts % vmnum) = vmnum * batch
  BY <1>1
<1>3. \A w \in Workers : Slice(w) = (w - 1) * batch + 1 .. w * batch
  BY Zenon DEF Slice
<1> HIDE DEF batch
<1>4. ASSUME NEW w \in Workers, c \in Slice(w) PROVE c =< vmnum * batch
  <2>1. w \in Nat /\ vmnum - w \in Nat
    BY <1>1 DEF Workers
  <2>2. (vmnum - w) * batch \in Nat /\ vmnum * batch = w * batch + (vmnum - w) * batch
    BY <1>1, <1>2, <2>1
  <2>3. w * batch \in Nat /\ c =< w * batch
    BY <1>1, <1>2, <1>3, <1>4, <2>1
  <2> QED
    BY <1>1, <2>2, <2>3
<1>5. ASSUME c =< vmnum * batch PROVE \E w \in Workers : c \in Slice(w)
  <2>1. batch # 0
    BY <1>1, <1>2, <1>5
  <2> DEFINE q == (c - 1) \div batch
  <2>2. q \in Nat /\ q * batch =< c - 1 /\ c - 1 < q * batch + batch
    <3>1. c - 1 \in Nat /\ batch \in Nat \ {0}
      BY <1>1, <1>2, <2>1
    <3>2. /\ c - 1 = batch * q + ((c - 1) % batch) /\ (c - 1) % batch \in 0 .. batch - 1
          /\ q \in Nat
      BY <3>1
    <3> HIDE DEF q
    <3>3. PICK x, m \in Nat : x = q * batch /\ m = (c - 1) % batch
      BY <3>1, <3>2
    <3>4. c - 1 = x + m /\ m < batch
      BY <3>1, <3>2, <3>3
    <3> QED
      BY <3>1, <3>2, <3>3, <3>4
  <2> HIDE DEF q
  <2>3. q < vmnum
    <3> SUFFICES ASSUME q >= vmnum PROVE FALSE
      BY <1>1, <2>2
    <3>1. (q - vmnum) * batch >= 0 /\ q * batch = vmnum * batch + (q - vmnum) * batch
      BY <1>1, <1>2, <2>2
    <3>2. q * batch \in Nat /\ vmnum * batch \in Nat
      BY <1>1, <1>2, <2>2
    <3>3. PICK x, y, z \in Nat : /\ x = q * batch /\ y = vmnum * batch
                                 /\ z = (q - vmnum) * batch
      BY <1>1, <1>2, <2>2, <3>1, <3>2
    <3>4. x = y + z /\ c =< y /\ x =< c - 1
      BY <1>5, <2>2, <3>1, <3>3, Zenon
    <3> QED
      BY <1>1, <3>3, <3>4
  <2>4. q + 1 \in Workers /\ (q + 1) - 1 = q /\ (q + 1) * batch = q * batch + batch
    BY <1>1, <1>2, <2>2, <2>3 DEF Workers
  <2>5. q * batch \in Nat
    BY <1>2, <2>2
  <2>6. c \in q * batch + 1 .. q * batch + batch
    BY <1>1, <1>2, <2>2, <2>5
  <2> QED
    BY <1>3, <2>4, <2>6, Zenon
<1> QED
  BY <1>2, <1>4, <1>5, Zenon

\* A slice ends where the loop over it finds no next checkout.
LEMMA SliceEnds ==
  ASSUME NEW w \in Workers
  PROVE  /\ \A c \in Slice(w) : c \in Nat
         /\ \A c \in Slice(w) : c + 1 \notin Slice(w) => \A d \in Slice(w) : d =< c
         /\ LET first == (w - 1) * (NumCheckouts \div vmnum) + 1
            IN  /\ first \notin Slice(w) => Slice(w) = {}
                /\ \A c \in Slice(w) : ~ (c < first)
<1> DEFINE P == (w - 1) * (NumCheckouts \div vmnum)
           Q == w * (NumCheckouts \div vmnum)
<1>1. P \in Nat /\ Q \in Nat
  <2>1. w \in Nat /\ w - 1 \in Nat /\ NumCheckouts \div vmnum \in Nat
    BY ConstantsAssumption DEF Workers
  <2> QED
    BY <2>1
<1>2. Slice(w) = P + 1 .. Q
  BY Zenon DEF Slice
<1> HIDE DEF P, Q
<1>3. /\ \A c \in P + 1 .. Q : c \in Nat /\ ~ (c < P + 1)
      /\ \A c \in P + 1 .. Q : c + 1 \notin P + 1 .. Q => \A d \in P + 1 .. Q : d =< c
      /\ P + 1 \notin P + 1 .. Q => P + 1 .. Q = {}
  BY <1>1
<1> QED
  BY <1>2, <1>3, Zenon DEF P

\* A step that leaves the bounds alone was no failure and no crash.
LEMMA StaysFull ==
  ASSUME TypeOK, Spent, NEW w \in Workers, Step(w)
  PROVE  /\ Spent'
         /\ Full' => Full /\ ~ Fails(w) /\ ~ Crash(w)
<1>1. budget \in [crashes : Nat, fails : Nat] /\ MaxCrashes \in Nat /\ MaxFails \in Nat
  BY ConstantsAssumption, Zenon DEF TypeOK
<1>2. Fails(w) => budget'.fails = budget.fails - 1 /\ budget'.crashes = budget.crashes
  BY <1>1, Zenon DEF Fails
<1>3. Crash(w) => budget'.crashes = budget.crashes - 1 /\ budget'.fails = budget.fails
  BY <1>1, Zenon DEF Crash
<1>4. budget' = budget \/ Fails(w) \/ Crash(w)
  BY Zenon DEF Step, Prepare, UseMachine, TestLoop, Outside,
         CheckImage, MakeImage, ImageMade, CheckLtp, CopyLtp, MkdirLtp, MakeLtp, CheckSelftest,
         MakeSelftest, KillPrevious, Boot, CopyEssentialFiles, CopyLtpBin, CopySelftestBin,
         SkipTest, ResetCounters, RunTest, SaveResult, CollectCoverage, FetchCoverage,
         KillQemu, Start, CloseVM, SshSucceeds, SshFails, Succeeds, MustFail
<1> QED
  BY <1>1, <1>2, <1>3, <1>4 DEF Spent, Full

\* Without a failure every machine comes up, and the script is copied.
LEMMA StepHealthy ==
  ASSUME IInv, NEW w \in Workers, Step(w), ~ Fails(w), \A v \in Workers : HealthyOf(v),
         NEW v \in Workers
  PROVE  HealthyOf(v)'
<1> USE DEF IInv
<1>0. TypeOK' /\ OthersStand(w)
  BY StepTypes, Zenon
<1>1. CASE v # w
  BY <1>0, <1>1 DEF OthersStand, HealthyOf, Booted, InTests
<1>2. CASE v = w
  <2>1. CASE Prepare(w) \/ Outside(w)
    <3>1. pc'[w] \in {"exited", "make", "made", "ltp", "ltp_copy", "ltp_mkdir", "ltp_make",
                      "selftest", "selftest_make", "start", "finished", "image", "crashed", "idle"}
      BY <2>1, PrepareStep, OutsideStep, Zenon DEF Stopped
    <3> QED
      BY <1>2, <3>1, Zenon DEF HealthyOf, Booted, InTests
  <2>2. CASE TestLoop(w)
    <3>1. /\ vm' = vm /\ disk' = disk /\ at'[w].c = at[w].c /\ InTests(w)
          /\ pc'[w] \in {"tests", "run", "save", "collect", "fetch"}
      BY <2>2, LoopStep, Zenon
    <3> QED
      BY <1>2, <3>1, Zenon DEF HealthyOf, Booted, InTests
  <2>3. CASE KillPrevious(w)
    <3>1. pc'[w] = "boot"
      BY <2>3, Zenon DEF KillPrevious, Goto, TypeOK
    <3> QED
      BY <1>2, <3>1, Zenon DEF HealthyOf, Booted, InTests
  <2>4. CASE Boot(w)
    <3>1. vm[w] = 0 /\ pc'[w] = "copy_files" /\ at' = at
      BY <2>4, Zenon DEF Boot, Machines, MachineOf, Goto, TypeOK
    <3>2. vm'[w] = at[w].c
      BY <2>4, <3>1, Zenon DEF Boot, TypeOK
    <3> QED
      BY <1>2, <3>1, <3>2, Zenon DEF HealthyOf
  <2>5. CASE CopyEssentialFiles(w) \/ CopyLtpBin(w) \/ CopySelftestBin(w)
    <3>1. Booted(w) /\ Running(w) /\ at' = at /\ vm' = vm
      BY <2>5, Zenon DEF CopyEssentialFiles, CopyLtpBin, CopySelftestBin, Booted, Running, Stopped
    <3>2. vm[w] = at[w].c /\ vm[w] # 0
      BY <3>1, AtCheckout, Zenon DEF HealthyOf
    <3>3. CASE CopyEssentialFiles(w)
      <4>1. disk' = [disk EXCEPT ![w].script = at[w].c]
        BY <3>2, <3>3, Zenon DEF CopyEssentialFiles, SshFails
      <4>2. disk'[w].script = at[w].c
        BY <4>1 DEF TypeOK
      <4> QED
        BY <1>2, <3>1, <3>2, <4>2, Zenon DEF HealthyOf
    <3>4. CASE CopyLtpBin(w) \/ CopySelftestBin(w)
      <4>1. disk[w].script = at[w].c
        BY <3>1, <3>4, Zenon DEF HealthyOf, CopyLtpBin, CopySelftestBin
      <4>2. disk'[w].script = disk[w].script
        <5>1. CASE CopyLtpBin(w)
          BY <3>1, <5>1, AtCheckout, LtpCopy, Zenon
        <5>2. CASE CopySelftestBin(w)
          BY <5>2 DEF TypeOK, CopySelftestBin
        <5> QED
          BY <3>4, <5>1, <5>2, Zenon
      <4> QED
        BY <1>2, <3>1, <3>2, <4>1, <4>2, Zenon DEF HealthyOf
    <3> QED
      BY <2>5, <3>3, <3>4, Zenon
  <2> QED
    BY <2>1, <2>2, <2>3, <2>4, <2>5, Zenon DEF Step, UseMachine
<1> QED
  BY <1>1, <1>2, Zenon

\* What is done stays done.
LEMMA StaysDone ==
  ASSUME IInv, NEW w \in Workers, Step(w), NEW c \in Checkouts
  PROVE  /\ \A b \in 1 .. Len(Builds[c]) : \A n \in 0 .. Len(Builds[c][b]) :
              TestsDone(c, b, n) => TestsDone(c, b, n)'
         /\ \A n \in 0 .. Len(Builds[c]) : BuildsDone(c, n) => BuildsDone(c, n)'
         /\ CheckoutDone(c) => CheckoutDone(c)'
<1>1. \A t \in TestsOf(c) : Settled(c, t) => Settled(c, t)'
  BY StepFiles, Zenon DEF IInv, Settled
<1>2. Len(Builds[c]) \in Nat
  BY BuildLists, Zenon
<1>3. \A b \in 1 .. Len(Builds[c]) : \A i \in 1 .. Len(Builds[c][b]) :
        Settled(c, Builds[c][b][i]) => Settled(c, Builds[c][b][i])'
  BY <1>1, BuildLists, Zenon
<1>4. ASSUME NEW b \in 1 .. Len(Builds[c]), NEW n \in 0 .. Len(Builds[c][b]), TestsDone(c, b, n)
      PROVE  TestsDone(c, b, n)'
  <2>1. Len(Builds[c][b]) \in Nat
    BY BuildLists, Zenon
  <2>2. \A i \in 1 .. n : i \in 1 .. Len(Builds[c][b])
    BY <2>1
  <2> QED
    BY <1>3, <1>4, <2>2, Zenon DEF TestsDone
<1>5. ASSUME NEW n \in 0 .. Len(Builds[c]), BuildsDone(c, n) PROVE BuildsDone(c, n)'
  <2> SUFFICES ASSUME NEW b \in 1 .. n PROVE TestsDone(c, b, Len(Builds[c][b]))'
    BY Zenon DEF BuildsDone
  <2>1. b \in 1 .. Len(Builds[c])
    BY <1>2
  <2>2. Len(Builds[c][b]) \in 0 .. Len(Builds[c][b])
    BY <2>1, BuildLists
  <2>3. TestsDone(c, b, Len(Builds[c][b]))
    BY <1>5, Zenon DEF BuildsDone
  <2> QED
    BY <1>4, <2>1, <2>2, <2>3, Zenon
<1>6. Len(Builds[c]) \in 0 .. Len(Builds[c])
  BY <1>2
<1> QED
  BY <1>4, <1>5, <1>6, Zenon DEF CheckoutDone

\* DoneOf in the next state, for a place named by constants.
LEMMA DoneFrom ==
  ASSUME NEW v \in Workers,
         pc'[v] \notin Stopped =>
           /\ \A c \in Slice(v) : c < at'[v].c => CheckoutDone(c)'
           /\ \A c, b, k : c = at'[v].c /\ b = at'[v].b /\ k = at'[v].k =>
                BuildsDone(c, b - 1)' /\ TestsDone(c, b, k - 1)',
         pc'[v] = "finished" => \A c \in Slice(v) : CheckoutDone(c)'
  PROVE  DoneOf(v)'
  BY Zenon DEF DoneOf, Running, CheckoutDone, TestsDone, BuildsDone, Settled, HasResult, HasCoverage

\* The place of a worker that runs, and the ranges of its indices.
LEMMA PlaceRanges ==
  ASSUME IInv, NEW v \in Workers, Running(v)
  PROVE  /\ at[v].c \in Slice(v) /\ at[v].c \in Checkouts /\ at[v].c \in Nat
         /\ at[v].b \in 1 .. Len(Builds[at[v].c]) /\ at[v].b - 1 \in 0 .. Len(Builds[at[v].c])
         /\ Len(Builds[at[v].c]) \in Nat /\ Len(Builds[at[v].c][at[v].b]) \in Nat
         /\ at[v].k \in 1 .. Len(Builds[at[v].c][at[v].b]) + 1
         /\ at[v].k - 1 \in 0 .. Len(Builds[at[v].c][at[v].b])
<1>1. /\ at[v].c \in Checkouts /\ at[v].c \in Nat
      /\ at[v].b \in 1 .. Len(Builds[at[v].c])
      /\ at[v].k \in 1 .. Len(Builds[at[v].c][at[v].b]) + 1
      /\ Len(Builds[at[v].c]) \in Nat /\ Len(Builds[at[v].c][at[v].b]) \in Nat
      /\ at[v].c \in Slice(v)
  BY AtCheckout, Zenon DEF IInv, Position, PositionOf
<1>2. at[v].b - 1 \in 0 .. Len(Builds[at[v].c])
  <2>1. \A l \in Nat : \A x \in 1 .. l : x - 1 \in 0 .. l
    OBVIOUS
  <2> QED
    BY <1>1, <2>1, Zenon
<1>3. at[v].k - 1 \in 0 .. Len(Builds[at[v].c][at[v].b])
  <2>1. \A l \in Nat : \A x \in 1 .. l + 1 : x - 1 \in 0 .. l
    OBVIOUS
  <2> QED
    BY <1>1, <2>1, Zenon
<1> QED
  BY <1>1, <1>2, <1>3, Zenon

\* What a running worker has done is still done after a step of any worker.
LEMMA KeepsDone ==
  ASSUME IInv, NEW w \in Workers, Step(w), NEW v \in Workers, DoneOf(v)
  PROVE  /\ Running(v) =>
              /\ \A c \in Slice(v) : c < at[v].c => CheckoutDone(c)'
              /\ \A c, b, k : c = at[v].c /\ b = at[v].b /\ k = at[v].k =>
                   BuildsDone(c, b - 1)' /\ TestsDone(c, b, k - 1)'
         /\ pc[v] = "finished" => \A c \in Slice(v) : CheckoutDone(c)'
<1>1. \A c \in Slice(v) : CheckoutDone(c) => CheckoutDone(c)'
  BY SlicesDisjoint, StaysDone, Zenon
<1>2. ASSUME Running(v), NEW c, NEW b, NEW k, c = at[v].c, b = at[v].b, k = at[v].k
      PROVE  BuildsDone(c, b - 1)' /\ TestsDone(c, b, k - 1)'
  <2>1. /\ c \in Checkouts /\ b \in 1 .. Len(Builds[c]) /\ b - 1 \in 0 .. Len(Builds[c])
        /\ k - 1 \in 0 .. Len(Builds[c][b])
    BY <1>2, PlaceRanges, Zenon
  <2>2. BuildsDone(c, b - 1) /\ TestsDone(c, b, k - 1)
    BY <1>2, Zenon DEF DoneOf
  <2> QED
    BY <2>1, <2>2, StaysDone, ZenonT(60)
<1> QED
  BY <1>1, <1>2, Zenon DEF DoneOf

\* A worker that has not moved to another place keeps what it has done.
LEMMA SamePlace ==
  ASSUME IInv, NEW w \in Workers, Step(w), NEW v \in Workers, DoneOf(v), at'[v] = at[v],
         Running(v) \/ pc'[v] \in Stopped, pc'[v] = "finished" => pc[v] = "finished"
  PROVE  DoneOf(v)'
<1>1. pc'[v] \notin Stopped =>
        /\ \A c \in Slice(v) : c < at'[v].c => CheckoutDone(c)'
        /\ \A c, b, k : c = at'[v].c /\ b = at'[v].b /\ k = at'[v].k =>
             BuildsDone(c, b - 1)' /\ TestsDone(c, b, k - 1)'
  BY KeepsDone, Zenon
<1>2. pc'[v] = "finished" => \A c \in Slice(v) : CheckoutDone(c)'
  BY KeepsDone, Zenon
<1> QED
  BY <1>1, <1>2, DoneFrom, Zenon

\* The loop over the tests leaves a settled test behind.
LEMMA LoopDone ==
  ASSUME IInv, NEW w \in Workers, TestLoop(w), ~ Fails(w), HealthyOf(w), DoneOf(w)
  PROVE  DoneOf(w)'
<1> USE DEF IInv
<1>0. Step(w) /\ Running(w) /\ InTests(w)
  BY LoopStep, Zenon DEF Step
<1>1. CASE at' = at /\ pc'[w] \in {"run", "save", "collect", "fetch"}
  BY <1>0, <1>1, SamePlace, Zenon DEF Stopped
<1>2. CASE NextTest(w)
  <2>1. /\ at'[w].c = at[w].c /\ at'[w].b = at[w].b /\ at'[w].k = at[w].k + 1
        /\ pc'[w] = "tests"
    BY <1>2, NextTestStep, Zenon
  <2>2. ASSUME NEW c, NEW b, NEW k, c = at'[w].c, b = at'[w].b, k = at'[w].k
        PROVE  BuildsDone(c, b - 1)' /\ TestsDone(c, b, k - 1)'
    <3>0. PICK n : n = k - 1
      BY Zenon
    <3>1. c = at[w].c /\ b = at[w].b /\ n = at[w].k /\ n \in Nat
      <4>1. at[w].k \in Nat
        BY Zenon DEF TypeOK
      <4> QED
        BY <2>1, <2>2, <3>0, <4>1, Indices, Zenon
    <3>2. BuildsDone(c, b - 1)' /\ TestsDone(c, b, n - 1)'
      BY <1>0, <3>1, KeepsDone, Zenon
    <3>3. vm[w] # 0 /\ disk[w].script = vm[w]
      BY <1>0, AtCheckout, Zenon DEF HealthyOf, Booted, InTests
    <3>4. ASSUME NEW t, t = Test(w) PROVE Settled(c, t)'
      BY <1>2, <3>1, <3>3, <3>4, LeavesSettled, ZenonT(60)
    <3>5. ASSUME NEW i \in 1 .. n PROVE Settled(c, Builds[c][b][i])'
      <4>1. CASE i \in 1 .. n - 1
        BY <3>2, <4>1, Zenon DEF TestsDone
      <4>2. CASE i = n
        BY <3>1, <3>4, <4>2, Zenon DEF Test
      <4> QED
        BY <3>1, <4>1, <4>2, Indices, Zenon
    <3> QED
      BY <3>0, <3>2, <3>5, Zenon DEF TestsDone
  <2>3. \A c \in Slice(w) : c < at'[w].c => CheckoutDone(c)'
    BY <1>0, <2>1, KeepsDone, Zenon
  <2> QED
    BY <2>1, <2>2, <2>3, DoneFrom, Zenon
<1> QED
  BY <1>1, <1>2, LoopStep, Zenon

\* The loop over the slice ends only where there is no next checkout.
LEMMA EnterBuildEnds ==
  ASSUME TypeOK, NEW w \in Workers, NEW c, NEW b, EnterBuild(w, c, b)
  PROVE  pc'[w] = "finished" => c \notin Slice(w)
  BY Zenon DEF EnterBuild, Goto, TypeOK

\* Nothing of a build is left to do before its first test.
LEMMA NothingYet ==
  ASSUME NEW c, NEW b
  PROVE  BuildsDone(c, 1 - 1)' /\ TestsDone(c, b, 1 - 1)'
<1>1. 1 .. (1 - 1) = {}
  OBVIOUS
<1> QED
  BY <1>1, Zenon DEF BuildsDone, TestsDone

\* At the end of a build the builds up to it are done.
LEMMA KillQemuDone ==
  ASSUME IInv, NEW w \in Workers, KillQemu(w), DoneOf(w)
  PROVE  DoneOf(w)'
<1> USE DEF IInv
<1>0. Step(w) /\ Running(w)
  BY KillQemuStep, ZenonT(60) DEF Step, Outside, Running, Stopped
<1>1. PICK d, e, n : d = at[w].c /\ e = at[w].b /\ n = at[w].k
  BY Zenon
<1>2. /\ d \in Slice(w) /\ d \in Checkouts /\ d \in Nat /\ e \in 1 .. Len(Builds[d])
      /\ Len(Builds[d]) \in Nat /\ Len(Builds[d][e]) \in Nat
      /\ n - 1 = Len(Builds[d][e])
  <2>1. /\ d \in Slice(w) /\ d \in Checkouts /\ d \in Nat /\ e \in 1 .. Len(Builds[d])
        /\ Len(Builds[d]) \in Nat /\ Len(Builds[d][e]) \in Nat
        /\ n \in 1 .. Len(Builds[d][e]) + 1
    BY <1>0, <1>1, PlaceRanges, Zenon
  <2>2. n > Len(Builds[d][e])
    BY <1>1, Zenon DEF KillQemu
  <2> QED
    BY <2>1, <2>2
<1>3. (\A c \in Slice(w) : c < d => CheckoutDone(c)') /\ BuildsDone(d, e)'
  <2>1. BuildsDone(d, e - 1)' /\ TestsDone(d, e, Len(Builds[d][e]))'
    BY <1>0, <1>1, <1>2, KeepsDone, Zenon
  <2>2. \A i \in 1 .. e : i \in 1 .. e - 1 \/ i = e
    BY <1>2
  <2> QED
    BY <1>0, <1>1, <2>1, <2>2, KeepsDone, Zenon DEF BuildsDone
<1>4. CASE e < Len(Builds[d])
  <2>0. e + 1 \in Nat
    BY <1>2
  <2>1. EnterBuild(w, d, e + 1) /\ e + 1 \in Nat
    BY <1>1, <1>4, <2>0, ZenonT(60) DEF KillQemu
  <2>2. /\ pc'[w] = "image" /\ at'[w].c = d /\ at'[w].b = e + 1 /\ at'[w].k = 1
    BY <1>2, <2>1, EnterBuildStep, EnterBuildEnds, Zenon
  <2>3. ASSUME NEW c, NEW b, NEW k, c = at'[w].c, b = at'[w].b, k = at'[w].k
        PROVE  BuildsDone(c, b - 1)' /\ TestsDone(c, b, k - 1)'
    <3>1. c = d /\ b - 1 = e /\ k = 1
      BY <1>2, <2>2, <2>3
    <3> QED
      BY <1>3, <3>1, NothingYet, Zenon
  <2> QED
    BY <1>3, <2>2, <2>3, DoneFrom, Zenon
<1>5. CASE ~ (e < Len(Builds[d]))
  <2>0. d + 1 \in Nat
    BY <1>2
  <2>1. EnterBuild(w, d + 1, 1) /\ d + 1 \in Nat
    BY <1>1, <1>5, <2>0, ZenonT(60) DEF KillQemu
  <2>2. CheckoutDone(d)'
    <3>1. e = Len(Builds[d])
      BY <1>2, <1>5
    <3> QED
      BY <1>3, <3>1, Zenon DEF CheckoutDone
  <2>3. \A c \in Slice(w) : c \in Nat /\ (c < d + 1 => c < d \/ c = d) /\ (c =< d => c < d \/ c = d)
    BY <1>2, SliceEnds
  <2>4. CASE pc'[w] = "finished"
    <3>1. \A c \in Slice(w) : c =< d
      BY <1>2, <2>1, <2>4, EnterBuildEnds, SliceEnds, Zenon
    <3>2. \A c \in Slice(w) : CheckoutDone(c)'
      BY <1>3, <2>2, <2>3, <3>1, Zenon
    <3> QED
      BY <2>4, <3>2, DoneFrom, Zenon DEF Stopped
  <2>5. CASE pc'[w] = "image" /\ at'[w].c = d + 1 /\ at'[w].b = 1 /\ at'[w].k = 1
    <3>1. \A c \in Slice(w) : c < at'[w].c => CheckoutDone(c)'
      BY <1>3, <2>2, <2>3, <2>5, Zenon
    <3>2. \A c, b, k : c = at'[w].c /\ b = at'[w].b /\ k = at'[w].k =>
            BuildsDone(c, b - 1)' /\ TestsDone(c, b, k - 1)'
      BY <2>5, NothingYet, Zenon
    <3> QED
      BY <2>5, <3>1, <3>2, DoneFrom, Zenon
  <2> QED
    BY <2>1, <2>4, <2>5, EnterBuildStep, ZenonT(60)
<1> QED
  BY <1>4, <1>5, Zenon

\* A start begins with nothing before it.
LEMMA StartDone ==
  ASSUME IInv, NEW w \in Workers, Start(w)
  PROVE  DoneOf(w)'
<1> DEFINE first == (w - 1) * (NumCheckouts \div vmnum) + 1
<1>1. EnterBuild(w, first, 1) /\ TypeOK
  BY Zenon DEF Start, IInv
<1>2. first \in Nat
  <2>1. w - 1 \in Nat /\ NumCheckouts \div vmnum \in Nat
    BY ConstantsAssumption DEF Workers
  <2> QED
    BY <2>1
<1>3. (first \notin Slice(w) => Slice(w) = {}) /\ \A c \in Slice(w) : ~ (c < first)
  BY SliceEnds, Zenon
<1> HIDE DEF first
<1>4. CASE pc'[w] = "finished"
  <2>1. Slice(w) = {}
    BY <1>1, <1>3, <1>4, EnterBuildEnds, Zenon
  <2> QED
    BY <1>4, <2>1, DoneFrom, Zenon DEF Stopped
<1>5. CASE pc'[w] = "image" /\ at'[w].c = first /\ at'[w].b = 1 /\ at'[w].k = 1
  <2>1. \A c, b, k : c = at'[w].c /\ b = at'[w].b /\ k = at'[w].k =>
          BuildsDone(c, b - 1)' /\ TestsDone(c, b, k - 1)'
    BY <1>5, NothingYet, Zenon
  <2> QED
    BY <1>3, <1>5, <2>1, DoneFrom, Zenon
<1> QED
  BY <1>1, <1>2, <1>4, <1>5, EnterBuildStep, ZenonT(60)

\* What the loops have left behind, after any step that is no failure.
LEMMA StepDone ==
  ASSUME IInv, NEW w \in Workers, Step(w), ~ Fails(w), HealthyOf(w), NEW v \in Workers, DoneOf(v)
  PROVE  DoneOf(v)'
<1> USE DEF IInv
<1>1. CASE v # w
  <2>1. at'[v] = at[v] /\ pc'[v] = pc[v]
    BY <1>1, StepTypes, Zenon DEF OthersStand
  <2> QED
    BY <2>1, SamePlace, Zenon DEF Running
<1>2. CASE v = w
  <2>1. CASE Prepare(w)
    BY <1>2, <2>1, PrepareStep, SamePlace, Zenon
  <2>2. CASE UseMachine(w)
    BY <1>2, <2>2, MachineStep, SamePlace, Zenon
  <2>3. CASE TestLoop(w)
    BY <1>2, <2>3, LoopDone, Zenon
  <2>4. CASE Crash(w) \/ CloseVM(w)
    <3>1. at' = at /\ (pc'[w] = "crashed" \/ pc' = pc)
      BY <2>4, Zenon DEF Crash, CloseVM, Goto, TypeOK
    <3> QED
      BY <1>2, <3>1, SamePlace, Zenon DEF Running, Stopped
  <2>5. CASE KillQemu(w)
    BY <1>2, <2>5, KillQemuDone, Zenon
  <2>6. CASE Start(w)
    BY <1>2, <2>6, StartDone, Zenon
  <2> QED
    BY <2>1, <2>2, <2>3, <2>4, <2>5, <2>6, Zenon DEF Step, Outside
<1> QED
  BY <1>1, <1>2, Zenon

\* Files are written for the checkouts of a slice only.
LEMMA StepUntouched ==
  ASSUME IInv, Untouched, NEW w \in Workers, Step(w)
  PROVE  Untouched'
<1> USE DEF IInv
<1> SUFFICES ASSUME NEW c \in Checkouts, \A v \in Workers : c \notin Slice(v), NEW t \in TestsOf(c)
             PROVE  result'[c][t] = 0 /\ coverage'[c][t] = None
  BY Zenon DEF Untouched, HasResult, HasCoverage
<1>1. result[c][t] = 0 /\ coverage[c][t] = None
  BY Zenon DEF Untouched, HasResult, HasCoverage
<1>2. Running(w) => at[w].c # c
  BY PlaceRanges, Zenon
<1>3. CASE SaveResult(w)
  <2>1. /\ at[w].c # c /\ coverage' = coverage
        /\ result' = [result EXCEPT ![at[w].c][Test(w)] = at[w].c]
    BY <1>2, <1>3, SavedAndFetched, ZenonT(60) DEF SaveResult, Running, Stopped
  <2>2. result'[c] = result[c]
    BY <2>1, Zenon DEF TypeOK
  <2> QED
    BY <1>1, <2>1, <2>2, Zenon
<1>4. CASE FetchCoverage(w)
  <2>1. /\ at[w].c # c /\ result' = result
        /\ coverage' = coverage \/ coverage' = [coverage EXCEPT ![at[w].c][Test(w)] =
                                                  [kernel |-> at[w].c, ran |-> {Test(w)}]]
    BY <1>2, <1>4, SavedAndFetched, ZenonT(60) DEF FetchCoverage, Running, Stopped
  <2>2. coverage'[c] = coverage[c]
    BY <2>1, Zenon DEF TypeOK
  <2> QED
    BY <1>1, <2>1, <2>2, Zenon
<1>5. CASE ~ SaveResult(w) /\ ~ FetchCoverage(w)
  BY <1>1, <1>5, FilesUnchanged, Zenon
<1> QED
  BY <1>3, <1>4, <1>5, Zenon

-----------------------------------------------------------------------------
\* Init establishes the invariant.
LEMMA InitSInv == Init => SInv
<1> SUFFICES ASSUME Init PROVE SInv
  BY Zenon
<1>1. \A w \in Workers : pc[w] = "idle"
  BY Zenon DEF Init
<1>2. Spent
  <2>1. MaxCrashes \in Nat /\ MaxFails \in Nat
    BY ConstantsAssumption, Zenon
  <2>2. budget.crashes = MaxCrashes /\ budget.fails = MaxFails
    BY Zenon DEF Init
  <2> QED
    BY <2>1, <2>2 DEF Spent
<1>3. Untouched
  <2>1. \A c \in Checkouts : \A t \in TestsOf(c) : result[c][t] = 0 /\ coverage[c][t] = None
    BY Zenon DEF Init
  <2> QED
    BY <2>1, Zenon DEF Untouched, HasResult, HasCoverage
<1>4. \A w \in Workers : HealthyOf(w) /\ DoneOf(w)
  BY <1>1, Zenon DEF HealthyOf, DoneOf, Booted, InTests, Running, Stopped
<1> QED
  BY <1>2, <1>3, <1>4, Zenon DEF SInv

\* Every step keeps it.
LEMMA NextSInv == IInv /\ SInv /\ [Next]_vars => SInv'
<1>1. ASSUME IInv, SInv, Next PROVE SInv'
  <2>1. PICK w \in Workers : Work(w) \/ Start(w) \/ Crash(w) \/ CloseVM(w)
    BY <1>1, Zenon DEF Next
  <2>2. Step(w)
    BY <2>1, Zenon DEF Step, Work, Prepare, UseMachine, TestLoop, Outside
  <2>3. Spent' /\ (Full' => Full /\ ~ Fails(w) /\ ~ Crash(w))
    BY <1>1, <2>2, StaysFull, Zenon DEF IInv, SInv
  <2>4. Untouched'
    BY <1>1, <2>2, StepUntouched, Zenon DEF SInv
  <2>5. ASSUME Full', NEW v \in Workers PROVE HealthyOf(v)' /\ DoneOf(v)'
    BY <1>1, <2>2, <2>3, <2>5, StepHealthy, StepDone, Zenon DEF SInv
  <2> QED
    BY <2>3, <2>4, <2>5, Zenon DEF SInv
<1>2. ASSUME IInv, SInv, UNCHANGED vars PROVE SInv'
  <2>0. /\ pc' = pc /\ at' = at /\ vm' = vm /\ disk' = disk
        /\ result' = result /\ coverage' = coverage /\ budget' = budget
    BY <1>2, Zenon DEF vars
  <2>1. Spent' /\ Untouched' /\ (Full' => Full)
    <3>1. Spent /\ Untouched
      BY <1>2, Zenon DEF SInv
    <3> QED
      BY <2>0, <3>1, ZenonT(60) DEF Spent, Untouched, Full, HasResult, HasCoverage
  <2>2. ASSUME NEW v \in Workers, HealthyOf(v) PROVE HealthyOf(v)'
    BY <2>0, <2>2, ZenonT(60) DEF HealthyOf, Booted, InTests
  <2>3. ASSUME NEW v \in Workers, DoneOf(v) PROVE DoneOf(v)'
    BY <2>0, <2>3, ZenonT(60)
       DEF DoneOf, Running, CheckoutDone, BuildsDone, TestsDone, Settled, HasResult, HasCoverage
  <2> QED
    BY <1>2, <2>1, <2>2, <2>3, Zenon DEF SInv
<1> QED
  BY <1>1, <1>2, Zenon

\* A checkout that is done has the files of all its tests.
LEMMA DoneSettles ==
  ASSUME NEW c \in Checkouts, CheckoutDone(c), NEW t \in TestsOf(c)
  PROVE  Settled(c, t)
<1>1. PICK b \in DOMAIN Builds[c] : t \in {Builds[c][b][k] : k \in DOMAIN Builds[c][b]}
  BY Zenon DEF TestsOf
<1>2. PICK k \in DOMAIN Builds[c][b] : t = Builds[c][b][k]
  BY <1>1, Zenon
<1>3. Builds[c] \in Seq(Seq(TestsOf(c)))
  BY ConstantsAssumption, Zenon
<1>4. \A T : \A s \in Seq(T) : DOMAIN s = 1 .. Len(s) /\ \A i \in DOMAIN s : s[i] \in T
  OBVIOUS
<1>5. b \in 1 .. Len(Builds[c]) /\ Builds[c][b] \in Seq(TestsOf(c))
  BY <1>3, <1>4, Zenon
<1>6. k \in 1 .. Len(Builds[c][b])
  BY <1>2, <1>4, <1>5, Zenon
<1> QED
  BY <1>2, <1>5, <1>6, Zenon DEF CheckoutDone, BuildsDone, TestsDone

\* The workers of reproduce_ltp_testcase.py leave no test of their slices out
\* when nothing failed, and the slices leave out the remainder of the division
\* by vmnum.
THEOREM SlicesComplete == Spec => []SlicesReproduced
<1>1. ASSUME IInv, SInv PROVE SlicesReproduced
  <2> SUFFICES ASSUME \A w \in Workers : pc[w] = "finished",
                      budget = [crashes |-> MaxCrashes, fails |-> MaxFails],
                      NEW c \in Checkouts, NEW t \in TestsOf(c) \ (Excluded \cup Unsupported)
               PROVE  IF c =< NumCheckouts - (NumCheckouts % vmnum)
                      THEN HasResult(c, t) /\ HasCoverage(c, t)
                      ELSE ~ HasResult(c, t) /\ ~ HasCoverage(c, t)
    BY Zenon DEF SlicesReproduced
  <2>1. CASE \E w \in Workers : c \in Slice(w)
    <3>1. Full
      BY Zenon DEF Full
    <3>2. CheckoutDone(c)
      BY <1>1, <2>1, <3>1, Zenon DEF SInv, DoneOf
    <3>3. Settled(c, t)
      BY <3>2, DoneSettles, Zenon
    <3> QED
      BY <2>1, <3>3, SlicesCover, Zenon DEF Settled
  <2>2. CASE ~ \E w \in Workers : c \in Slice(w)
    BY <1>1, <2>2, SlicesCover, Zenon DEF SInv, Untouched
  <2> QED
    BY <2>1, <2>2, Zenon
<1>2. Spec => []SInv
  BY InitSInv, NextSInv, Invariant, PTL DEF Spec
<1> QED
  BY <1>1, <1>2, Invariant, PTL
=============================================================================
