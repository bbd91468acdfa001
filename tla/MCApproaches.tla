--------------------------- MODULE MCApproaches ----------------------------
(***************************************************************************)
(* One checkout handed to one of the three approaches that order the list  *)
(* of its files: adaptive random (ARP), hashing (FAST), call graphs        *)
(* (CGStrategy).  part names the approach; the others stand still.         *)
(*                                                                         *)
(* ARP: four test cases over three paths (so some share a path), samples   *)
(* of two cases, two distances: samples smaller than, equal to and larger  *)
(* than what is left all occur, and so do ties and paths without a         *)
(* distance.  FAST: three test cases over three paths, two tokens, two     *)
(* bands of one row (FAST_main has ten bands of one row).  CGStrategy: up  *)
(* to three test cases of three files, any two methods related to each.    *)
(***************************************************************************)
EXTENDS ARP, FAST, CGStrategy, SequencesExt

VARIABLE part

\* A path is at distance 0 of itself; the metrics need not be symmetric.
MCMetrics ==
  {m \in [Name \X Name -> 0 .. 2] :
     \A pair \in Name \X Name : m[pair] = 0 <=> pair[1] = pair[2]}

\* The paths in one order, and a list with a path twice.
MCLists ==
  LET paths == SetToSeq(Path)
  IN  {[c \in 0 .. 2 |-> paths[c + 1]], [c \in 0 .. 2 |-> paths[IF c = 2 THEN 1 ELSE c + 1]]}

\* All pairs of orders of the tokens; the first one has one of them in front,
\* and which one does not matter as the texts are any.
MCHashes ==
  LET Order == {f \in [Token \cup {Nil} -> 1 .. 3] :
                  \A s, t \in Token \cup {Nil} : f[s] = f[t] => s = t}
      front == CHOOSE t \in Token : TRUE
  IN  {f \in [1 .. 2 -> Order] : \A t \in Token : f[1][front] =< f[1][t]}

ASSUME ApproachParameters == Parameters /\ FastParameters /\ CGAssumption

ArpStands ==
  /\ test_cases = [c \in Cases |-> CHOOSE x \in Name : TRUE] /\ distance_global_map = << >>
  /\ prioritized_list = << >> /\ idx_list = Cases /\ idx_list_len = 0
  /\ k = K /\ pc = "start"

FastStands ==
  /\ f_test_cases = [c \in FastCases |-> CHOOSE x \in Path : TRUE] /\ text = [x \in Path |-> {}]
  /\ hash = CHOOSE f \in MCHashes : TRUE
  /\ idx = 0 /\ lsh = {} /\ f_prioritized_list = << >> /\ selected_set = {}
  /\ Mv = << >> /\ f_pc = "insert"

CgStands ==
  /\ names = << >> /\ fails = {} /\ stragety = "total" /\ TA_tmp = [x \in FilePath |-> {}]
  /\ cg_test_cases = << >> /\ slide_set = {} /\ sorted_list = << >>
  /\ apfd = <<0, 1>> /\ cg_pc = "prioritise"

MCInit ==
  \/ part = "arp" /\ Init /\ FastStands /\ CgStands
  \/ part = "fast" /\ f_test_cases \in MCLists /\ FastInit /\ ArpStands /\ CgStands
  \/ part = "cg" /\ CgInit /\ ArpStands /\ FastStands

MCNext ==
  /\ \/ part = "arp" /\ Next /\ UNCHANGED <<fast_vars, cg_vars>>
     \/ part = "fast" /\ FastNext /\ UNCHANGED <<vars, cg_vars>>
     \/ part = "cg" /\ CgNext /\ UNCHANGED <<vars, fast_vars>>
  /\ UNCHANGED part

mcvars == <<part, vars, fast_vars, cg_vars>>

\* One run of the function: it executes until it returns.
MCSpec == MCInit /\ [][MCNext]_mcvars /\ WF_mcvars(MCNext)

-----------------------------------------------------------------------------
\* A list that the approach orders position by position: any for ARP; one of
\* distinct files for FAST, which raises otherwise, and for the additional
\* strategy, which repeats the last position of a file.
Accepted ==
  \/ part = "arp"
  \/ part = "fast" /\ Distinct
  \/ part = "cg" /\ stragety = "additional" /\ DistinctFiles

Orders == [arp |-> prioritized_list, fast |-> f_prioritized_list, cg |-> sorted_list]
Sizes == [arp |-> N, fast |-> FastN, cg |-> Len(names)]

Abstract == INSTANCE Prioritizer WITH
  n <- IF Accepted THEN Sizes[part] ELSE 0,
  order <- IF Accepted THEN Orders[part] ELSE << >>

\* Each of ARP, FAST and the additional strategy implements the contract of a
\* prioritisation approach: every step emits a position of the checkout that
\* was not emitted before, and all positions are emitted.
ApproachesImplementPrioritizer == Abstract!Spec
=============================================================================
