---------------------------- MODULE MCAnalysis -----------------------------
(***************************************************************************)
(* The sequential and threaded parts that prepare the data: the pipeline   *)
(* of jobs (CIAnalysis on the databases of CIData), its two loops with a   *)
(* memory (CaseLoops, see MCCaseLoops), the logs of reproduced tests       *)
(* (TCResult) and the diff of a version (DiffBlocks).  part names the one  *)
(* that runs; the others stand still.                                      *)
(*                                                                         *)
(* TCResult: all logs of at most five lines.  DiffBlocks: all outputs of   *)
(* ndiff of at most seven lines.                                           *)
(***************************************************************************)
EXTENDS MCCaseLoops, CIAnalysis, CIData, TCResult, DiffBlocks

VARIABLE part

ASSUME CIBounds == BoundsAssumption

LineOf(word, count) == [word |-> word, count |-> count]
MCLogs ==
  BoundedSeq({LineOf(word, 0) : word \in {"test_start", "test_end", "TFAIL", "TPASS"}}
               \cup {LineOf("failed", 0), LineOf("failed", 1), LineOf("passed", 1)}, 5)

ASSUME LogsOfLines == LogsAssumption

\* A hint follows a changed line.
MCDeltas ==
  {s \in BoundedSeq({"removed", "added", "common", "hint"}, 7) :
     \A x \in DOMAIN s : s[x] = "hint" => x > 1 /\ s[x - 1] \in {"removed", "added"}}

ASSUME DeltasOfNdiff == DeltasAssumption

LoopsStand ==
  /\ tests = << >> /\ loop = "filter" /\ filter_pos = 1 /\ acc = [failing |-> {}, kept |-> {}]
  /\ combine_pos = 1 /\ combined = [status_m |-> << >>, first |-> {}]

CIStands ==
  /\ ci_objs = << >> /\ test_case_status_map = None /\ db = << >> /\ plan = << >>
  /\ next = 1 /\ todo = {} /\ failed_chunks = {} /\ before = << >> /\ ci_pc = "idle"

LogStands ==
  /\ log_content = << >> /\ line_no = 1 /\ start_extracted = FALSE
  /\ extracted_content = << >> /\ sub_blocks = << >> /\ items = << >> /\ log_pc = "lines"

DiffStands ==
  /\ diff_lines = << >> /\ line_idx = 1 /\ original_line_number = 0 /\ modified_line_number = 0
  /\ diff = << >> /\ idx = 2 /\ prev_idx = 1 /\ diff_list = << >> /\ diff_pc = "number"

MCInit ==
  \/ part = "loops" /\ LoopInit /\ CIStands /\ LogStands /\ DiffStands
  \/ part = "ci" /\ CiInit /\ LoopsStand /\ LogStands /\ DiffStands
  \/ part = "log" /\ LogInit /\ LoopsStand /\ CIStands /\ DiffStands
  \/ part = "diff" /\ DiffInit /\ LoopsStand /\ CIStands /\ LogStands

MCNext ==
  /\ \/ part = "loops" /\ LoopNext /\ UNCHANGED <<ci_vars, log_vars, diff_vars>>
     \/ part = "ci" /\ CiNext /\ UNCHANGED <<loop_vars, log_vars, diff_vars>>
     \/ part = "log" /\ LogNext /\ UNCHANGED <<loop_vars, ci_vars, diff_vars>>
     \/ part = "diff" /\ DiffNext /\ UNCHANGED <<loop_vars, ci_vars, log_vars>>
  /\ UNCHANGED part

MCSpec == MCInit /\ [][MCNext]_<<part, loop_vars, ci_vars, log_vars, diff_vars>>
=============================================================================
