--------------------------- MODULE MCExperiments ---------------------------
(***************************************************************************)
(* The two experiments that walk through the versions of the data set,     *)
(* history_main.py (History) and ir_main.py (IR), and the call graphs that *)
(* are loaded again for every version (CallGraph).  part names the one     *)
(* that runs; the others stand still.                                      *)
(*                                                                         *)
(* History: two files, up to four versions, all results; the doubles are   *)
(* decimal numbers of two digits, so that differences get lost by rounding *)
(* within the four versions.  IR: see MCIR.  CallGraph: see MCCallGraph.   *)
(***************************************************************************)
EXTENDS MCIR, History, MCCallGraph

VARIABLE part

ASSUME HistoryParameters == HistoryAssumption

\* alpha = 0.9 with hundredths for doubles.
MCFade == [x \in Double |-> (x + 5) \div 10]
MCAddAlpha == [x \in Double |-> IF x =< 10 THEN 90 + x ELSE 100]

IRStands ==
  /\ exp = [history |-> 0, versions |-> << >>, text |-> [x \in File |-> {}]]
  /\ m = Empty /\ token_file = Absent /\ tf = << >> /\ idf = Empty
  /\ ci_index = 1 /\ token_arr = << >> /\ order_arr = Empty
  /\ pc = "idle" /\ crashes = 0

HistoryStands ==
  /\ versions = << >>
  /\ last_failure_time = Empty /\ last_executed_time = Empty
  /\ failed_count = Empty /\ executed_count = Empty
  /\ exd_value = Empty /\ rocket_value = Empty
  /\ i = 1 /\ his_arr = << >> /\ faults_arr = << >> /\ h_pc = "extract"

GraphStands == GraphInit /\ format = "cg"

MCInit ==
  \/ part = "ir" /\ Init /\ HistoryStands /\ GraphStands
  \/ part = "history" /\ HistoryInit /\ IRStands /\ GraphStands
  \/ part = "call_graph" /\ GraphInit /\ IRStands /\ HistoryStands

MCNext ==
  /\ \/ part = "ir" /\ Next /\ UNCHANGED <<history_vars, graph_vars>>
     \/ part = "history" /\ HistoryNext /\ UNCHANGED <<vars, graph_vars>>
     \/ part = "call_graph" /\ GraphNext /\ UNCHANGED <<vars, history_vars>>
  /\ UNCHANGED part

\* The fairness of CallGraph alone.
MCSpec ==
  /\ MCInit /\ [][MCNext]_<<part, vars, history_vars, graph_vars>>
  /\ WF_<<part, vars, history_vars, graph_vars>>(
       /\ part = "call_graph" /\ (LoadEntry \/ Loaded \/ Visit \/ ReturnWalk)
       /\ UNCHANGED <<part, vars, history_vars>>)
=============================================================================
