---------------------------- MODULE MCCoverage ----------------------------
(***************************************************************************)
(* The two halves of the coverage collection: parse_info makes the .info   *)
(* files (CollectCoverage), load_coverage4checkout reads them              *)
(* (CoverageStore, see MCCoverageStore).  They are separate tasks of the   *)
(* script; part names the one that runs and the other stands still.        *)
(* InfoFromOwnArchive of the first is what the second starts from: the     *)
(* file of a test is raw[t] whenever it is there.                          *)
(*                                                                         *)
(* CollectCoverage: two processes, three versions with up to two archives, *)
(* so that the last process gets more versions than the first.             *)
(***************************************************************************)
EXTENDS MCCoverageStore, CollectCoverage

CONSTANTS v1, v2, v3

VARIABLE part

MCArchives ==
  {[v \in Version |-> CASE v = v1 -> {t1, t2} [] v = v2 -> a [] v = v3 -> b] :
     a \in {{t1}, {t1, t2}}, b \in {{}, {t2}, {t1, t2}}}

ASSUME CollectParameters == CollectAssumption

StoreStands ==
  /\ raw = [t \in Test |-> [files |-> {}, lines |-> {}]]
  /\ info = {} /\ cache = NoCache /\ loaded = << >> /\ coverage_info = << >>
  /\ base_cov = {} /\ candidate = << >> /\ file_list = << >> /\ total_list = << >>
  /\ kills = 0 /\ pc = "idle"

CollectStands ==
  /\ archives = [v \in Version |-> {}] /\ info_files = [v \in Version |-> NoInfo]
  /\ gcda = << >> /\ to_list = << >> /\ queue = << >> /\ listing = << >>
  /\ c_pc = [p \in Process |-> "off"] /\ budget = << >>

MCInit ==
  \/ part = "store" /\ Init /\ CollectStands
  \/ part = "collect" /\ CollectInit /\ StoreStands

MCNext ==
  /\ \/ part = "store" /\ Next /\ UNCHANGED collect_vars
     \/ part = "collect" /\ CollectNext /\ UNCHANGED vars
  /\ UNCHANGED part

MCSpec == MCInit /\ [][MCNext]_<<part, vars, collect_vars>>
=============================================================================
