-------------------------------- MODULE ARP --------------------------------
(***************************************************************************)
(* Adaptive random prioritisation, liebes/tcp_approach/                    *)
(* adaptive_random_prior.py.  The first test case is drawn at random; then *)
(* the loop draws a sample of k unprioritised cases and emits the one that *)
(* is farthest (largest minimal distance) from what was emitted before.    *)
(*                                                                         *)
(* random.sample returns its sample in random order, so the first maximum  *)
(* of the sample may be any of its maxima, and the lists idx_list and      *)
(* candidate_list are modelled by sets.                                    *)
(***************************************************************************)
EXTENDS Naturals, Sequences, FiniteSets, FiniteSetsExt, Functions

CONSTANTS
  N,          \* number of test cases of the checkout
  K,          \* the sample size the caller passes as k
  Name,       \* paths of test files
  Metrics     \* the distance metrics, pair of paths -> distance

\* Every caller skips a checkout without faults, so there is a test case.
Parameters ==
  /\ N \in Nat \ {0} /\ K \in Nat \ {0}
  /\ Metrics \subseteq [Name \X Name -> Nat]

Cases == 0 .. N - 1

VARIABLES
  test_cases,          \* argument: position -> path, repetitions allowed
  distance_global_map, \* the distance map load_map read, pair of paths -> distance
  prioritized_list,    \* result under construction
  idx_list,            \* positions not prioritised yet
  idx_list_len,        \* the counter that controls the loop
  k,                   \* sample size, shrunk by the loop
  pc                   \* "start", "loop" or "done"

vars == <<test_cases, distance_global_map, prioritized_list, idx_list,
          idx_list_len, k, pc>>

-----------------------------------------------------------------------------
(***************************************************************************)
(* get_distance_map: all pairs of existing files of the list, a pair whose *)
(* mirror image is already in the map takes the mirrored value.  The       *)
(* metric (normalised compression, for one) need not be symmetric.         *)
(***************************************************************************)
get_distance_map(files, exists, metric) ==
  LET listed == {f \in Range(files) : f \in exists}
      at(f)  == CHOOSE i \in DOMAIN files : files[i] = f
  IN  [pair \in listed \X listed |->
         IF at(pair[2]) < at(pair[1])
         THEN metric[<<pair[2], pair[1]>>]
         ELSE metric[pair]]

\* The distance the loop uses: the map, the mirrored map, or 10000.
Missing == 10000

Distance(p_idx, candidate_idx) ==
  LET pt        == test_cases[p_idx]
      candidate == test_cases[candidate_idx]
      m         == distance_global_map
  IN  IF <<pt, candidate>> \in DOMAIN m THEN m[<<pt, candidate>>]
      ELSE IF <<candidate, pt>> \in DOMAIN m THEN m[<<candidate, pt>>]
      ELSE Missing

\* np.min(d, axis=0): distance of a candidate to the nearest prioritised case.
Neighbour(c) ==
  Min({Distance(prioritized_list[j], c) : j \in DOMAIN prioritized_list})

\* Mutant: min(neighbours) for max(neighbours).
Farthest_Nearest(S) == {c \in S : \A d \in S : Neighbour(c) =< Neighbour(d)}

\* candidate_list[neighbours.index(max(neighbours))], in a random list order.
Farthest(S) == {c \in S : \A d \in S : Neighbour(c) >= Neighbour(d)}

-----------------------------------------------------------------------------
DistanceMaps ==
  {get_distance_map(files, exists, metric) :
     files \in Bijection(1 .. Cardinality(Name), Name), exists \in SUBSET Name, metric \in Metrics}

Init ==
  /\ test_cases \in [Cases -> Name]
  /\ distance_global_map \in DistanceMaps
  /\ prioritized_list = << >>
  /\ idx_list = Cases
  /\ idx_list_len = 0
  /\ k = K
  /\ pc = "start"

\* Mutant: the first position stays a candidate.
ChooseFirst_KeepsCandidate(first_idx) ==
  /\ pc = "start"
  /\ first_idx \in idx_list
  /\ prioritized_list' = Append(prioritized_list, first_idx)
  /\ idx_list_len' = Cardinality(idx_list)
  /\ pc' = "loop"
  /\ UNCHANGED <<test_cases, distance_global_map, idx_list, k>>

ChooseFirst(first_idx) ==
  /\ pc = "start"
  /\ first_idx \in idx_list
  /\ prioritized_list' = Append(prioritized_list, first_idx)
  /\ idx_list' = idx_list \ {first_idx}
  /\ idx_list_len' = Cardinality(idx_list')
  /\ pc' = "loop"
  /\ UNCHANGED <<test_cases, distance_global_map, k>>

ShrunkK == IF idx_list_len < k THEN idx_list_len ELSE k

\* Mutant: the chosen position stays a candidate.
PickNext_KeepsCandidate(next_pt_idx) ==
  /\ pc = "loop"
  /\ idx_list_len # 0
  /\ k' = ShrunkK
  /\ \E candidate_list \in kSubset(k', idx_list) :
        next_pt_idx \in Farthest(candidate_list)
  /\ prioritized_list' = Append(prioritized_list, next_pt_idx)
  /\ idx_list_len' = idx_list_len - 1
  /\ UNCHANGED <<test_cases, distance_global_map, idx_list, pc>>

PickNext(next_pt_idx) ==
  /\ pc = "loop"
  /\ idx_list_len # 0
  /\ k' = ShrunkK
  /\ \E candidate_list \in kSubset(k', idx_list) :
        next_pt_idx \in Farthest(candidate_list)
  /\ prioritized_list' = Append(prioritized_list, next_pt_idx)
  /\ idx_list' = idx_list \ {next_pt_idx}
  /\ idx_list_len' = idx_list_len - 1
  /\ UNCHANGED <<test_cases, distance_global_map, pc>>

Return ==
  /\ pc = "loop"
  /\ idx_list_len = 0
  /\ pc' = "done"
  /\ UNCHANGED <<test_cases, distance_global_map, prioritized_list, idx_list,
                 idx_list_len, k>>

Next ==
  \/ \E c \in Cases : ChooseFirst(c) \/ PickNext(c)
  \/ Return

\* One run of the function: it executes until it returns.
Spec == Init /\ [][Next]_vars /\ WF_vars(Next)

-----------------------------------------------------------------------------
\* Types of the arguments and of the loop's variables.
TypeOK ==
  /\ test_cases \in [Cases -> Name]
  /\ prioritized_list \in Seq(Cases)
  /\ idx_list \subseteq Cases
  /\ idx_list_len \in Nat
  /\ k \in Nat
  /\ pc \in {"start", "loop", "done"}

\* The loop of ARP never loses and never repeats a test case: what is emitted
\* and what is left split the positions of the checkout, without repetition,
\* and the counter idx_list_len that ends the loop counts what is left.
Partition ==
  /\ \A i, j \in DOMAIN prioritized_list :
        prioritized_list[i] = prioritized_list[j] => i = j
  /\ idx_list = Cases \ {prioritized_list[i] : i \in DOMAIN prioritized_list}
  /\ pc # "start" => idx_list_len = Cardinality(idx_list)

\* Minimal distance of c to what was emitted before position j.
NeighbourAt(j, c) ==
  Min({Distance(prioritized_list[i], c) : i \in 1 .. (j - 1)})

\* Each case ARP emits after the first one was the farthest of a sample of
\* min(K, remaining) cases: so many of the cases emitted later (or still
\* waiting) were no farther away when it was chosen.
PickBeatsSample ==
  \A j \in 2 .. Len(prioritized_list) :
    LET later == Cases \ {prioritized_list[i] : i \in 1 .. j}
    IN  Cardinality({c \in later : NeighbourAt(j, c)
                                     =< NeighbourAt(j, prioritized_list[j])})
          >= Min({K, N - (j - 1)}) - 1

\* ARP implements the contract of a prioritisation approach: every step
\* emits a position not emitted before, and all positions are emitted.
P == INSTANCE Prioritizer WITH n <- N, order <- prioritized_list
ImplementsPrioritizer == P!Spec
=============================================================================
