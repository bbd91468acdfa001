-------------------------------- MODULE FAST -------------------------------
(***************************************************************************)
(* Prioritisation by locality-sensitive hashing, liebes/tcp_approach/      *)
(* FAST.py: one call of FAST on the files of a checkout.                   *)
(*                                                                         *)
(* MinHash and MinHashLSH (datasketch) are external.  A signature has, for *)
(* each of the h hash functions, the smallest hash of a token of the text; *)
(* jaccard is the share of components on which two signatures agree; union *)
(* is the component-wise minimum; a key of the index is found when it has  *)
(* the same components as the query in all rows of some band.              *)
(***************************************************************************)
EXTENDS Naturals, Sequences, FiniteSets, FiniteSetsExt

CONSTANTS
  FastN,    \* number of test cases of the checkout
  Path,     \* file paths
  Token,    \* tokens of test files
  Nil,      \* the token b'', with which the loop starts
  bands, rows,
  Hashes    \* the hash functions: 1 .. bands * rows -> [Token \cup {Nil} -> Nat]

h == bands * rows
MaxHash == Cardinality(Token) + 2

\* FAST exits unless bands * rows = h; the hash functions do not collide on
\* the tokens.
FastParameters ==
  /\ FastN \in Nat \ {0} /\ bands \in Nat \ {0} /\ rows \in Nat \ {0}
  /\ IsFiniteSet(Token) /\ Nil \notin Token
  /\ \A hash \in Hashes : \A i \in 1 .. h :
       /\ hash[i] \in [Token \cup {Nil} -> 1 .. MaxHash - 1]
       /\ \A s, t \in Token \cup {Nil} : hash[i][s] = hash[i][t] => s = t

VARIABLES
  f_test_cases,      \* argument: position -> path
  text,              \* the tokens of every file, none when it does not exist
  hash,
  idx,               \* the insertion loop's position
  lsh,               \* keys of the index
  f_prioritized_list,
  selected_set,
  Mv,                \* signature of what was emitted
  f_pc               \* "insert", "loop", "done", or "raised"

fast_vars == <<f_test_cases, text, hash, idx, lsh, f_prioritized_list, selected_set, Mv, f_pc>>
fast_input == <<f_test_cases, text, hash>>

FastCases == 0 .. FastN - 1

-----------------------------------------------------------------------------
MHSignature(words) ==
  [i \in 1 .. h |-> Min({hash[i][t] : t \in words} \cup {MaxHash})]

\* mh_map: the signature of a file.
mh_map(name) == MHSignature(text[name])

\* Mutant: the signature of what was emitted before is forgotten.
union_Last(s, t) == t

union(s, t) == [i \in 1 .. h |-> Min({s[i], t[i]})]

jaccard(s, t) == Cardinality({i \in 1 .. h : s[i] = t[i]})

InBucket(s, t) ==
  \E b \in 0 .. bands - 1 : \A r \in 1 .. rows : s[b * rows + r] = t[b * rows + r]

query(s) == {name \in lsh : InBucket(s, mh_map(name))}

Start == MHSignature({Nil})

FastInit ==
  /\ f_test_cases \in [FastCases -> Path]
  /\ text \in [Path -> SUBSET Token]
  /\ hash \in Hashes
  /\ idx = 0
  /\ lsh = {}
  /\ f_prioritized_list = << >>
  /\ selected_set = {}
  /\ Mv = << >>
  /\ f_pc = "insert"

\* One file is put into the index, which refuses a key that it has.
Insert ==
  /\ f_pc = "insert" /\ idx < FastN
  /\ IF f_test_cases[idx] \in lsh
     THEN f_pc' = "raised" /\ UNCHANGED <<idx, lsh>>
     ELSE lsh' = lsh \cup {f_test_cases[idx]} /\ idx' = idx + 1 /\ UNCHANGED f_pc
  /\ UNCHANGED <<fast_input, f_prioritized_list, selected_set, Mv>>

StartLoop ==
  /\ f_pc = "insert" /\ idx = FastN
  /\ Mv' = Start
  /\ f_pc' = "loop"
  /\ UNCHANGED <<fast_input, idx, lsh, f_prioritized_list, selected_set>>

\* idx_map: the position of a path, the last one if there were several.
idx_map(name) == Max({c \in FastCases : f_test_cases[c] = name})

\* The files outside the buckets, or all that are left.
Candidates(Cs) ==
  LET left == {f_test_cases[c] : c \in FastCases} \ selected_set
  IN  IF left \ Cs = {} THEN left ELSE left \ Cs

\* Select: the first strict maximum in the order of a Python set, so any one
\* of the candidates that are most similar to s.
Select(s, candidate_set) ==
  {x \in candidate_set : \A y \in candidate_set : jaccard(s, mh_map(y)) =< jaccard(s, mh_map(x))}

\* One round of the loop; without a hit Mv starts again.
Pick(candidate) ==
  /\ f_pc = "loop" /\ Len(f_prioritized_list) # FastN
  /\ LET from == IF query(Mv) = {} THEN Start ELSE Mv
     IN  /\ candidate \in Select(from, Candidates(query(from)))
         /\ Mv' = union(from, mh_map(candidate))
  /\ f_prioritized_list' = Append(f_prioritized_list, idx_map(candidate))
  /\ lsh' = lsh \ {candidate}
  /\ selected_set' = selected_set \cup {candidate}
  /\ UNCHANGED <<fast_input, idx, f_pc>>

FastReturn ==
  /\ f_pc = "loop" /\ Len(f_prioritized_list) = FastN
  /\ f_pc' = "done"
  /\ UNCHANGED <<fast_input, idx, lsh, f_prioritized_list, selected_set, Mv>>

FastNext ==
  \/ Insert \/ StartLoop \/ FastReturn
  \/ \E candidate \in Path : Pick(candidate)

FastSpec == FastInit /\ [][FastNext]_fast_vars /\ WF_fast_vars(FastNext)

-----------------------------------------------------------------------------
Distinct == \A c, d \in FastCases : f_test_cases[c] = f_test_cases[d] => c = d

\* The abstract prioritiser is given nothing when a path is listed twice:
\* the call raises, and do_exp goes on with the next checkout.
FastContract ==
  INSTANCE Prioritizer WITH n <- IF Distinct THEN FastN ELSE 0, order <- f_prioritized_list

\* FAST implements the contract of a prioritisation approach on every list
\* of distinct files: each round of its loop emits a new position, and all
\* positions are emitted.
FastImplementsPrioritizer == FastContract!Spec

\* Tokens that count as seen when position i of the order is chosen: those of
\* the files emitted before, from the last point on where no file that was
\* left shared a bucket with them.
TextAt(i) == text[f_test_cases[f_prioritized_list[i]]]
LeftAt(i) == FastCases \ {f_prioritized_list[j] : j \in 1 .. i - 1}
Similar(words, name) == InBucket(MHSignature(words), mh_map(name))
SeenAt[i \in 1 .. FastN] ==
  LET words == IF i = 1 THEN {Nil} ELSE SeenAt[i - 1] \cup TextAt(i - 1)
  IN  IF \E c \in LeftAt(i) : Similar(words, f_test_cases[c]) THEN words ELSE {Nil}

\* The loop of FAST emits a file that hashes like the texts seen so far only
\* when all files that are left do: although it keeps one signature instead
\* of the texts, its choice is the one that the texts would give.
FastNoveltyFirst ==
  \A i \in DOMAIN f_prioritized_list :
    LET seen == SeenAt[i]
    IN  Similar(seen, f_test_cases[f_prioritized_list[i]]) =>
          \A c \in LeftAt(i) : Similar(seen, f_test_cases[c])
=============================================================================
