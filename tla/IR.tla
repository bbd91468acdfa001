--------------------------------- MODULE IR --------------------------------
(***************************************************************************)
(* Prioritisation by information retrieval: do_exp of ir_main.py with the  *)
(* Bm25Model of liebes/ir_model.py.  For one version after the other, the  *)
(* code changes some versions ago are the queries, the files of the tests  *)
(* the corpus, and the tests are ordered by similarity.  The tokens of     *)
(* files are kept in a JSON file that is written again with every new      *)
(* file; the process may be killed in the middle of it.                    *)
(*                                                                         *)
(* A text is the set of its words: what the scores are is abstracted to    *)
(* their sign.  The APFD values computed from the order are left out.      *)
(***************************************************************************)
EXTENDS Integers, Sequences, FiniteSets, FiniteSetsExt, Functions

CONSTANTS
  File,           \* files of test cases
  Word,           \* words of the kernel and of test files
  Lower,          \* str.lower: Word -> Word
  Experiments,    \* [history, versions, text]: argument, cia.ci_objs, contents
  MaxCrashes      \* bound: processes killed

Version == [known : BOOLEAN, tests : Seq(File), fails : SUBSET Nat, code : SUBSET Word]

ExperimentsAssumption ==
  /\ Lower \in [Word -> Word] /\ MaxCrashes \in Nat
  /\ \A e \in Experiments : /\ e.history \in Nat
                            /\ e.versions \in Seq(Version)
                            /\ e.text \in [File -> SUBSET Word]

VARIABLES
  exp,            \* the experiment
  m,              \* file -> words, the tokens known
  token_file,     \* token-AstTokenizer.json: [state, map]
  tf, idf,        \* of the Bm25Model
  ci_index,       \* counted from 0 as in the code
  token_arr,      \* the corpus of the version
  order_arr,      \* the orders returned: version -> positions
  pc,
  crashes

vars == <<exp, m, token_file, tf, idf, ci_index, token_arr, order_arr, pc, crashes>>

Empty == [x \in {} |-> {}]

\* The file does not exist, is cut short, or holds a map.
Absent == [state |-> "absent", map |-> Empty]
Torn == [state |-> "torn", map |-> Empty]
Whole(map) == [state |-> "whole", map |-> map]

Init ==
  /\ exp \in Experiments
  /\ m = Empty
  /\ token_file = Absent
  /\ tf = << >> /\ idf = Empty
  /\ ci_index = 1
  /\ token_arr = << >>
  /\ order_arr = Empty
  /\ pc = "idle"
  /\ crashes = MaxCrashes

-----------------------------------------------------------------------------
\* A list of Python: index -1 is the last element.
At(i) == exp.versions[IF i < 0 THEN Len(exp.versions) + i + 1 ELSE i + 1]

Tests == At(ci_index).tests

\* The versions whose difference is taken for the version at hand.
last_ci_index == ci_index - exp.history - 1
history_index == ci_index - exp.history

\* get_diff_contents: the words on added and removed lines; it raises when
\* the repository does not have one of the commits.
Known(i) == At(i).known
code_changes ==
  LET a == At(last_ci_index).code
      b == At(history_index).code
  IN  (a \ b) \cup (b \ a)

\* A process starts, with a new model; a token file that was cut short does
\* not parse.
StartExp ==
  /\ pc \in {"idle", "killed"}
  /\ IF token_file = Torn
     THEN pc' = "raised" /\ UNCHANGED m
     ELSE m' = token_file.map /\ pc' = "loop"
  /\ tf' = << >> /\ idf' = Empty
  /\ ci_index' = 1
  /\ order_arr' = Empty
  /\ token_arr' = << >>
  /\ UNCHANGED <<exp, token_file, crashes>>

NextVersion == ci_index' = ci_index + 1

Eligible ==
  /\ ci_index >= exp.history
  /\ Known(ci_index)
  /\ At(ci_index).fails # {}

\* The conditions at the top of the loop, and the code changes.
CheckVersion ==
  /\ pc = "loop" /\ ci_index < Len(exp.versions)
  /\ \/ ~ Eligible /\ NextVersion /\ UNCHANGED pc
     \/ /\ Eligible
        /\ ~ (Known(last_ci_index) /\ Known(history_index))
        /\ pc' = "raised" /\ UNCHANGED ci_index
     \/ /\ Eligible
        /\ Known(last_ci_index) /\ Known(history_index)
        /\ IF code_changes = {} THEN NextVersion /\ UNCHANGED pc
           ELSE pc' = "tokens" /\ UNCHANGED ci_index
  /\ token_arr' = << >>
  /\ UNCHANGED <<exp, m, token_file, tf, idf, order_arr, crashes>>

\* get_tokens, join and lower; a file that cannot be read has no tokens.  The
\* words of the queries are not made lower case.
Tokens(file) == {Lower[word] : word \in exp.text[file]}

\* The tokens of the next file: known, or read and put into the map.
\* open("w") empties the token file.
NextFile == Tests[Len(token_arr) + 1]

Tokenise ==
  /\ pc = "tokens" /\ Len(token_arr) < Len(Tests)
  /\ IF NextFile \in DOMAIN m
     THEN /\ token_arr' = Append(token_arr, m[NextFile])
          /\ UNCHANGED <<m, token_file, pc>>
     ELSE /\ token_arr' = Append(token_arr, Tokens(NextFile))
          /\ m' = [f \in DOMAIN m \cup {NextFile} |-> IF f = NextFile THEN Tokens(f) ELSE m[f]]
          /\ token_file' = Torn
          /\ pc' = "dump"
  /\ UNCHANGED <<exp, tf, idf, ci_index, order_arr, crashes>>

\* Mutant: only the entries that the file had before and the last one.
Dumped_Last == [f \in {Tests[Len(token_arr)]} |-> m[f]]

Dumped == m

\* json.dump of the whole map.
Dump ==
  /\ pc = "dump"
  /\ token_file' = Whole(Dumped)
  /\ pc' = "tokens"
  /\ UNCHANGED <<exp, m, tf, idf, ci_index, token_arr, order_arr, crashes>>

-----------------------------------------------------------------------------
(* Bm25Model *)

doc_num == Len(token_arr)
Words(docs) == UNION {docs[j] : j \in DOMAIN docs}
Sign(i) == IF i > 0 THEN 1 ELSE IF i < 0 THEN -1 ELSE 0

\* log((doc_num - df + 0.5) / (df + 0.5)) is positive when less than half of
\* the documents have the word.
IdfOf(word) ==
  LET df == Cardinality({j \in DOMAIN token_arr : word \in token_arr[j]})
  IN  Sign(doc_num - 2 * df)

\* Mutant: the inverse frequencies of earlier corpora are dropped.
NewIdf_Reset == [word \in Words(token_arr) |-> IdfOf(word)]

\* The words of this corpus are written over those of earlier ones.
NewIdf ==
  [word \in DOMAIN idf \cup Words(token_arr) |->
     IF word \in Words(token_arr) THEN IdfOf(word) ELSE idf[word]]

\* init: the term frequencies are appended to those the model has.
Fit ==
  /\ pc = "tokens" /\ Len(token_arr) = Len(Tests)
  /\ tf' = tf \o token_arr
  /\ idf' = NewIdf
  /\ pc' = "score"
  /\ UNCHANGED <<exp, m, token_file, ci_index, token_arr, order_arr, crashes>>

\* get_score: the words of the query that document j is taken to have.
Matched(j) == tf[j] \cap code_changes

\* The sign of the sum, when its terms have the same one.
Signs(j) == {idf[word] : word \in Matched(j)} \ {0}
Above(i, j) ==
  \/ Signs(i) = {1} /\ 1 \notin Signs(j)
  \/ -1 \notin Signs(i) /\ Signs(j) = {-1}

\* np.argsort(...)[::-1], for any scores with these signs.
Sorted ==
  {order \in [DOMAIN token_arr -> DOMAIN token_arr] :
     /\ IsInjective(order)
     /\ \A i, j \in DOMAIN order : i < j => ~ Above(order[j], order[i])}

\* Python divides by the mean length of the documents where a word matches.
DividesByZero ==
  /\ Words(token_arr) = {}
  /\ \E j \in DOMAIN token_arr : Matched(j) # {}

Score ==
  /\ pc = "score"
  /\ IF DividesByZero
     THEN pc' = "raised" /\ UNCHANGED <<order_arr, ci_index>>
     ELSE /\ \E order \in Sorted :
               order_arr' = [v \in DOMAIN order_arr \cup {ci_index} |->
                               IF v = ci_index THEN order ELSE order_arr[v]]
          /\ NextVersion
          /\ pc' = "loop"
  /\ token_arr' = << >>
  /\ UNCHANGED <<exp, m, token_file, tf, idf, crashes>>

Return ==
  /\ pc = "loop" /\ ci_index >= Len(exp.versions)
  /\ pc' = "done"
  /\ UNCHANGED <<exp, m, token_file, tf, idf, ci_index, token_arr, order_arr, crashes>>

Kill ==
  /\ pc \in {"loop", "tokens", "dump", "score"}
  /\ crashes > 0
  /\ crashes' = crashes - 1
  /\ pc' = "killed"
  /\ UNCHANGED <<exp, m, token_file, tf, idf, ci_index, token_arr, order_arr>>

Next == StartExp \/ CheckVersion \/ Tokenise \/ Dump \/ Fit \/ Score \/ Return \/ Kill

Spec == Init /\ [][Next]_vars

-----------------------------------------------------------------------------
\* The token file is what the process has in memory whenever it is not being
\* written, so a process that is killed loses no tokens, or all of them; and
\* what it holds of a file is the file's words in lower case.
TokenFileCurrent ==
  /\ pc \in {"loop", "tokens", "score", "done"} =>
       token_file = IF DOMAIN m = {} THEN Absent ELSE Whole(m)
  /\ pc = "killed" => token_file \in {Absent, Torn, Whole(m)}
  /\ \A f \in DOMAIN m : m[f] = Tokens(f)

\* get_score finds what it looks up, although tf and idf mix the corpora of
\* several versions: a row for every document and, for every word of the
\* query in the row, an inverse frequency.
ScoresDefined ==
  pc = "score" =>
    \A j \in 1 .. doc_num : j \in DOMAIN tf /\ Matched(j) \subseteq DOMAIN idf

\* "the similarity of the i-th query and the j-th corpus": a score of
\* document j comes from words of document j.
ScoresOwnDocument ==
  pc = "score" => \A j \in 1 .. doc_num : Matched(j) \subseteq token_arr[j]

\* ":param commit: previous commit sha, :param to_commit: current commit
\* sha": the version handed to get_diff_contents as the previous one comes
\* before the one handed to it as the current one.
PreviousBeforeCurrent ==
  pc = "tokens" => last_ci_index \in 0 .. history_index - 1
=============================================================================
