------------------------------ MODULE TCResult ------------------------------
(***************************************************************************)
(* liebes/ltp_result.py: TCResult.create on the log of an LTP test case.   *)
(* parse_ltp_log cuts the log into the blocks between <<<test_start>>> and *)
(* <<<test_end>>>, and create_sub_result counts the results of each block: *)
(* by its summary if it has one, else by the lines that say TPASS, TFAIL   *)
(* or TBROK.                                                               *)
(*                                                                         *)
(* A line is [word, count]: a marker, a result word, or a line of the      *)
(* summary ("passed 3") with its count.  Left out: the command line, the   *)
(* durations, and the logs of selftests, where the numbers of one line     *)
(* are added up.                                                           *)
(***************************************************************************)
EXTENDS Naturals, Sequences, FiniteSets, FiniteSetsExt, Functions

CONSTANT Logs

\* The words that a summary counts, and a line of a log.
Summary == {"passed", "failed", "broken", "skipped", "warnings"}
LogLine ==
  [word : {"test_start", "test_end", "TPASS", "TFAIL", "TBROK", "other"} \cup Summary,
   count : Nat]

LogsAssumption == Logs \subseteq Seq(LogLine)

VARIABLES
  log_content,
  line_no,            \* the next line
  start_extracted,
  extracted_content,  \* Unbound until a test starts
  sub_blocks,
  items,              \* the counts of the blocks
  log_pc

log_vars == <<log_content, line_no, start_extracted, extracted_content, sub_blocks, items, log_pc>>

Unbound == [bound |-> FALSE, lines |-> << >>]
Content(lines) == [bound |-> TRUE, lines |-> lines]

LogInit ==
  /\ log_content \in Logs
  /\ line_no = 1 /\ start_extracted = FALSE /\ extracted_content = Unbound
  /\ sub_blocks = << >> /\ items = << >>
  /\ log_pc = "lines"

Line == log_content[line_no]

\* Mutant: a test start keeps what was extracted before.
Extracted_Kept ==
  IF extracted_content.bound THEN Content(Append(extracted_content.lines, Line))
  ELSE IF Line.word = "test_start" THEN Content(<< >>)
  ELSE extracted_content

\* What extracted_content is after a line.
Extracted ==
  IF Line.word = "test_start" THEN Content(<< >>)
  ELSE IF start_extracted THEN Content(Append(extracted_content.lines, Line))
  ELSE extracted_content

\* The end of a test before the first start reads an unbound variable.
ReadLine ==
  /\ log_pc = "lines" /\ line_no =< Len(log_content)
  /\ line_no' = line_no + 1
  /\ extracted_content' = Extracted
  /\ start_extracted' = (Line.word = "test_start" \/ (start_extracted /\ Line.word # "test_end"))
  /\ IF Line.word = "test_end"
     THEN IF extracted_content'.bound
          THEN sub_blocks' = Append(sub_blocks, extracted_content'.lines) /\ UNCHANGED log_pc
          ELSE log_pc' = "raised" /\ UNCHANGED sub_blocks
     ELSE UNCHANGED <<sub_blocks, log_pc>>
  /\ UNCHANGED <<log_content, items>>

\* The lines of a block with a word.
With(block, words) == {k \in DOMAIN block : block[k].word \in words}

\* The last summary line with the word, 0 without one; without any summary
\* line the number of lines with the result.
Count(block, word, result) ==
  IF With(block, Summary) = {} THEN Cardinality(With(block, {result}))
  ELSE IF With(block, {word}) = {} THEN 0
  ELSE block[Max(With(block, {word}))].count

create_sub_result(block) ==
  [pass_cnt   |-> Count(block, "passed", "TPASS"),
   fail_cnt   |-> Count(block, "failed", "TFAIL"),
   broken_cnt |-> Count(block, "broken", "TBROK")]

Return ==
  /\ log_pc = "lines" /\ line_no > Len(log_content)
  /\ items' = [b \in DOMAIN sub_blocks |-> create_sub_result(sub_blocks[b])]
  /\ log_pc' = "done"
  /\ UNCHANGED <<log_content, line_no, start_extracted, extracted_content, sub_blocks>>

LogNext == ReadLine \/ Return

LogSpec == LogInit /\ [][LogNext]_log_vars

total_pass_cnt == SumFunction([b \in DOMAIN items |-> items[b].pass_cnt])
total_failed_cnt == SumFunction([b \in DOMAIN items |-> items[b].fail_cnt])
total_broken_cnt == SumFunction([b \in DOMAIN items |-> items[b].broken_cnt])

-----------------------------------------------------------------------------
Markers(words) == {k \in DOMAIN log_content : log_content[k].word \in words}

\* The tests that the log shows from start to end: the two positions.
Finished ==
  {run \in Markers({"test_start"}) \X Markers({"test_end"}) :
     /\ run[1] < run[2]
     /\ Markers({"test_start", "test_end"}) \cap (run[1] + 1 .. run[2] - 1) = {}}

\* Every end belongs to a start.
EndsMatched == \A e \in Markers({"test_end"}) : \E s \in DOMAIN log_content : <<s, e>> \in Finished

\* In the log positions a to b: the lines that say a result.
Says(a, b, result) == {k \in a .. b : log_content[k].word = result}

\* Of a log that was cut short or restarted anywhere, but in which every end
\* has its start, TCResult counts a failure iff a finished test had one: its
\* summary says so last, or it has no summary and a line says so.  What lies
\* outside of finished tests does not count.
FailuresOfFinishedTests ==
  log_pc = "done" /\ EndsMatched =>
    /\ Len(items) = Cardinality(Finished)
    /\ total_failed_cnt > 0 <=>
         \E run \in Finished :
           LET s == run[1]
               e == run[2]
               summary == {k \in s .. e : log_content[k].word \in Summary}
               failed  == Says(s, e, "failed")
           IN  \/ summary = {} /\ Says(s, e, "TFAIL") # {}
               \/ \E k \in failed : log_content[k].count > 0 /\ \A x \in failed : x =< k
=============================================================================
