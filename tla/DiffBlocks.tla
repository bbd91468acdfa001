----------------------------- MODULE DiffBlocks -----------------------------
(***************************************************************************)
(* GitHelper.get_diff_blocks on one modified .c file: the lines of ndiff   *)
(* are numbered in the old and in the new file, and the changed ones are   *)
(* cut into blocks, which become the queries of the retrieval approaches.  *)
(* A line of ndiff is given by what its code says: removed, added, common  *)
(* to both files, or a hint ("?") that follows similar lines.              *)
(*                                                                         *)
(* Left out: the text of the lines, and the function that a block belongs  *)
(* to and those it calls, which come from the C parser.                    *)
(***************************************************************************)
EXTENDS Naturals, Sequences

CONSTANT Deltas    \* what ndiff may say

DeltasAssumption == \A delta \in Deltas : delta \in Seq({"removed", "added", "common", "hint"})

VARIABLES
  diff_lines,
  line_idx,   \* the next of them
  original_line_number, modified_line_number,
  diff,       \* changed lines: number in the old, in the new file, position
  idx, prev_idx,
  diff_list,  \* blocks
  diff_pc

diff_vars == <<diff_lines, line_idx, original_line_number, modified_line_number, diff,
               idx, prev_idx, diff_list, diff_pc>>

DiffInit ==
  /\ diff_lines \in Deltas
  /\ line_idx = 1 /\ original_line_number = 0 /\ modified_line_number = 0
  /\ diff = << >> /\ idx = 2 /\ prev_idx = 1
  /\ diff_list = << >>
  /\ diff_pc = "number"

Removed == diff_lines[line_idx] = "removed"
Added == diff_lines[line_idx] = "added"

\* A hint counts as a line of both files.
NumberLine ==
  /\ diff_pc = "number" /\ line_idx =< Len(diff_lines)
  /\ original_line_number' = original_line_number + (IF Added THEN 0 ELSE 1)
  /\ modified_line_number' = modified_line_number + (IF Removed THEN 0 ELSE 1)
  /\ diff' = IF Removed \/ Added
             THEN Append(diff, <<original_line_number', modified_line_number', line_idx>>)
             ELSE diff
  /\ line_idx' = line_idx + 1
  /\ UNCHANGED <<diff_lines, idx, prev_idx, diff_list, diff_pc>>

StartBlocks ==
  /\ diff_pc = "number" /\ line_idx > Len(diff_lines)
  /\ diff_pc' = "cut"
  /\ UNCHANGED <<diff_lines, line_idx, original_line_number, modified_line_number, diff, idx, prev_idx,
                 diff_list>>

\* In the file s (1 the old, 2 the new one) line idx is that of the line
\* before or the next one.
Follows(s) == diff[idx][s] \in {diff[idx - 1][s], diff[idx - 1][s] + 1}

\* Mutant: only the lines of the old file are looked at.
Continues_OldOnly == Follows(1)

Continues == Follows(1) \/ Follows(2)

\* The block of diff[first: last].
DiffBlock(first, last) ==
  [origin_line_scope   |-> <<diff[first][1], diff[last][1]>>,
   modified_line_scope |-> <<diff[first][2], diff[last][2]>>,
   content             |-> [k \in 1 .. last - first + 1 |-> diff[first + k - 1][3]]]

Cut ==
  /\ diff_pc = "cut" /\ idx =< Len(diff)
  /\ IF Continues
     THEN UNCHANGED <<diff_list, prev_idx>>
     ELSE /\ diff_list' = Append(diff_list, DiffBlock(prev_idx, idx - 1))
          /\ prev_idx' = idx
  /\ idx' = idx + 1
  /\ UNCHANGED <<diff_lines, line_idx, original_line_number, modified_line_number, diff, diff_pc>>

\* The last block; diff[0] raises when no line has changed.
LastBlock ==
  /\ diff_pc = "cut" /\ idx > Len(diff)
  /\ IF diff = << >>
     THEN diff_pc' = "raised" /\ UNCHANGED diff_list
     ELSE diff_pc' = "done" /\ diff_list' = Append(diff_list, DiffBlock(prev_idx, Len(diff)))
  /\ UNCHANGED <<diff_lines, line_idx, original_line_number, modified_line_number, diff, idx,
                 prev_idx>>

DiffNext == NumberLine \/ StartBlocks \/ Cut \/ LastBlock

DiffSpec == DiffInit /\ [][DiffNext]_diff_vars

-----------------------------------------------------------------------------
Changed == {k \in DOMAIN diff_lines : diff_lines[k] \in {"removed", "added"}}

Lines(b) == diff_list[b].content
LastLine(b) == Lines(b)[Len(Lines(b))]

\* The blocks are the changed lines of the file, all of them, each once and
\* in order, and they are cut exactly where two or more other lines of ndiff
\* (hints included) lie between two changes.
BlocksExact ==
  diff_pc = "done" =>
    /\ Changed = UNION {{Lines(b)[k] : k \in DOMAIN Lines(b)} : b \in DOMAIN diff_list}
    /\ \A b \in DOMAIN diff_list :
         /\ Lines(b) # << >>
         /\ \A k \in 2 .. Len(Lines(b)) : Lines(b)[k] - Lines(b)[k - 1] \in {1, 2}
         /\ b > 1 => Lines(b)[1] - LastLine(b - 1) > 2
=============================================================================
