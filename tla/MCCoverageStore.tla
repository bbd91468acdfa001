-------------------------- MODULE MCCoverageStore --------------------------
(* Three tests, two files of two lines; a file without a record has no     *)
(* lines.  The first test has a record of both files, the others may not.  *)
EXTENDS CoverageStore

CONSTANTS t1, t2, t3

MCCoverages == {c \in Coverage : \A x \in c.lines : x[1] \in c.files}
MCFull == {c \in MCCoverages : c.files = File /\ Cardinality(c.lines) >= 2}
MCRaws == {[t \in Test |-> CASE t = t1 -> a [] t = t2 -> b [] t = t3 -> c] :
             a \in MCFull, b \in MCCoverages, c \in MCFull}
=============================================================================
