---------------------------- MODULE MCCaseLoops ----------------------------
(* All sequences of at most four tests of two files, or without file.      *)
EXTENDS CaseLoops, SequencesExt

ASSUME LoopInputs == InputsAssumption

MCInputs ==
  {[n \in DOMAIN s |-> [id |-> n, file_path |-> s[n][1], status |-> s[n][2]]] :
     s \in BoundedSeq(Path \X {0, 1, 3}, 4) \cup BoundedSeq(File \X {0, 1, 2, 3}, 4)}
=============================================================================
