---------------------------- MODULE Prioritizer ----------------------------
(***************************************************************************)
(* What every prioritisation approach of the tool promises to the APFD     *)
(* computation that consumes its result: an order of the test cases of one *)
(* checkout, given by their positions 0 .. n - 1, in which every position  *)
(* comes up exactly once.  The approaches differ only in which position    *)
(* they emit next.                                                         *)
(***************************************************************************)
EXTENDS Naturals, Sequences

VARIABLES
  n,            \* number of test cases handed to the approach
  order         \* the positions emitted so far

vars == <<n, order>>

Emitted == {order[i] : i \in DOMAIN order}

Init == n \in Nat /\ order = << >>

Emit(c) ==
  /\ c \in (0 .. n - 1) \ Emitted
  /\ order' = Append(order, c)
  /\ UNCHANGED n

Next == \E c \in 0 .. n - 1 : Emit(c)

Spec == Init /\ [][Next]_vars /\ WF_vars(Next)
=============================================================================
