---------------------------- MODULE MCCallGraph ----------------------------
(***************************************************************************)
(* Four functions.  The files hold cycles, self calls, repeated edges, a   *)
(* function with two entries, functions without edges and functions only   *)
(* named as edge targets; any number of them is loaded in any order.       *)
(***************************************************************************)
EXTENDS CallGraph

CONSTANTS fn_a, fn_b, fn_c, fn_d

E(function, cs) == [func |-> function, callers |-> cs]

MCCgFiles ==
  { << E(fn_a, <<fn_b, fn_c>>), E(fn_b, <<fn_c, fn_a>>) >>,
    << E(fn_b, << >>), E(fn_c, <<fn_a, fn_a>>) >>,
    << E(fn_a, <<fn_b>>), E(fn_a, <<fn_c>>) >>,
    << E(fn_d, <<fn_a, fn_d>>) >>,
    << E(fn_c, <<fn_d>>), E(fn_d, << >>), E(fn_b, <<fn_d, fn_c, fn_d>>) >> }

MCGlibcFiles ==
  { << E(fn_a, <<fn_b>>), E(fn_a, <<fn_c>>), E(fn_b, <<fn_a>>) >>,
    << E(fn_c, << >>), E(fn_b, <<fn_b>>), E(fn_c, <<fn_d>>) >> }
=============================================================================
