-------------------------------- MODULE MCIR -------------------------------
(* Three versions, the first of which is only compared with; two test      *)
(* files; one word in upper and in lower case; a history of zero or one    *)
(* version.                                                                *)
EXTENDS IR

CONSTANTS test1, test2, w, W

ASSUME Data == ExperimentsAssumption

MCLower == [word \in Word |-> w]

Versions(lists) ==
  [known : BOOLEAN, tests : lists, fails : {{}, {1}}, code : {{}, {w}, {W}}]
MCRuns ==
  {[history |-> gap, versions |-> <<first, second, third>>, text |-> contents] :
     gap \in 0 .. 1,
     first \in {v \in Versions({<<test1>>}) : v.fails = {}},
     second \in Versions({<<test1>>, <<test2, test1>>}),
     third \in Versions({<<test2>>, <<test1, test2>>}),
     contents \in [File -> {{}, {W}}]}
=============================================================================
