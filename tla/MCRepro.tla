------------------------------ MODULE MCRepro ------------------------------
(* Two workers with one checkout each, which share an LTP version, and a   *)
(* third checkout that no slice holds.                                     *)
EXTENDS Repro

MCBuilds == << << <<"t1", "t2">> >>, << <<"t1">> >>, << <<"t1">> >> >>
MCLtpTag == <<"A", "A", "B">>
=============================================================================
