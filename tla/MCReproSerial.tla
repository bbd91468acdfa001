--------------------------- MODULE MCReproSerial ---------------------------
(* One worker with two checkouts.  The tag of the first is a version that  *)
(* the disk image may already have and ltp_dir has not; the second has no  *)
(* tag, and two builds that share a test; x is left out by name, u by      *)
(* suite.                                                                  *)
EXTENDS Repro

MCBuilds == << << <<"x", "t1", "u">> >>, << <<"t1">>, <<"t1", "t2">> >> >>
MCLtpTag == <<"A", "unknown">>
=============================================================================
