--------------------------- MODULE MCCIAnalysis ----------------------------
(* CIAnalysis over the databases and job sequences of CIData.              *)
EXTENDS CIAnalysis, CIData
=============================================================================
