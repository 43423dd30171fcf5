--------------------------- MODULE MCCaseEvidence ---------------------------
(* CaseEvidence for TLC.                                                   *)
EXTENDS CaseEvidence
=============================================================================
