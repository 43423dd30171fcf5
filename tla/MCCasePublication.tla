-------------------------- MODULE MCCasePublication --------------------------
(* CasePublication for TLC.                                                *)
EXTENDS CasePublication, TLC

CaseSymmetry == Permutations(Cases)
=============================================================================
