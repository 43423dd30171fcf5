--------------------------- MODULE MCAnalysisTasks ---------------------------
(* Instances of AnalysisTasks for TLC.                                     *)
EXTENDS AnalysisTasks, TLC

(* Runs are interchangeable; articles are not, they are ordered by age.    *)
RunSymmetry == Permutations(Runs)
=============================================================================
