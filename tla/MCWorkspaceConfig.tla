------------------------- MODULE MCWorkspaceConfig -------------------------
(* WorkspaceConfig for TLC.                                                *)
EXTENDS WorkspaceConfig, TLC

\* Nothing in the code tells one request from another.
Symmetry == Permutations(Writers)
=============================================================================
