--------------------------- MODULE MCEventGrouping ---------------------------
(* EventGrouping for TLC.                                                  *)
EXTENDS EventGrouping
=============================================================================
