--------------------------- MODULE MCCheapFilter ---------------------------
(* CheapFilter for TLC.                                                    *)
EXTENDS CheapFilter

(* A vendor with a noisy product and a quiet one.                          *)
MCItems == {[vendor |-> "v", product |-> "p", noisy |-> TRUE],
            [vendor |-> "v", product |-> "q", noisy |-> FALSE]}
=============================================================================
