-------------------------- MODULE MCEventAssessment --------------------------
(* EventAssessment for TLC: few ranks and drafts.  An article's draft and  *)
(* an analyst's edit may give a vendor with one of severity and urgency    *)
(* too low for the gate, or nothing that is affected.                      *)
EXTENDS EventAssessment

High == [severity |-> 1, urgency |-> 1]
HighRank == {High}
VendorDraft == {[impact |-> "vendor", rank |-> High]}
HalfDraft == {[impact |-> "vendor", rank |-> [High EXCEPT !.urgency = 0]],
              [impact |-> "none", rank |-> High]}
AnyImpact == [impact : Impacts, rank : HighRank]
=============================================================================
