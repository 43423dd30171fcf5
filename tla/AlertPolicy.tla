----------------------------- MODULE AlertPolicy -----------------------------
(***************************************************************************)
(* What the alert stage promises to those who receive its alerts, without  *)
(* runs, gates, decisions or requests.  Within the suppression window of   *)
(* an alert another one of the same event is an upgrade to "confirmed", or *)
(* there is news: an article joined the event since.  That the article is  *)
(* a material update is not promised: an analyst may attach it once more,  *)
(* as a plain source, between the decision and the alert.                  *)
(***************************************************************************)
EXTENDS Naturals

CONSTANTS Events

VARIABLES
  last,  \* the tier of the last alert of each event within the window, or "none"
  sent,  \* the number of its alerts since there was none within the window
  news   \* events that articles joined since their last alert

vars == <<last, sent, news>>

Init ==
  /\ last = [e \in Events |-> "none"]
  /\ sent = [e \in Events |-> 0]
  /\ news = {}

Join(e) ==
  /\ news' = news \cup {e}
  /\ UNCHANGED <<last, sent>>

Send(e, tier) ==
  /\ \/ last[e] = "none"
     \/ e \in news
     \/ last[e] = "early_warning" /\ tier = "confirmed"
  /\ last' = [last EXCEPT ![e] = tier]
  /\ sent' = [sent EXCEPT ![e] = @ + 1]
  /\ news' = news \ {e}

Elapse(e) ==
  /\ last' = [last EXCEPT ![e] = "none"]
  /\ sent' = [sent EXCEPT ![e] = 0]
  /\ UNCHANGED news

Next ==
  \E e \in Events :
    \/ Join(e)
    \/ \E tier \in {"early_warning", "confirmed"} : Send(e, tier)
    \/ Elapse(e)

Spec == Init /\ [][Next]_vars
=============================================================================
