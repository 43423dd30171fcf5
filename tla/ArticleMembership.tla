-------------------------- MODULE ArticleMembership --------------------------
(***************************************************************************)
(* What the event stage and the editorial operations promise about the     *)
(* membership of articles in events, whatever statements and transactions  *)
(* they are made of: an article is marked as grouped only when it is in an *)
(* event, and from then on only an analyst who detaches it can leave it    *)
(* without one; moving it takes it out of one event and into the other in  *)
(* one step.                                                               *)
(***************************************************************************)
CONSTANTS Articles, Events

VARIABLES
  in,       \* in[a]: the events article a is in
  grouped,  \* articles marked as grouped
  taken     \* articles that analysts have detached from an event

vars == <<in, grouped, taken>>

Init ==
  /\ in = [a \in Articles |-> {}]
  /\ grouped = {}
  /\ taken = {}

Join(a, e) ==
  /\ in' = [in EXCEPT ![a] = @ \cup {e}]
  /\ UNCHANGED <<grouped, taken>>

(* An analyst makes a new event of some articles.                          *)
Found(S, e) ==
  /\ \A a \in Articles : e \notin in[a]
  /\ in' = [a \in Articles |-> IF a \in S THEN in[a] \cup {e} ELSE in[a]]
  /\ UNCHANGED <<grouped, taken>>

Mark(a) ==
  /\ in[a] # {} \/ a \in taken
  /\ grouped' = grouped \cup {a}
  /\ UNCHANGED <<in, taken>>

Detach(a, e) ==
  /\ e \in in[a]
  /\ in' = [in EXCEPT ![a] = @ \ {e}]
  /\ taken' = taken \cup {a}
  /\ UNCHANGED grouped

Move(a, e, f) ==
  /\ e \in in[a]
  /\ in' = [in EXCEPT ![a] = (@ \ {e}) \cup {f}]
  /\ UNCHANGED <<grouped, taken>>

Next ==
  \/ \E a \in Articles : Mark(a)
  \/ \E a \in Articles, e \in Events :
       Join(a, e) \/ Detach(a, e) \/ \E f \in Events \ {e} : Move(a, e, f)
  \/ \E S \in SUBSET Articles \ {{}}, e \in Events : Found(S, e)

Spec == Init /\ [][Next]_vars
=============================================================================
