----------------------------- MODULE CheapFilter -----------------------------
(***************************************************************************)
(* The cheap filter: what the RSS metadata of an article and the monitored *)
(* inventory decide about it, and how the decision gets into its row while *)
(* administrators change the inventory, analysts send ignored articles     *)
(* back, articles age and runs die between the two statements.             *)
(*                                                                         *)
(* Two gates decide whether an article is dropped, a score only ranks it.  *)
(* A run reads the inventory once and judges every listed article by it.   *)
(***************************************************************************)
EXTENDS Integers

CONSTANTS
  Articles,
  Items,  \* products that can be monitored: [vendor, product, noisy]
  None

Vendors == {i.vendor : i \in Items}
Products == {i.product : i \in Items}

(* The strongest class of cyber keywords in the text; "combination" is a   *)
(* pair of low ones that belong together.                                  *)
Keywords == {"exploitation", "incident", "medium", "combination", "low", "none"}

(* "trusted": a vendor's advisories or a CERT; "media": security media or  *)
(* a researcher's blog; "other": general news or unknown.                  *)
Tiers == {"trusted", "media", "other"}

(* What the metadata contains.  The name of a product or any alias of it   *)
(* counts as the product.                                                  *)
Signals ==
  [cve : BOOLEAN, keyword : Keywords, negative : BOOLEAN, tier : Tiers, category : BOOLEAN,
   vendors : SUBSET Vendors, products : SUBSET Products]

Ages == {"undated", "recent", "middle", "old"}
Bands == {"KEEP", "MAYBE_KEEP", "DROP"}
Statuses == {"NEW", "EXTRACTION_PENDING", "EXTRACTION_PENDING_LOW_PRIORITY", "IGNORED"}
Modes == {"gating", "advisory"}

VARIABLES
  signals,    \* the metadata of each article, which no one changes
  age,        \* of each article
  inventory,  \* items that are active
  status,     \* processing_status
  decision,   \* cheap_filter_decision, cheap_filter_score
  run         \* the run of the stage, or None

vars == <<signals, age, inventory, status, decision, run>>

Decisions == [band : Bands, score : 0..100]

ASSUME FilterAssumption ==
  /\ \A i \in Items : i.noisy \in BOOLEAN
  /\ None \notin Articles \cup Decisions

Runs ==
  [mode : Modes, inventory : SUBSET Items, todo : SUBSET Articles,
   at : Articles \cup {None}, hand : Decisions \cup {None}]

TypeOK ==
  /\ signals \in [Articles -> Signals]
  /\ age \in [Articles -> Ages]
  /\ inventory \subseteq Items
  /\ status \in [Articles -> Statuses]
  /\ decision \in [Articles -> Decisions \cup {None}]
  /\ run \in Runs \cup {None}

Init ==
  /\ signals \in [Articles -> Signals]
  /\ age \in [Articles -> Ages]
  /\ inventory \in SUBSET Items
  /\ status = [a \in Articles |-> "NEW"]
  /\ decision = [a \in Articles |-> None]
  /\ run = None

-----------------------------------------------------------------------------
(* The cascade, for the signals s of an article and the inventory I.       *)

(* detectVendorsFromInventory: a product found in the text brings its      *)
(* vendor along.                                                           *)
MatchedVendors(s, I) == {i.vendor : i \in {j \in I : j.vendor \in s.vendors \/ j.product \in s.products}}
MatchedProducts(s, I) == {i.product : i \in {j \in I : j.product \in s.products}}

HasVendorMatch(s, I) == MatchedVendors(s, I) # {}

(* findMatchedInventory: without a product, all of the vendor's count.     *)
MatchedInventory(s, I) ==
  {i \in I : /\ i.vendor \in MatchedVendors(s, I)
             /\ MatchedProducts(s, I) = {} \/ i.product \in MatchedProducts(s, I)}

Critical(s) == s.keyword \in {"exploitation", "incident"}

(* Mutant of EscapeHatch: exploitation without a CVE id is not severe.     *)
EscapeHatchCve(s) == s.cve \/ s.tier = "trusted"

EscapeHatch(s) == s.cve \/ s.keyword = "exploitation" \/ s.tier = "trusted"

NegativeDominance(s) == s.negative /\ ~ (s.cve \/ Critical(s))

Corroborated(s) == s.category \/ s.tier = "media"

(* Mutant of CyberContext: the first matched item's news volume is taken.  *)
CyberContextQuiet(s, I) ==
  \/ s.cve \/ Critical(s) \/ s.tier = "trusted"
  \/ /\ s.keyword = "medium"
     /\ (\A i \in MatchedInventory(s, I) : ~ i.noisy) => Corroborated(s)

CyberContext(s, I) ==
  \/ s.cve \/ Critical(s) \/ s.tier = "trusted"
  \/ /\ s.keyword = "medium"
     /\ (\E i \in MatchedInventory(s, I) : i.noisy) => Corroborated(s)

Dropped(s, I) ==
  IF HasVendorMatch(s, I) THEN NegativeDominance(s) \/ ~ CyberContext(s, I)
                          ELSE ~ EscapeHatch(s)

KeywordPoints(k) ==
  CASE k = "exploitation" -> 35 [] k = "incident" -> 25 [] k = "medium" -> 20
    [] k = "combination" -> 10 [] k = "low" -> 5 [] OTHER -> 0

If(condition, points) == IF condition THEN points ELSE 0

Points(s, g, I) ==
  LET product == MatchedProducts(s, I) # {}
  IN  If(s.cve, 35) + If(product, 25) + If(~ product /\ HasVendorMatch(s, I), 15)
      + KeywordPoints(s.keyword) + If(s.tier = "trusted", 25) + If(s.tier = "media", 10)
      + If(s.category, 10) + If(g = "recent", 10) - If(s.negative, 20) - If(g = "old", 20)

Normalized(n) == IF n < 0 THEN 0 ELSE IF n > 100 THEN 100 ELSE n

Score(s, g, I) ==
  LET n == Normalized(Points(s, g, I))
  IN IF ~ HasVendorMatch(s, I) /\ EscapeHatch(s) /\ n > 49 THEN 49 ELSE n

Band(s, g, I) ==
  IF Dropped(s, I) THEN "DROP"
  ELSE IF HasVendorMatch(s, I) /\ Score(s, g, I) >= 50 THEN "KEEP"
  ELSE "MAYBE_KEEP"

decideCheapFilter(s, g, I) == [band |-> Band(s, g, I), score |-> Score(s, g, I)]

-----------------------------------------------------------------------------
(* The stage.                                                              *)

StartRun ==
  /\ run = None
  /\ \E mode \in Modes :
       run' = [mode |-> mode, inventory |-> inventory, at |-> None, hand |-> None,
               todo |-> {a \in Articles : status[a] = "NEW"}]
  /\ UNCHANGED <<signals, age, inventory, status, decision>>

(* Mutant of SaveDecision: an earlier decision is kept.                    *)
SaveDecisionOnce(a) ==
  /\ run # None /\ a \in run.todo /\ run.at = None
  /\ LET made == decideCheapFilter(signals[a], age[a], run.inventory)
     IN /\ decision' = IF decision[a] = None THEN [decision EXCEPT ![a] = made] ELSE decision
        /\ run' = [run EXCEPT !.at = a, !.hand = made]
  /\ UNCHANGED <<signals, age, inventory, status>>

(* saveCheapFilterResult.                                                  *)
SaveDecision(a) ==
  /\ run # None /\ a \in run.todo /\ run.at = None
  /\ LET made == decideCheapFilter(signals[a], age[a], run.inventory)
     IN /\ decision' = [decision EXCEPT ![a] = made]
        /\ run' = [run EXCEPT !.at = a, !.hand = made]
  /\ UNCHANGED <<signals, age, inventory, status>>

StatusFor(band, mode) ==
  CASE band = "KEEP" -> "EXTRACTION_PENDING"
    [] band = "DROP" /\ mode = "gating" -> "IGNORED"
    [] OTHER -> "EXTRACTION_PENDING_LOW_PRIORITY"

(* updateProcessingStatus.                                                 *)
SetStatus(a) ==
  /\ run # None /\ run.at = a
  /\ status' = [status EXCEPT ![a] = StatusFor(run.hand.band, run.mode)]
  /\ run' = [run EXCEPT !.todo = @ \ {a}, !.at = None, !.hand = None]
  /\ UNCHANGED <<signals, age, inventory, decision>>

FinishRun == run # None /\ run.todo = {} /\ run' = None /\ UNCHANGED <<signals, age, inventory, status, decision>>

(* Deploys, and statements that throw.                                     *)
RunDies == run # None /\ run' = None /\ UNCHANGED <<signals, age, inventory, status, decision>>

-----------------------------------------------------------------------------
(* The others.                                                             *)

(* requeueArticleForFilter.                                                *)
Requeue(a) ==
  /\ status[a] = "IGNORED"
  /\ status' = [status EXCEPT ![a] = "NEW"]
  /\ decision' = [decision EXCEPT ![a] = None]
  /\ UNCHANGED <<signals, age, inventory, run>>

(* setProductActive.                                                       *)
Monitor(i) ==
  /\ inventory' = IF i \in inventory THEN inventory \ {i} ELSE inventory \cup {i}
  /\ UNCHANGED <<signals, age, status, decision, run>>

TimePasses(a) ==
  /\ age[a] \in {"recent", "middle"}
  /\ age' = [age EXCEPT ![a] = IF @ = "recent" THEN "middle" ELSE "old"]
  /\ UNCHANGED <<signals, inventory, status, decision, run>>

RunStep == StartRun \/ FinishRun \/ \E a \in Articles : SaveDecision(a) \/ SetStatus(a)

Next ==
  \/ RunStep
  \/ RunDies
  \/ \E a \in Articles : Requeue(a) \/ TimePasses(a)
  \/ \E i \in Items : Monitor(i)

Spec == Init /\ [][Next]_vars

-----------------------------------------------------------------------------
(* Properties.                                                             *)

(* Metadata that is severe by itself.                                      *)
Severe(s) ==
  \/ s.cve \/ s.keyword = "exploitation"
  \/ s.tier = "trusted" /\ ~ s.negative

(* No article with a CVE id, with exploitation in its metadata, or from a  *)
(* vendor or CERT without business talk is ever left ignored, whatever is  *)
(* monitored, whenever the inventory changes, and however old it is.       *)
SevereNeverIgnored == \A a \in Articles : status[a] = "IGNORED" => ~ Severe(signals[a])

(* The band, the score and the status in a row agree, whichever inventory, *)
(* mode and crash they come from: high priority means a score of 50 and a  *)
(* monitored product, low priority a lower score or an advisory pass, and  *)
(* nothing without a decision has left the queue.                          *)
RowsAgree ==
  \A a \in Articles : status[a] # "NEW" =>
    /\ decision[a] # None
    /\ decision[a].band = "KEEP" <=> status[a] = "EXTRACTION_PENDING"
    /\ status[a] = "IGNORED" => decision[a].band = "DROP"
    /\ decision[a].band = "KEEP" => decision[a].score >= 50
    /\ decision[a].band = "MAYBE_KEEP" => decision[a].score < 50

Rank(band) == CASE band = "DROP" -> 0 [] band = "MAYBE_KEEP" -> 1 [] OTHER -> 2

(* Monitoring one more quiet product never lowers what the next run would  *)
(* decide of an article, unless business talk dominates it: an article     *)
(* that passed the hatch with no vendor meets the second gate with one.    *)
MonitoringNeverHides ==
  \A a \in Articles, i \in Items :
    LET s == signals[a]
    IN ~ i.noisy /\ ~ NegativeDominance(s)
         => Rank(Band(s, age[a], inventory)) <= Rank(Band(s, age[a], inventory \cup {i}))

=============================================================================
