------------------------- MODULE CheapFilterProofs -------------------------
(* Theorems about CheapFilter, for every set of articles and every         *)
(* inventory that can be monitored.                                        *)
EXTENDS CheapFilter, TLAPS

(* What the cascade decides is a band and a score.                         *)
LEMMA ScoreTyped ==
  ASSUME NEW s, NEW g, NEW I PROVE Score(s, g, I) \in 0..100
<1>1. \A c, n : n \in Nat => If(c, n) \in Nat
  BY DEF If
<1>2. KeywordPoints(s.keyword) \in Nat
  BY DEF KeywordPoints
<1>3. Points(s, g, I) \in Int
  <2> DEFINE product == MatchedProducts(s, I) # {}
  <2>1. /\ If(s.cve, 35) \in Nat /\ If(product, 25) \in Nat
        /\ If(~ product /\ HasVendorMatch(s, I), 15) \in Nat
        /\ If(s.tier = "trusted", 25) \in Nat /\ If(s.tier = "media", 10) \in Nat
        /\ If(s.category, 10) \in Nat /\ If(g = "recent", 10) \in Nat
        /\ If(s.negative, 20) \in Nat /\ If(g = "old", 20) \in Nat
    BY <1>1
  <2> HIDE DEF product
  <2>2. Points(s, g, I) =
          If(s.cve, 35) + If(product, 25) + If(~ product /\ HasVendorMatch(s, I), 15)
          + KeywordPoints(s.keyword) + If(s.tier = "trusted", 25) + If(s.tier = "media", 10)
          + If(s.category, 10) + If(g = "recent", 10) - If(s.negative, 20) - If(g = "old", 20)
    BY DEF Points, product
  <2>3. QED
    BY <2>1, <2>2, <1>2
<1>4. QED
  BY <1>3 DEF Score, Normalized

LEMMA Decided ==
  ASSUME NEW s, NEW g, NEW I
  PROVE  decideCheapFilter(s, g, I) \in Decisions
BY ScoreTyped DEF decideCheapFilter, Decisions, Band, Bands

(* What the rows keep of every decision: the score ranks what the gates    *)
(* let through.  And the gates let severe metadata through.                *)
Sound(d) ==
  /\ d.band = "KEEP" => d.score >= 50
  /\ d.band = "MAYBE_KEEP" => d.score < 50

LEMMA DecisionSound ==
  ASSUME NEW s, NEW g, NEW I PROVE Sound(decideCheapFilter(s, g, I))
<1>1. Score(s, g, I) \in 0..100
  BY ScoreTyped
<1>2. ~ HasVendorMatch(s, I) /\ EscapeHatch(s) => Score(s, g, I) < 50
  <2>1. SUFFICES ASSUME ~ HasVendorMatch(s, I), EscapeHatch(s) PROVE Score(s, g, I) < 50
    OBVIOUS
  <2>2. Score(s, g, I) = IF Normalized(Points(s, g, I)) > 49 THEN 49 ELSE Normalized(Points(s, g, I))
    BY <2>1 DEF Score
  <2>3. QED
    BY <1>1, <2>2
<1>3. QED
  BY <1>1, <1>2 DEF Sound, decideCheapFilter, Band, Dropped

LEMMA SevereKept ==
  ASSUME NEW s \in Signals, NEW g, NEW I, Severe(s)
  PROVE  decideCheapFilter(s, g, I).band # "DROP"
BY DEF Severe, decideCheapFilter, Band, Dropped, EscapeHatch, NegativeDominance, CyberContext,
       Critical, Signals

-----------------------------------------------------------------------------
(* The decision that goes from one statement to the next, and the row that *)
(* has it: the decision of an article at hand is the one just stored, made *)
(* of its own metadata.  Statuses follow from the stored decisions.        *)
HandStored ==
  run # None => /\ run.at = None <=> run.hand = None
                /\ run.at # None => run.at \in run.todo /\ decision[run.at] = run.hand

DecisionsSound ==
  \A a \in Articles : decision[a] # None =>
    /\ Sound(decision[a])
    /\ Severe(signals[a]) => decision[a].band # "DROP"

(* What a run still has listed is new: only the run takes it off the queue. *)
ListedNew == run # None => \A a \in run.todo : status[a] = "NEW"

IInv == TypeOK /\ HandStored /\ DecisionsSound /\ ListedNew /\ RowsAgree

LEMMA InitInv == Init => IInv
BY FilterAssumption DEF Init, IInv, TypeOK, HandStored, DecisionsSound, ListedNew, RowsAgree, Statuses

LEMMA StepInv == IInv /\ [Next]_vars => IInv'
<1> SUFFICES ASSUME IInv, [Next]_vars PROVE IInv'
  OBVIOUS
<1> USE FilterAssumption DEF IInv
<1>1. CASE UNCHANGED vars
  BY <1>1 DEF vars, TypeOK, HandStored, DecisionsSound, ListedNew, RowsAgree
<1>2. CASE StartRun
  <2>1. PICK mode \in Modes :
          run' = [mode |-> mode, inventory |-> inventory, at |-> None, hand |-> None,
                  todo |-> {a \in Articles : status[a] = "NEW"}]
    BY <1>2 DEF StartRun
  <2>2. UNCHANGED <<signals, age, inventory, status, decision>>
    BY <1>2 DEF StartRun
  <2>3. TypeOK'
    BY <2>1, <2>2 DEF TypeOK, Runs
  <2>4. QED
    BY <2>1, <2>2, <2>3 DEF HandStored, DecisionsSound, ListedNew, RowsAgree
<1>3. CASE FinishRun \/ RunDies
  BY <1>3 DEF FinishRun, RunDies, TypeOK, HandStored, DecisionsSound, ListedNew, RowsAgree
<1>4. ASSUME NEW a \in Articles, SaveDecision(a)
      PROVE  IInv'
  <2> DEFINE made == decideCheapFilter(signals[a], age[a], run.inventory)
  <2>1. /\ run # None /\ a \in run.todo /\ run.at = None
        /\ decision' = [decision EXCEPT ![a] = made]
        /\ run' = [run EXCEPT !.at = a, !.hand = made]
        /\ UNCHANGED <<signals, age, inventory, status>>
    BY <1>4 DEF SaveDecision
  <2>2. made \in Decisions /\ Sound(made) /\ (Severe(signals[a]) => made.band # "DROP")
    BY Decided, DecisionSound, SevereKept DEF TypeOK
  <2> HIDE DEF made
  <2>3. run \in Runs
    BY <2>1 DEF TypeOK
  <2>4. run' \in Runs /\ run'.at = a /\ run'.hand = made /\ run'.todo = run.todo
    BY <2>1, <2>2, <2>3 DEF Runs
  <2>5. TypeOK'
    BY <2>1, <2>2, <2>4 DEF TypeOK
  <2>6. HandStored'
    BY <2>1, <2>2, <2>4 DEF HandStored, TypeOK
  <2>7. DecisionsSound'
    BY <2>1, <2>2 DEF DecisionsSound, TypeOK
  <2>8. ListedNew' /\ status[a] = "NEW"
    BY <2>1, <2>4 DEF ListedNew
  <2>9. RowsAgree'
    BY <2>1, <2>8 DEF RowsAgree, TypeOK
  <2>10. QED
    BY <2>5, <2>6, <2>7, <2>8, <2>9
<1>5. ASSUME NEW a \in Articles, SetStatus(a)
      PROVE  IInv'
  <2>1. /\ run # None /\ run.at = a
        /\ status' = [status EXCEPT ![a] = StatusFor(run.hand.band, run.mode)]
        /\ run' = [run EXCEPT !.todo = @ \ {a}, !.at = None, !.hand = None]
        /\ UNCHANGED <<signals, age, inventory, decision>>
    BY <1>5 DEF SetStatus
  <2>2. run \in Runs /\ a \in run.todo /\ decision[a] = run.hand /\ decision[a] # None
    BY <2>1 DEF TypeOK, HandStored
  <2>3. decision[a] \in Decisions
    BY <2>2 DEF TypeOK
  <2>4. StatusFor(run.hand.band, run.mode) \in Statuses
    BY DEF StatusFor, Statuses
  <2>5. run' \in Runs /\ run'.at = None /\ run'.hand = None /\ run'.todo = run.todo \ {a}
    BY <2>1, <2>2 DEF Runs
  <2>6. TypeOK'
    BY <2>1, <2>4, <2>5 DEF TypeOK
  <2>7. HandStored' /\ DecisionsSound'
    BY <2>1, <2>5 DEF HandStored, DecisionsSound
  <2>8. ListedNew'
    BY <2>1, <2>5 DEF ListedNew, TypeOK, Runs
  <2>9. RowsAgree'
    <3>1. status'[a] = StatusFor(decision[a].band, run.mode)
      BY <2>1, <2>2 DEF TypeOK
    <3>2. decision[a].band = "KEEP" <=> status'[a] = "EXTRACTION_PENDING"
      BY <3>1, <2>3 DEF StatusFor
    <3>3. status'[a] = "IGNORED" => decision[a].band = "DROP"
      BY <3>1, <2>3 DEF StatusFor
    <3>4. Sound(decision[a])
      BY <2>2 DEF DecisionsSound
    <3>5. \A b \in Articles \ {a} : status'[b] = status[b]
      BY <2>1 DEF TypeOK
    <3>6. QED
      BY <2>1, <2>2, <3>2, <3>3, <3>4, <3>5 DEF RowsAgree, Sound
  <2>10. QED
    BY <2>6, <2>7, <2>8, <2>9
<1>6. ASSUME NEW a \in Articles, Requeue(a)
      PROVE  IInv'
  <2>1. /\ status[a] = "IGNORED"
        /\ status' = [status EXCEPT ![a] = "NEW"]
        /\ decision' = [decision EXCEPT ![a] = None]
        /\ UNCHANGED <<signals, age, inventory, run>>
    BY <1>6 DEF Requeue
  <2>2. TypeOK'
    BY <2>1 DEF TypeOK, Statuses
  <2>3. run # None => a \notin run.todo
    BY <2>1 DEF ListedNew
  <2>4. HandStored' /\ ListedNew'
    BY <2>1, <2>3 DEF HandStored, ListedNew, TypeOK
  <2>5. DecisionsSound' /\ RowsAgree'
    BY <2>1 DEF DecisionsSound, RowsAgree, TypeOK
  <2>6. QED
    BY <2>2, <2>4, <2>5
<1>7. ASSUME NEW a \in Articles, TimePasses(a)
      PROVE  IInv'
  <2>1. age' \in [Articles -> Ages] /\ UNCHANGED <<signals, inventory, status, decision, run>>
    BY <1>7 DEF TimePasses, TypeOK, Ages
  <2>2. QED
    BY <2>1 DEF TypeOK, HandStored, DecisionsSound, ListedNew, RowsAgree
<1>8. ASSUME NEW i \in Items, Monitor(i)
      PROVE  IInv'
  <2>1. inventory' \subseteq Items /\ UNCHANGED <<signals, age, status, decision, run>>
    BY <1>8 DEF Monitor, TypeOK
  <2>2. QED
    BY <2>1 DEF TypeOK, HandStored, DecisionsSound, ListedNew, RowsAgree
<1>9. QED
  BY <1>1, <1>2, <1>3, <1>4, <1>5, <1>6, <1>7, <1>8 DEF Next, RunStep

LEMMA Invariant == Spec => []IInv
BY InitInv, StepInv, PTL DEF Spec

(* Every variable keeps its type, and scores stay between 0 and 100.       *)
THEOREM TypeCorrect == Spec => []TypeOK
BY Invariant, PTL DEF IInv

(* Severe metadata is never ignored, for every inventory and every way it  *)
(* changes while runs judge by the one they read.                          *)
THEOREM SevereStays == Spec => []SevereNeverIgnored
<1>1. IInv => SevereNeverIgnored
  BY DEF IInv, SevereNeverIgnored, RowsAgree, DecisionsSound
<1>2. QED
  BY <1>1, Invariant, PTL

(* Band, score and status agree in every row.                              *)
THEOREM RowsStayInAgreement == Spec => []RowsAgree
BY Invariant, PTL DEF IInv

-----------------------------------------------------------------------------
(* The inventory grows: what the text already matched stays matched, and   *)
(* the items that count grow by the new one at most.                       *)
LEMMA MatchesGrow ==
  ASSUME NEW s, NEW I, NEW i
  PROVE  /\ MatchedVendors(s, I) \subseteq MatchedVendors(s, I \cup {i})
         /\ MatchedProducts(s, I) \subseteq MatchedProducts(s, I \cup {i})
         /\ HasVendorMatch(s, I) => HasVendorMatch(s, I \cup {i})
         /\ HasVendorMatch(s, I) => MatchedInventory(s, I \cup {i}) \subseteq MatchedInventory(s, I) \cup {i}
<1>1. MatchedVendors(s, I) \subseteq MatchedVendors(s, I \cup {i})
  BY DEF MatchedVendors
<1>2. MatchedProducts(s, I) \subseteq MatchedProducts(s, I \cup {i})
  BY DEF MatchedProducts
<1>3. HasVendorMatch(s, I) => HasVendorMatch(s, I \cup {i})
  BY <1>1 DEF HasVendorMatch
<1>4. ASSUME NEW j \in MatchedInventory(s, I \cup {i}), j # i
      PROVE  j \in MatchedInventory(s, I)
  <2>1. j \in I
    BY <1>4 DEF MatchedInventory
  <2>2. CASE j.product \in s.products
    <3>1. j.vendor \in MatchedVendors(s, I) /\ j.product \in MatchedProducts(s, I)
      BY <2>1, <2>2 DEF MatchedVendors, MatchedProducts
    <3>2. QED
      BY <2>1, <3>1 DEF MatchedInventory
  <2>3. CASE j.product \notin s.products
    <3>1. j.product \notin MatchedProducts(s, I \cup {i})
      BY <2>3 DEF MatchedProducts
    <3>2. MatchedProducts(s, I \cup {i}) = {}
      BY <3>1 DEF MatchedInventory
    <3>3. MatchedProducts(s, I) = {}
      BY <1>2, <3>2
    <3>4. \A k \in I \cup {i} : k.product \notin s.products
      BY <3>2 DEF MatchedProducts
    <3>5. PICK k \in I \cup {i} : k.vendor = j.vendor /\ k.vendor \in s.vendors
      BY <3>4 DEF MatchedInventory, MatchedVendors
    <3>6. j.vendor \in MatchedVendors(s, I)
      BY <3>5, <2>1 DEF MatchedVendors
    <3>7. QED
      BY <2>1, <3>3, <3>6 DEF MatchedInventory
  <2>4. QED
    BY <2>2, <2>3
<1>5. QED
  BY <1>1, <1>2, <1>3, <1>4

LEMMA PointsGrow ==
  ASSUME NEW s, NEW g, NEW I, NEW i
  PROVE  /\ Points(s, g, I) \in Int /\ Points(s, g, I \cup {i}) \in Int
         /\ Points(s, g, I) <= Points(s, g, I \cup {i})
<1> DEFINE product(J) == MatchedProducts(s, J) # {}
           match(J) == If(product(J), 25) + If(~ product(J) /\ HasVendorMatch(s, J), 15)
           rest == If(s.cve, 35) + KeywordPoints(s.keyword) + If(s.tier = "trusted", 25)
                   + If(s.tier = "media", 10) + If(s.category, 10) + If(g = "recent", 10)
                   - If(s.negative, 20) - If(g = "old", 20)
<1>1. \A c, n : n \in Nat => If(c, n) \in Nat
  BY DEF If
<1>2. KeywordPoints(s.keyword) \in Nat
  BY DEF KeywordPoints
<1>3. /\ If(s.cve, 35) \in Nat /\ If(s.tier = "trusted", 25) \in Nat
      /\ If(s.tier = "media", 10) \in Nat /\ If(s.category, 10) \in Nat
      /\ If(g = "recent", 10) \in Nat /\ If(s.negative, 20) \in Nat /\ If(g = "old", 20) \in Nat
  BY <1>1
<1>4. rest \in Int
  BY <1>2, <1>3
<1>5. ASSUME NEW J
      PROVE  match(J) \in Int /\ Points(s, g, J) = rest + match(J)
  <2>1. If(product(J), 25) \in Nat /\ If(~ product(J) /\ HasVendorMatch(s, J), 15) \in Nat
    BY <1>1
  <2>2. Points(s, g, J) =
          If(s.cve, 35) + If(product(J), 25) + If(~ product(J) /\ HasVendorMatch(s, J), 15)
          + KeywordPoints(s.keyword) + If(s.tier = "trusted", 25) + If(s.tier = "media", 10)
          + If(s.category, 10) + If(g = "recent", 10) - If(s.negative, 20) - If(g = "old", 20)
    BY DEF Points
  <2> HIDE DEF product
  <2>3. QED
    BY <2>1, <2>2, <1>2, <1>3
<1>6. match(I) <= match(I \cup {i})
  <2>1. /\ product(I) => product(I \cup {i})
        /\ HasVendorMatch(s, I) => HasVendorMatch(s, I \cup {i})
    BY MatchesGrow
  <2> HIDE DEF product
  <2>2. QED
    BY <2>1 DEF If
<1>7. match(I) \in Int /\ Points(s, g, I) = rest + match(I)
  BY <1>5
<1>8. match(I \cup {i}) \in Int /\ Points(s, g, I \cup {i}) = rest + match(I \cup {i})
  BY <1>5
<1> HIDE DEF match, rest
<1>9. \A r, m, n \in Int : r + m \in Int /\ r + n \in Int /\ (m <= n => r + m <= r + n)
  OBVIOUS
<1>10. QED
  BY <1>4, <1>6, <1>7, <1>8, <1>9, Zenon

(* Monitoring one more quiet product never lowers a decision that business *)
(* talk does not dominate, for every inventory and every metadata.         *)
THEOREM MonitoringSafe == Spec => []MonitoringNeverHides
<1>1. ASSUME NEW s \in Signals, NEW g, NEW I, NEW i, ~ i.noisy, ~ NegativeDominance(s)
      PROVE  Rank(Band(s, g, I)) <= Rank(Band(s, g, I \cup {i}))
  <2> DEFINE J == I \cup {i}
  <2>1. ASSUME NEW K PROVE Band(s, g, K) \in Bands
    BY DEF Band, Bands
  <2>2. ~ Dropped(s, I) => ~ Dropped(s, J)
    <3> SUFFICES ASSUME ~ Dropped(s, I), HasVendorMatch(s, J) PROVE CyberContext(s, J)
      BY <1>1, MatchesGrow DEF Dropped
    <3>1. CASE ~ HasVendorMatch(s, I)
      BY <3>1 DEF Dropped, EscapeHatch, CyberContext, Critical
    <3>2. CASE HasVendorMatch(s, I)
      <4>1. CyberContext(s, I)
        BY <3>2 DEF Dropped
      <4>2. MatchedInventory(s, J) \subseteq MatchedInventory(s, I) \cup {i}
        BY <3>2, MatchesGrow
      <4>3. (\E j \in MatchedInventory(s, J) : j.noisy) => \E j \in MatchedInventory(s, I) : j.noisy
        BY <4>2, <1>1
      <4>4. QED
        BY <4>1, <4>3 DEF CyberContext
    <3>3. QED
      BY <3>1, <3>2
  <2>3. ASSUME HasVendorMatch(s, I), Score(s, g, I) >= 50
        PROVE  HasVendorMatch(s, J) /\ Score(s, g, J) >= 50
    <3>1. HasVendorMatch(s, J)
      BY <2>3, MatchesGrow
    <3>2. /\ Score(s, g, I) = Normalized(Points(s, g, I))
          /\ Score(s, g, J) = Normalized(Points(s, g, J))
      BY <2>3, <3>1 DEF Score
    <3>3. /\ Points(s, g, I) \in Int /\ Points(s, g, J) \in Int
          /\ Points(s, g, I) <= Points(s, g, J)
      BY PointsGrow
    <3> HIDE DEF J
    <3>4. QED
      BY <2>3, <3>1, <3>2, <3>3 DEF Normalized
  <2>4. Band(s, g, I) = "KEEP" => Band(s, g, J) = "KEEP"
    BY <2>2, <2>3 DEF Band
  <2>5. Band(s, g, J) = "DROP" => Band(s, g, I) = "DROP"
    BY <2>2 DEF Band
  <2>6. QED
    BY <2>1, <2>4, <2>5 DEF Rank, Bands
<1>2. TypeOK => MonitoringNeverHides
  BY <1>1 DEF TypeOK, MonitoringNeverHides
<1>3. QED
  BY <1>2, TypeCorrect, PTL

=============================================================================
