------------------------- MODULE EventGroupingProofs -------------------------
(* Theorems about EventGrouping, for every finite set of articles, every   *)
(* set of keys and every number of requests, faults and runs.              *)
EXTENDS EventGrouping, FiniteSetTheorems, TLAPS

(* A change is about an article and about events that exist, as far as its *)
(* operation has come to them.                                             *)
WellFormed(m, existing) ==
  /\ m.step # "off" => m.article \in Articles
  /\ m.step \in {"delete", "countFrom", "storeFrom"} => m.op \in {"detach", "move"}
  /\ m.step \in {"insert", "countTo", "storeTo"} => m.op \in {"attach", "move"}
  /\ m.step = "commit" => m.op = "move"
  /\ m.op = "move" => m.step # "off" /\ m.from # m.to
  /\ m.op \in {"detach", "move"} => m.from \in existing
  /\ m.op \in {"attach", "move"} => m.to \in existing

Shape ==
  /\ \A w \in Writers : WellFormed(act[w], Existing)
  /\ act[Pipeline].op \in {"none", "attach"}
  /\ group.step # "off" => group.article \in Articles /\ group.event \in Existing

(* The rows of event_articles that a change holds locked.                  *)
Rows(m) ==
  IF m.op # "move" THEN {}
  ELSE {<<e, m.article>> : e \in
          (IF m.step \notin {"off", "delete"} THEN {m.from} ELSE {}) \cup
          (IF m.step \in {"countTo", "storeTo", "commit"} THEN {m.to} ELSE {})}

(* Locks exclude one another, and hold the row a move has read.            *)
Apart == \A v, w \in Writers : v # w => RowsOf(v) \cap RowsOf(w) = {}

Holds(m) == m.op = "move" /\ m.step \notin {"off", "delete"}

Held ==
  /\ Apart
  /\ \A e \in Events : ~ event[e].exists => member[e] = {}
  /\ \A w \in Writers : Holds(act[w]) => act[w].article \in member[act[w].from]

(* The article the stage is at is in an event once the attachment is       *)
(* written, unless an analyst has taken it out of one.                     *)
Placed(a) == a \in taken \/ \E e \in Events : a \in member[e]

Placing ==
  group.step # "off" =>
    \/ act[Pipeline].step = "insert" /\ act[Pipeline].article = group.article
    \/ Placed(group.article)

-----------------------------------------------------------------------------
(* The parts of a step.                                                    *)

LEMMA RowsOfAct == ASSUME NEW w PROVE RowsOf(w) = Rows(act[w])
BY DEF RowsOf, Rows, InMove

LEMMA Slots == Pipeline \in Writers /\ Analysts \subseteq Writers /\ Pipeline \notin Analysts
BY GroupingAssumption DEF Writers, Analysts, Pipeline

LEMMA NoActTyped ==
  /\ NoAct \in Changes
  /\ \A existing : WellFormed(NoAct, existing)
  /\ Rows(NoAct) = {} /\ ~ Holds(NoAct)
BY DEF NoAct, Changes, Steps, WellFormed, Rows, Holds

(* A writer w replaces its change by m.                                    *)
LEMMA ActReplaced ==
  ASSUME TypeOK, Shape, NEW w \in Writers, NEW m \in Changes,
         act' = [act EXCEPT ![w] = m],
         Existing \subseteq Existing', WellFormed(m, Existing')
  PROVE  /\ act' \in [Writers -> Changes]
         /\ \A v \in Writers : WellFormed(act'[v], Existing')
         /\ act'[w] = m /\ \A v \in Writers \ {w} : act'[v] = act[v]
<1>1. act \in [Writers -> Changes]
  BY DEF TypeOK
<1>2. \A v \in Writers \ {w} : WellFormed(act[v], Existing')
  BY DEF Shape, WellFormed
<1>3. QED
  BY <1>1, <1>2

LEMMA LocksKept ==
  ASSUME Apart, NEW w \in Writers, NEW m, act'[w] = m,
         \A v \in Writers \ {w} : act'[v] = act[v],
         \A v \in Writers \ {w} : Rows(m) \cap RowsOf(v) = {}
  PROVE  Apart'
<1> SUFFICES ASSUME NEW u \in Writers, NEW v \in Writers, u # v
             PROVE  RowsOf(u)' \cap RowsOf(v)' = {}
  BY DEF Apart
<1>1. \A x \in Writers : RowsOf(x)' = Rows(act'[x])
  BY DEF RowsOf, Rows, InMove
<1>2. CASE u = w
  BY <1>1, <1>2, RowsOfAct
<1>3. CASE v = w
  BY <1>1, <1>3, RowsOfAct
<1>4. CASE u # w /\ v # w
  BY <1>1, <1>4, RowsOfAct DEF Apart
<1>5. QED
  BY <1>2, <1>3, <1>4

LEMMA EventStored ==
  ASSUME TypeOK, NEW e \in Events, NEW c \in Nat
  PROVE  /\ [event EXCEPT ![e].count = c] \in [Events -> EventRows]
         /\ \A f \in Events : /\ [event EXCEPT ![e].count = c][f].exists = event[f].exists
                              /\ [event EXCEPT ![e].count = c][f].key = event[f].key
<1>1. event[e] \in EventRows /\ event \in [Events -> EventRows]
  BY DEF TypeOK
<1>2. [event[e] EXCEPT !.count = c] \in EventRows
  BY <1>1 DEF EventRows
<1>3. QED
  BY <1>1, <1>2 DEF EventRows

LEMMA VisibleCounted ==
  ASSUME TypeOK, NEW w \in Writers, act[w].article \in Articles, NEW e \in Events
  PROVE  Cardinality(Visible(w, e)) \in Nat
<1>1. Visible(w, e) \subseteq Articles
  BY DEF Visible, TypeOK
<1>2. QED
  BY <1>1, GroupingAssumption, FS_Subset, FS_CardinalityType

Inv == TypeOK /\ Shape /\ Held /\ Placing

(* What has to be shown of a statement of a writer.                        *)
LEMMA WriterStep ==
  ASSUME Inv, NEW w \in Writers, NEW m \in Changes, act' = [act EXCEPT ![w] = m],
         WellFormed(m, Existing), UNCHANGED <<key, status, ppc, queue, group>>,
         event' \in [Events -> EventRows], \A e \in Events : event'[e].exists = event[e].exists,
         member' \in [Events -> SUBSET Articles], taken' \subseteq Articles,
         torn' \subseteq Events, troubles' \in Nat,
         \A v \in Writers \ {w} : Rows(m) \cap RowsOf(v) = {},
         \A e \in Events : ~ event[e].exists => member'[e] = {},
         Holds(m) => m.article \in member'[m.from],
         \A v \in Writers \ {w} : Holds(act[v]) => act[v].article \in member'[act[v].from],
         \A a \in Articles : Placed(a) => Placed(a)',
         w = Pipeline =>
           /\ m.op \in {"none", "attach"}
           /\ act[w].step = "insert" =>
                \/ m.step = "insert" /\ m.article = act[w].article
                \/ \A a \in Articles : a = act[w].article => Placed(a)'
  PROVE  Inv'
<1> USE Slots
<1>1. Existing' = Existing
  BY DEF Existing
<1>2. /\ act' \in [Writers -> Changes]
      /\ \A v \in Writers : WellFormed(act'[v], Existing')
      /\ act'[w] = m /\ \A v \in Writers \ {w} : act'[v] = act[v]
  BY <1>1, ActReplaced DEF Inv
<1>3. TypeOK'
  BY <1>2 DEF Inv, TypeOK
<1>4. Shape'
  BY <1>1, <1>2 DEF Inv, Shape
<1>5. Apart'
  BY <1>2, LocksKept DEF Inv, Held
<1>6. Held'
  BY <1>2, <1>5 DEF Held
<1>7. Placing'
  <2> SUFFICES ASSUME group.step # "off"
               PROVE  (\/ act[Pipeline].step = "insert" /\ act[Pipeline].article = group.article
                       \/ Placed(group.article))'
    BY DEF Placing
  <2>0. group.article \in Articles
    BY DEF Inv, Shape
  <2>1. CASE Placed(group.article)
    BY <2>0, <2>1
  <2>2. CASE act[Pipeline].step = "insert" /\ act[Pipeline].article = group.article
    <3>1. CASE w = Pipeline
      <4>1. act[w].step = "insert" /\ act[w].article = group.article
        BY <2>2, <3>1
      <4>2. \/ m.step = "insert" /\ m.article = group.article
            \/ Placed(group.article)'
        BY <2>0, <3>1, <4>1
      <4>3. QED
        BY <1>2, <3>1, <4>2 DEF Placed
    <3>2. CASE w # Pipeline
      BY <1>2, <2>2, <3>2
    <3>3. QED
      BY <3>1, <3>2
  <2>3. QED
    BY <2>1, <2>2 DEF Inv, Placing
<1>8. QED
  BY <1>3, <1>4, <1>6, <1>7 DEF Inv

(* A statement that leaves the members as they are.                        *)
LEMMA QuietStep ==
  ASSUME Inv, NEW w \in Writers, NEW m \in Changes, act' = [act EXCEPT ![w] = m],
         WellFormed(m, Existing), UNCHANGED <<key, status, ppc, queue, group, member, taken>>,
         event' \in [Events -> EventRows], \A e \in Events : event'[e].exists = event[e].exists,
         torn' \subseteq Events, troubles' \in Nat,
         \A v \in Writers \ {w} : Rows(m) \cap RowsOf(v) = {},
         Holds(m) => m.article \in member[m.from],
         w = Pipeline =>
           m.op \in {"none", "attach"} /\ (act[w].step # "insert" \/ m = act[w])
  PROVE  Inv'
<1>1. \A a \in Articles : Placed(a) => Placed(a)'
  BY DEF Placed
<1>2. member \in [Events -> SUBSET Articles] /\ taken \subseteq Articles
  BY DEF Inv, TypeOK
<1>3. /\ \A e \in Events : ~ event[e].exists => member[e] = {}
      /\ \A v \in Writers : Holds(act[v]) => act[v].article \in member[act[v].from]
  BY DEF Inv, Held
<1>4. QED
  BY <1>1, <1>2, <1>3, WriterStep

-----------------------------------------------------------------------------
(* The statements of a membership change.                                  *)

LEMMA OfChange ==
  ASSUME Inv, NEW w \in Writers
  PROVE  /\ act[w] \in Changes /\ WellFormed(act[w], Existing)
         /\ Existing \subseteq Events
         /\ w = Pipeline => act[w].op \in {"none", "attach"}
         /\ \A v \in Writers \ {w} : RowsOf(w) \cap RowsOf(v) = {}
         /\ Holds(act[w]) => act[w].article \in member[act[w].from]
         /\ event \in [Events -> EventRows] /\ torn \subseteq Events /\ troubles \in Nat
BY DEF Inv, TypeOK, Shape, Held, Apart, Existing

(* The next step of a change that keeps its rows.                          *)
Follows(s, t, op) ==
  \/ s = "countFrom" /\ t = "storeFrom"
  \/ s = "storeFrom" /\ t = "insert" /\ op = "move"
  \/ s = "countTo" /\ t = "storeTo"
  \/ s = "storeTo" /\ t = "commit" /\ op = "move"

LEMMA Advanced ==
  ASSUME NEW m \in Changes, NEW n \in Changes, NEW existing, WellFormed(m, existing),
         Follows(m.step, n.step, m.op),
         n.op = m.op, n.article = m.article, n.from = m.from, n.to = m.to
  PROVE  /\ WellFormed(n, existing)
         /\ Rows(n) = Rows(m) /\ (Holds(n) <=> Holds(m))
<1>1. WellFormed(n, existing)
  BY DEF WellFormed, Follows
<1>2. Rows(n) = Rows(m) /\ (Holds(n) <=> Holds(m))
  BY DEF Rows, Holds, WellFormed, Follows
<1>3. QED
  BY <1>1, <1>2

(* A statement that does no more than that.                                *)
LEMMA AdvanceStep ==
  ASSUME Inv, NEW w \in Writers, NEW n \in Changes, act' = [act EXCEPT ![w] = n],
         Follows(act[w].step, n.step, act[w].op),
         n.op = act[w].op, n.article = act[w].article, n.from = act[w].from, n.to = act[w].to,
         UNCHANGED <<tables, stage, taken, torn, troubles>>
  PROVE  Inv'
<1>1. /\ WellFormed(n, Existing) /\ Rows(n) = Rows(act[w]) /\ (Holds(n) <=> Holds(act[w]))
  BY OfChange, Advanced
<1>2. UNCHANGED <<key, status, event, member, ppc, queue, group, taken, torn, troubles>>
  BY DEF tables, stage
<1>3. act[w].step # "insert"
  BY DEF Follows
<1>4. /\ w = Pipeline => n.op \in {"none", "attach"}
      /\ \A v \in Writers \ {w} : Rows(n) \cap RowsOf(v) = {}
      /\ Holds(n) => n.article \in member[n.from]
  BY <1>1, OfChange, RowsOfAct
<1>5. /\ event' \in [Events -> EventRows] /\ torn' \subseteq Events /\ troubles' \in Nat
      /\ \A e \in Events : event'[e].exists = event[e].exists
  BY <1>2, OfChange
<1>6. QED
  BY <1>1, <1>2, <1>3, <1>4, <1>5, QuietStep

LEMMA CountFromStep == ASSUME Inv, NEW w \in Writers, CountFrom(w) PROVE Inv'
<1> DEFINE c == Cardinality(Visible(w, act[w].from))
           n == [act[w] EXCEPT !.step = "storeFrom", !.fromCount = c]
<1>1. c \in Nat
  BY OfChange, VisibleCounted DEF CountFrom, WellFormed, Inv
<1>2. act' = [act EXCEPT ![w] = n]
  BY DEF CountFrom
<1>0. act[w] \in Changes
  BY OfChange
<1> HIDE DEF c
<1>3. /\ n \in Changes /\ n.step = "storeFrom"
      /\ n.op = act[w].op /\ n.article = act[w].article /\ n.from = act[w].from
      /\ n.to = act[w].to
  BY <1>1, <1>0 DEF Changes, Steps
<1> HIDE DEF n
<1>4. QED
  BY <1>2, <1>3, AdvanceStep DEF CountFrom, Follows

LEMMA CountToStep == ASSUME Inv, NEW w \in Writers, CountTo(w) PROVE Inv'
<1> DEFINE c == Cardinality(Visible(w, act[w].to))
           n == [act[w] EXCEPT !.step = "storeTo", !.toCount = c]
<1>1. c \in Nat
  BY OfChange, VisibleCounted DEF CountTo, WellFormed, Inv
<1>2. act' = [act EXCEPT ![w] = n]
  BY DEF CountTo
<1>0. act[w] \in Changes
  BY OfChange
<1> HIDE DEF c
<1>3. /\ n \in Changes /\ n.step = "storeTo"
      /\ n.op = act[w].op /\ n.article = act[w].article /\ n.from = act[w].from
      /\ n.to = act[w].to
  BY <1>1, <1>0 DEF Changes, Steps
<1> HIDE DEF n
<1>4. QED
  BY <1>2, <1>3, AdvanceStep DEF CountTo, Follows

LEMMA StoreFromStep == ASSUME Inv, NEW w \in Writers, StoreFrom(w) PROVE Inv'
<1>1. CASE InMove(w)
  <2> DEFINE n == [act[w] EXCEPT !.step = "insert"]
  <2>0. act[w] \in Changes
    BY OfChange
  <2>1. /\ n \in Changes /\ n.step = "insert"
        /\ n.op = act[w].op /\ n.article = act[w].article /\ n.from = act[w].from
        /\ n.to = act[w].to
    BY <2>0 DEF Changes, Steps
  <2>2. act' = [act EXCEPT ![w] = n] /\ UNCHANGED <<tables, stage, taken, torn, troubles>>
    BY <1>1 DEF StoreFrom, tables
  <2> HIDE DEF n
  <2>3. QED
    BY <1>1, <2>1, <2>2, AdvanceStep DEF StoreFrom, InMove, Follows
<1>2. CASE ~ InMove(w)
  <2>1. act[w].from \in Events /\ act[w].fromCount \in Nat
    <3>1. /\ act[w] \in Changes /\ WellFormed(act[w], Existing) /\ Existing \subseteq Events
          /\ act[w].step = "storeFrom"
      BY OfChange DEF StoreFrom
    <3>2. QED
      BY <3>1 DEF WellFormed, Changes
  <2>2. /\ event' \in [Events -> EventRows]
        /\ \A e \in Events : event'[e].exists = event[e].exists
    <3>1. TypeOK
      BY DEF Inv
    <3>2. event' = [event EXCEPT ![act[w].from].count = act[w].fromCount]
      BY <1>2 DEF StoreFrom
    <3>3. QED
      BY <2>1, <3>1, <3>2, EventStored
  <2>3. /\ act' = [act EXCEPT ![w] = NoAct] /\ act[w].step # "insert"
        /\ UNCHANGED <<key, status, ppc, queue, group, member, taken, torn, troubles>>
    BY <1>2 DEF StoreFrom, stage
  <2>4. NoAct.op = "none"
    BY DEF NoAct
  <2>5. torn' \subseteq Events /\ troubles' \in Nat
    BY <2>3, OfChange
  <2>6. QED
    BY <2>2, <2>3, <2>4, <2>5, NoActTyped, QuietStep
<1>3. QED
  BY <1>1, <1>2

LEMMA StoreToStep == ASSUME Inv, NEW w \in Writers, StoreTo(w) PROVE Inv'
<1>1. CASE InMove(w)
  <2> DEFINE n == [act[w] EXCEPT !.step = "commit"]
  <2>0. act[w] \in Changes
    BY OfChange
  <2>1. /\ n \in Changes /\ n.step = "commit"
        /\ n.op = act[w].op /\ n.article = act[w].article /\ n.from = act[w].from
        /\ n.to = act[w].to
    BY <2>0 DEF Changes, Steps
  <2>2. act' = [act EXCEPT ![w] = n] /\ UNCHANGED <<tables, stage, taken, torn, troubles>>
    BY <1>1 DEF StoreTo, tables
  <2> HIDE DEF n
  <2>3. QED
    BY <1>1, <2>1, <2>2, AdvanceStep DEF StoreTo, InMove, Follows
<1>2. CASE ~ InMove(w)
  <2>1. act[w].to \in Events /\ act[w].toCount \in Nat
    <3>1. /\ act[w] \in Changes /\ WellFormed(act[w], Existing) /\ Existing \subseteq Events
          /\ act[w].step = "storeTo"
      BY OfChange DEF StoreTo
    <3>2. QED
      BY <3>1 DEF WellFormed, Changes
  <2>2. /\ event' \in [Events -> EventRows]
        /\ \A e \in Events : event'[e].exists = event[e].exists
    <3>1. TypeOK
      BY DEF Inv
    <3>2. event' = [event EXCEPT ![act[w].to].count = act[w].toCount]
      BY <1>2 DEF StoreTo
    <3>3. QED
      BY <2>1, <3>1, <3>2, EventStored
  <2>3. /\ act' = [act EXCEPT ![w] = NoAct] /\ act[w].step # "insert"
        /\ UNCHANGED <<key, status, ppc, queue, group, member, taken, torn, troubles>>
    BY <1>2 DEF StoreTo, stage
  <2>4. NoAct.op = "none"
    BY DEF NoAct
  <2>5. torn' \subseteq Events /\ troubles' \in Nat
    BY <2>3, OfChange
  <2>6. QED
    BY <2>2, <2>3, <2>4, <2>5, NoActTyped, QuietStep
<1>3. QED
  BY <1>1, <1>2

(* A writer gives its change up: it throws, dies or is aborted.            *)
LEMMA GivenUp ==
  ASSUME Inv, NEW w \in Writers, act' = [act EXCEPT ![w] = NoAct], w # Pipeline,
         UNCHANGED <<tables, stage, taken>>, torn' \subseteq Events, troubles' \in Nat
  PROVE  Inv'
<1>1. /\ event' \in [Events -> EventRows]
      /\ \A e \in Events : event'[e].exists = event[e].exists
  BY OfChange DEF tables
<1>2. UNCHANGED <<key, status, ppc, queue, group, member, taken>>
  BY DEF tables, stage
<1>3. QED
  BY <1>1, <1>2, NoActTyped, QuietStep

LEMMA AbortStep == ASSUME Inv, NEW w \in Writers, AbortDeadlock(w) PROVE Inv'
<1>1. w # Pipeline
  BY OfChange DEF AbortDeadlock, InMove
<1>2. QED
  BY <1>1, OfChange, GivenUp DEF AbortDeadlock

LEMMA DeleteStep == ASSUME Inv, NEW w \in Writers, Delete(w) PROVE Inv'
<1> DEFINE e == act[w].from
           a == act[w].article
           n == [act[w] EXCEPT !.step = "countFrom"]
<1>0. /\ act[w] \in Changes /\ WellFormed(act[w], Existing) /\ act[w].step = "delete"
      /\ e \in Events /\ a \in Articles /\ w # Pipeline
  BY OfChange DEF Delete, WellFormed
<1>1. /\ UNCHANGED <<key, status, event, ppc, queue, group, troubles>>
      /\ event' \in [Events -> EventRows] /\ troubles' \in Nat
      /\ \A f \in Events : event'[f].exists = event[f].exists
  BY OfChange DEF Delete, stage
<1>2. CASE a \notin member[e]
  <2>1. /\ act' = [act EXCEPT ![w] = NoAct] /\ UNCHANGED <<tables, stage, taken, torn>>
    BY <1>2 DEF Delete, tables
  <2>2. QED
    BY <1>0, <1>1, <2>1, OfChange, GivenUp
<1>3. CASE a \in member[e]
  <2>1. /\ n \in Changes /\ n.step = "countFrom" /\ n.op = act[w].op
        /\ n.article = a /\ n.from = e /\ n.to = act[w].to
    BY <1>0 DEF Changes, Steps
  <2>2. act' = [act EXCEPT ![w] = n]
    BY <1>3 DEF Delete
  <2>3. torn' \subseteq Events
    BY <1>0, <1>3, OfChange DEF Delete, Overlap
  <2>4. ~ RowHeld(w, e, a)
    BY DEF Delete
  <2> HIDE DEF n
  <2>5. WellFormed(n, Existing)
    BY <1>0, <2>1 DEF WellFormed
  <2>6. Rows(n) \subseteq {<<e, a>>}
    BY <1>0, <2>1 DEF Rows
  <2>7. \A v \in Writers \ {w} : Rows(n) \cap RowsOf(v) = {}
    BY <2>4, <2>6 DEF RowHeld
  <2>8. CASE InMove(w)
    <3>1. UNCHANGED <<member, taken>>
      BY <1>3, <2>8 DEF Delete
    <3>2. Holds(n) => n.article \in member[n.from]
      BY <1>3, <2>1
    <3>3. QED
      BY <1>0, <1>1, <2>1, <2>2, <2>3, <2>5, <2>7, <3>1, <3>2, QuietStep
  <2>9. CASE ~ InMove(w)
    <3>1. member' = [member EXCEPT ![e] = @ \ {a}] /\ taken' = taken \cup {a}
      BY <1>3, <2>9 DEF Delete
    <3>2. member \in [Events -> SUBSET Articles] /\ taken \subseteq Articles
      BY DEF Inv, TypeOK
    <3>3. /\ member' \in [Events -> SUBSET Articles] /\ taken' \subseteq Articles
          /\ \A f \in Events : ~ event[f].exists => member'[f] = {}
      BY <1>0, <3>1, <3>2 DEF Inv, Held
    <3>4. ~ Holds(n)
      BY <2>1, <2>9 DEF Holds, InMove
    <3>5. \A v \in Writers \ {w} : Holds(act[v]) => act[v].article \in member'[act[v].from]
      <4> SUFFICES ASSUME NEW v \in Writers \ {w}, Holds(act[v])
                   PROVE  act[v].article \in member'[act[v].from]
        OBVIOUS
      <4>1. act[v].article \in member[act[v].from] /\ act[v].from \in Events
        BY OfChange DEF WellFormed, Holds
      <4>2. <<act[v].from, act[v].article>> \in RowsOf(v)
        BY RowsOfAct DEF Rows, Holds
      <4>3. <<act[v].from, act[v].article>> # <<e, a>>
        BY <2>4, <4>2 DEF RowHeld
      <4>4. QED
        BY <3>1, <3>2, <4>1, <4>3
    <3>6. \A b \in Articles : Placed(b) => Placed(b)'
      BY <1>0, <3>1, <3>2 DEF Placed
    <3>7. QED
      BY <1>0, <1>1, <2>1, <2>2, <2>3, <2>5, <2>7, <3>3, <3>4, <3>5, <3>6, WriterStep
  <2>10. QED
    BY <2>8, <2>9
<1>4. QED
  BY <1>2, <1>3

LEMMA InsertStep == ASSUME Inv, NEW w \in Writers, Insert(w) PROVE Inv'
<1> DEFINE e == act[w].to
           a == act[w].article
           n == [act[w] EXCEPT !.step = "countTo"]
<1>0. /\ act[w] \in Changes /\ WellFormed(act[w], Existing) /\ act[w].step = "insert"
      /\ e \in Existing /\ e \in Events /\ a \in Articles
  BY OfChange DEF Insert, WellFormed
<1>1. /\ UNCHANGED <<key, status, event, ppc, queue, group, taken, troubles>>
      /\ event' \in [Events -> EventRows] /\ troubles' \in Nat
      /\ \A f \in Events : event'[f].exists = event[f].exists
  BY OfChange DEF Insert, stage
<1>2. /\ n \in Changes /\ n.step = "countTo" /\ n.op = act[w].op
      /\ n.article = a /\ n.from = act[w].from /\ n.to = e
  BY <1>0 DEF Changes, Steps
<1>3. act' = [act EXCEPT ![w] = n]
  BY DEF Insert
<1>4. torn' \subseteq Events
  BY <1>0, OfChange DEF Insert, Overlap
<1>5. ~ RowHeld(w, e, a)
  BY DEF Insert
<1> HIDE DEF n
<1>6. WellFormed(n, Existing)
  BY <1>0, <1>2 DEF WellFormed
<1>7. \A v \in Writers \ {w} : Rows(n) \cap RowsOf(v) = {}
  <2>1. Rows(n) \subseteq Rows(act[w]) \cup {<<e, a>>}
    BY <1>0, <1>2 DEF Rows
  <2>2. \A v \in Writers \ {w} : Rows(act[w]) \cap RowsOf(v) = {}
    BY OfChange, RowsOfAct
  <2>3. QED
    BY <1>5, <2>1, <2>2 DEF RowHeld
<1>8. member \in [Events -> SUBSET Articles] /\ taken \subseteq Articles
  BY DEF Inv, TypeOK
<1>9. /\ member' \in [Events -> SUBSET Articles] /\ taken' \subseteq Articles
      /\ \A f \in Events : member[f] \subseteq member'[f]
      /\ \A f \in Events : ~ event[f].exists => member'[f] = {}
  <2>1. member' = IF InMove(w) THEN member ELSE [member EXCEPT ![e] = @ \cup {a}]
    BY DEF Insert
  <2>2. \A f \in Events : ~ event[f].exists => member[f] = {}
    BY DEF Inv, Held
  <2>3. event[e].exists
    BY <1>0 DEF Existing
  <2>4. QED
    BY <1>0, <1>1, <1>8, <2>1, <2>2, <2>3
<1>10. \A v \in Writers : Holds(act[v]) => act[v].article \in member'[act[v].from]
  <2> SUFFICES ASSUME NEW v \in Writers, Holds(act[v])
               PROVE  act[v].article \in member'[act[v].from]
    OBVIOUS
  <2>1. act[v].article \in member[act[v].from] /\ act[v].from \in Events
    BY OfChange DEF WellFormed, Holds
  <2>2. QED
    BY <1>9, <2>1
<1>11. Holds(n) => n.article \in member'[n.from]
  BY <1>0, <1>2, <1>10 DEF Holds
<1>12. \A b \in Articles : Placed(b) => Placed(b)'
  BY <1>1, <1>9 DEF Placed
<1>13. w = Pipeline =>
         n.op \in {"none", "attach"} /\ \A b \in Articles : b = act[w].article => Placed(b)'
  <2> SUFFICES ASSUME w = Pipeline, NEW b \in Articles, b = a
               PROVE  n.op \in {"none", "attach"} /\ Placed(b)'
    BY <1>2, OfChange
  <2>1. n.op \in {"none", "attach"} /\ ~ InMove(w)
    BY <1>2, OfChange DEF InMove
  <2>2. b \in member'[e]
    BY <1>0, <1>8, <2>1 DEF Insert
  <2>3. QED
    BY <1>0, <2>1, <2>2 DEF Placed
<1>14. QED
  BY <1>1, <1>2, <1>3, <1>4, <1>6, <1>7, <1>9, <1>10, <1>11, <1>12, <1>13, WriterStep

LEMMA CommitStep == ASSUME Inv, NEW w \in Writers, Commit(w) PROVE Inv'
<1> DEFINE e == act[w].from
           f == act[w].to
           a == act[w].article
<1>0. /\ act[w].step = "commit" /\ act[w].op = "move" /\ act[w] \in Changes
      /\ e \in Existing /\ f \in Existing /\ e # f /\ a \in Articles
      /\ act[w].fromCount \in Nat /\ act[w].toCount \in Nat /\ w # Pipeline
  BY OfChange DEF Commit, WellFormed, Changes
<1>1. e \in Events /\ f \in Events /\ event[e].exists /\ event[f].exists
  BY <1>0 DEF Existing
<1>2. member' = [member EXCEPT ![e] = @ \ {a}, ![f] = @ \cup {a}]
  BY DEF Commit
<1>3. /\ act' = [act EXCEPT ![w] = NoAct]
      /\ UNCHANGED <<key, status, ppc, queue, group, taken, torn, troubles>>
  BY DEF Commit, stage
<1>4. /\ event' \in [Events -> EventRows]
      /\ \A g \in Events : event'[g].exists = event[g].exists
  <2> DEFINE first == [event EXCEPT ![e].count = act[w].fromCount]
  <2>1. event \in [Events -> EventRows]
    BY OfChange
  <2>2. event' = [event EXCEPT ![e].count = act[w].fromCount, ![f].count = act[w].toCount]
    BY DEF Commit
  <2>3. /\ [event[e] EXCEPT !.count = act[w].fromCount] \in EventRows
        /\ [event[f] EXCEPT !.count = act[w].toCount] \in EventRows
    BY <1>0, <1>1, <2>1 DEF EventRows
  <2>4. event' = [event EXCEPT ![e] = [event[e] EXCEPT !.count = act[w].fromCount],
                               ![f] = [event[f] EXCEPT !.count = act[w].toCount]]
    BY <1>0, <1>1, <2>1, <2>2
  <2>5. QED
    BY <1>0, <1>1, <2>1, <2>3, <2>4 DEF EventRows
<1>5. member \in [Events -> SUBSET Articles] /\ taken \subseteq Articles
  BY DEF Inv, TypeOK
<1>6. /\ member' \in [Events -> SUBSET Articles]
      /\ \A g \in Events : ~ event[g].exists => member'[g] = {}
  BY <1>0, <1>1, <1>2, <1>5 DEF Inv, Held
<1>7. \A v \in Writers \ {w} : Holds(act[v]) => act[v].article \in member'[act[v].from]
  <2> SUFFICES ASSUME NEW v \in Writers \ {w}, Holds(act[v])
               PROVE  act[v].article \in member'[act[v].from]
    OBVIOUS
  <2>1. act[v].article \in member[act[v].from] /\ act[v].from \in Events
    BY OfChange DEF WellFormed, Holds
  <2>2. <<act[v].from, act[v].article>> \in RowsOf(v)
    BY RowsOfAct DEF Rows, Holds
  <2>3. <<e, a>> \in RowsOf(w)
    BY <1>0, RowsOfAct DEF Rows
  <2>4. <<act[v].from, act[v].article>> # <<e, a>>
    BY <2>2, <2>3, OfChange
  <2>5. QED
    BY <1>0, <1>1, <1>2, <1>5, <2>1, <2>4
<1>8. \A b \in Articles : Placed(b) => Placed(b)'
  BY <1>0, <1>1, <1>2, <1>3, <1>5 DEF Placed
<1>9. torn' \subseteq Events /\ troubles' \in Nat /\ taken' \subseteq Articles
  BY <1>3, <1>5, OfChange
<1>10. /\ NoAct \in Changes /\ WellFormed(NoAct, Existing) /\ ~ Holds(NoAct)
       /\ \A v \in Writers \ {w} : Rows(NoAct) \cap RowsOf(v) = {}
  BY NoActTyped
<1>11. w # Pipeline
  BY <1>0
<1>12. QED
  BY <1>3, <1>4, <1>6, <1>7, <1>8, <1>9, <1>10, <1>11, WriterStep

LEMMA WriteStep == ASSUME Inv, NEW w \in Writers, Write(w) PROVE Inv'
BY DeleteStep, CountFromStep, StoreFromStep, InsertStep, CountToStep, StoreToStep, CommitStep,
   AbortStep
   DEF Write

-----------------------------------------------------------------------------
(* The event stage.                                                        *)

(* A step of the stage that leaves the members and the changes as they are. *)
LEMMA StageStep ==
  ASSUME Inv, UNCHANGED <<act, member, taken, torn, troubles>>,
         key' \in [Articles -> Keys \cup {None}],
         status' \in [Articles -> {"ENTITY_EXTRACTED", "EMBEDDED", "GROUPED"}],
         event' \in [Events -> EventRows], \A e \in Events : event'[e].exists = event[e].exists,
         ppc' \in {"idle", "group", "sweep"}, queue' \subseteq Articles, group' \in Groupings,
         \/ group' = NoGroup
         \/ group'.article = group.article /\ group'.event = group.event /\ group.step # "off"
         \/ group' = group
  PROVE  Inv'
<1>1. Existing' = Existing
  BY DEF Existing
<1>2. NoGroup.step = "off"
  BY DEF NoGroup
<1>3. TypeOK'
  BY DEF Inv, TypeOK
<1>4. Shape'
  BY <1>1, <1>2 DEF Inv, Shape
<1>5. Apart'
  BY DEF Inv, Held, Apart, RowsOf, InMove
<1>6. Held'
  BY <1>5 DEF Inv, Held
<1>7. Placing'
  BY <1>2 DEF Inv, Placing, Placed
<1>8. QED
  BY <1>3, <1>4, <1>6, <1>7 DEF Inv

LEMMA OfStage ==
  ASSUME Inv
  PROVE  /\ key \in [Articles -> Keys \cup {None}]
         /\ status \in [Articles -> {"ENTITY_EXTRACTED", "EMBEDDED", "GROUPED"}]
         /\ event \in [Events -> EventRows] /\ member \in [Events -> SUBSET Articles]
         /\ ppc \in {"idle", "group", "sweep"} /\ queue \subseteq Articles
         /\ group \in Groupings /\ NoGroup \in Groupings
         /\ taken \subseteq Articles /\ torn \subseteq Events /\ troubles \in Nat
BY DEF Inv, TypeOK, NoGroup, Groupings

LEMMA ListsStep ==
  ASSUME Inv, StartRun \/ FinishGrouping \/ FinishRun
  PROVE  Inv'
<1>1. /\ UNCHANGED <<key, status, event, member, group, act, taken, torn, troubles>>
      /\ ppc' \in {"idle", "group", "sweep"}
  BY DEF StartRun, FinishGrouping, FinishRun, tables
<1>2. queue' \subseteq Articles
  BY OfStage DEF StartRun, FinishGrouping, FinishRun
<1>3. QED
  BY <1>1, <1>2, OfStage, StageStep

LEMMA CopyVectorStep == ASSUME Inv, CopyVector PROVE Inv'
<1>1. /\ event' \in [Events -> EventRows]
      /\ \A e \in Events : event'[e].exists = event[e].exists
  <2>1. group.event \in Events /\ group.article \in Articles
    BY DEF CopyVector, Inv, Shape, Existing
  <2>2. [event[group.event] EXCEPT !.vector = group.article] \in EventRows
    BY <2>1, OfStage DEF EventRows
  <2>3. event' = event \/ event' = [event EXCEPT ![group.event].vector = group.article]
    BY DEF CopyVector
  <2>4. QED
    BY <2>1, <2>2, <2>3, OfStage DEF EventRows
<1>2. /\ group' \in Groupings /\ group.step # "off"
      /\ group'.article = group.article /\ group'.event = group.event
  BY OfStage DEF CopyVector, Groupings
<1>3. UNCHANGED <<key, status, member, ppc, queue, act, taken, torn, troubles>>
  BY DEF CopyVector
<1>4. QED
  BY <1>1, <1>2, <1>3, OfStage, StageStep

LEMMA SweepStep == ASSUME Inv, NEW e \in Events, Sweep(e) PROVE Inv'
<1>1. PICK a \in member[e] : event' = [event EXCEPT ![e].vector = a]
  BY DEF Sweep
<1>2. a \in Articles
  BY <1>1, OfStage
<1>3. [event[e] EXCEPT !.vector = a] \in EventRows
  BY <1>2, OfStage DEF EventRows
<1>4. /\ event' \in [Events -> EventRows]
      /\ \A f \in Events : event'[f].exists = event[f].exists
  BY <1>1, <1>3, OfStage DEF EventRows
<1>5. UNCHANGED <<key, status, member, ppc, queue, group, act, taken, torn, troubles>>
  BY DEF Sweep, stage
<1>6. QED
  BY <1>4, <1>5, OfStage, StageStep

LEMMA MarkGroupedStep == ASSUME Inv, MarkGrouped PROVE Inv'
<1>1. UNCHANGED <<key, event, member, ppc, act, taken, torn, troubles>> /\ group' = NoGroup
  BY DEF MarkGrouped
<1>2. status' \in [Articles -> {"ENTITY_EXTRACTED", "EMBEDDED", "GROUPED"}]
      /\ queue' \subseteq Articles
  BY OfStage DEF MarkGrouped
<1>3. QED
  BY <1>1, <1>2, OfStage, StageStep

LEMMA EmbedStep ==
  ASSUME Inv, NEW a \in Articles, NEW k \in Keys \cup {None}, Embed(a, k)
  PROVE  Inv'
<1>1. UNCHANGED <<event, member, ppc, queue, group, act, taken, torn, troubles>>
  BY DEF Embed, stage
<1>2. /\ status' \in [Articles -> {"ENTITY_EXTRACTED", "EMBEDDED", "GROUPED"}]
      /\ key' \in [Articles -> Keys \cup {None}]
  BY OfStage DEF Embed
<1>3. QED
  BY <1>1, <1>2, OfStage, StageStep

LEMMA AttachingTyped ==
  ASSUME NEW a \in Articles, NEW existing, NEW e \in existing, e \in Events
  PROVE  LET m == Attaching(a, e) IN
         /\ m \in Changes /\ WellFormed(m, existing) /\ Rows(m) = {} /\ ~ Holds(m)
         /\ m.op = "attach" /\ m.step = "insert" /\ m.article = a
<1> DEFINE m == Attaching(a, e)
<1>1. /\ m \in Changes
      /\ m.op = "attach" /\ m.step = "insert" /\ m.article = a /\ m.to = e
  BY DEF Attaching, NoAct, Changes, Steps
<1>2. QED
  BY <1>1 DEF WellFormed, Rows, Holds

(* The stage begins to attach an article to an event that exists by then.  *)
LEMMA StageAttaches ==
  ASSUME Inv, NEW a \in Articles, NEW e \in Events, NEW s \in {"attach", "copy"},
         group' = [article |-> a, event |-> e, step |-> s],
         act' = [act EXCEPT ![Pipeline] = Attaching(a, e)],
         event' \in [Events -> EventRows], event'[e].exists,
         \A f \in Events : event[f].exists => event'[f].exists,
         UNCHANGED <<key, status, member, ppc, queue, taken, torn, troubles>>
  PROVE  Inv'
<1> DEFINE m == Attaching(a, e)
<1>1. Existing \subseteq Existing' /\ e \in Existing'
  BY DEF Existing
<1>2. /\ m \in Changes /\ WellFormed(m, Existing') /\ Rows(m) = {} /\ ~ Holds(m)
      /\ m.op = "attach" /\ m.step = "insert" /\ m.article = a
  BY <1>1, AttachingTyped
<1>3. act' = [act EXCEPT ![Pipeline] = m]
  OBVIOUS
<1> HIDE DEF m
<1>4. /\ act' \in [Writers -> Changes]
      /\ \A v \in Writers : WellFormed(act'[v], Existing')
      /\ act'[Pipeline] = m /\ \A v \in Writers \ {Pipeline} : act'[v] = act[v]
  BY <1>1, <1>2, <1>3, Slots, ActReplaced DEF Inv
<1>5. TypeOK'
  BY <1>4 DEF Inv, TypeOK, Groupings
<1>6. Shape'
  BY <1>1, <1>2, <1>4 DEF Shape
<1>7. Apart'
  BY <1>2, <1>4, Slots, LocksKept DEF Inv, Held
<1>8. Held'
  BY <1>2, <1>4, <1>7, Slots DEF Inv, Held
<1>9. Placing'
  BY <1>2, <1>4 DEF Placing
<1>10. QED
  BY <1>5, <1>6, <1>8, <1>9 DEF Inv

LEMMA GroupStep ==
  ASSUME Inv, NEW a \in Articles, NEW e \in Events, AttachToEvent(a, e) \/ CreateEvent(a, e)
  PROVE  Inv'
<1>1. CASE AttachToEvent(a, e)
  <2>1. e \in Existing
    BY <1>1 DEF AttachToEvent, Candidates, KeyMatches, OwnVector, Embedded
  <2>2. UNCHANGED <<key, status, event, member, ppc, queue, taken, torn, troubles>>
    BY <1>1 DEF AttachToEvent, tables
  <2>3. event' \in [Events -> EventRows] /\ event'[e].exists
    BY <2>1, <2>2, OfStage DEF Existing
  <2>4. QED
    BY <1>1, <2>2, <2>3, StageAttaches DEF AttachToEvent
<1>2. CASE CreateEvent(a, e)
  <2> DEFINE r == [exists |-> TRUE, key |-> key[a], vector |-> None, count |-> 0]
  <2>1. r \in EventRows /\ r.exists
    BY OfStage DEF EventRows
  <2>2. event' = [event EXCEPT ![e] = r]
    BY <1>2 DEF CreateEvent
  <2> HIDE DEF r
  <2>3. /\ event' \in [Events -> EventRows] /\ event'[e].exists
        /\ \A f \in Events : event[f].exists => event'[f].exists
    BY <2>1, <2>2, OfStage
  <2>4. QED
    BY <1>2, <2>3, StageAttaches DEF CreateEvent
<1>3. QED
  BY <1>1, <1>2

LEMMA RunDiesStep == ASSUME Inv, RunDies PROVE Inv'
<1>1. /\ UNCHANGED <<key, status, event, member, taken>>
      /\ act' = [act EXCEPT ![Pipeline] = NoAct] /\ group' = NoGroup
      /\ ppc' = "idle" /\ queue' = {} /\ NoGroup.step = "off" /\ NoAct.op = "none"
  BY DEF RunDies, tables, NoGroup, NoAct
<1>2. torn' \subseteq Events /\ troubles' \in Nat
  BY OfStage DEF RunDies, Trouble, Halves
<1>3. Existing' = Existing
  BY <1>1 DEF Existing
<1>4. /\ act' \in [Writers -> Changes]
      /\ \A v \in Writers : WellFormed(act'[v], Existing')
      /\ act'[Pipeline] = NoAct /\ \A v \in Writers \ {Pipeline} : act'[v] = act[v]
  BY <1>1, <1>3, Slots, NoActTyped, ActReplaced DEF Inv
<1>5. TypeOK'
  BY <1>1, <1>2, <1>4, OfStage DEF TypeOK
<1>6. Shape'
  BY <1>1, <1>4 DEF Shape
<1>7. Apart'
  BY <1>4, Slots, NoActTyped, LocksKept DEF Inv, Held
<1>8. Held'
  BY <1>1, <1>4, <1>7, Slots, NoActTyped DEF Inv, Held
<1>9. Placing'
  BY <1>1 DEF Placing
<1>10. QED
  BY <1>5, <1>6, <1>8, <1>9 DEF Inv

-----------------------------------------------------------------------------
(* The editorial operations.                                               *)

LEMMA EditStep ==
  ASSUME Inv, NEW n \in Analysts, NEW m \in Changes, Edit(n, m), WellFormed(m, Existing),
         Rows(m) = {}, ~ Holds(m)
  PROVE  Inv'
<1>1. /\ UNCHANGED <<key, status, event, member, ppc, queue, group, taken, torn>>
      /\ act' = [act EXCEPT ![n] = m] /\ troubles' \in Nat
  BY OfStage DEF Edit, Request, Trouble, tables, stage
<1>2. n \in Writers /\ n # Pipeline
  BY Slots
<1>3. torn' \subseteq Events /\ event' \in [Events -> EventRows]
  BY <1>1, OfStage
<1>4. \A v \in Writers \ {n} : Rows(m) \cap RowsOf(v) = {}
  OBVIOUS
<1>5. \A e \in Events : event'[e].exists = event[e].exists
  BY <1>1
<1>6. QED
  BY <1>1, <1>2, <1>3, <1>4, <1>5, QuietStep

LEMMA RequestsStep ==
  ASSUME Inv, NEW n \in Analysts, NEW a \in Articles, NEW e \in Events,
         \/ AttachArticle(n, a, e) \/ DetachArticle(n, a, e)
         \/ \E f \in Events : MoveArticle(n, a, e, f)
  PROVE  Inv'
<1>0. \A x \in Events : member[x] # {} => x \in Existing
  BY DEF Inv, Held, Existing
<1>1. CASE AttachArticle(n, a, e)
  BY <1>1, AttachingTyped, EditStep DEF AttachArticle
<1>2. CASE DetachArticle(n, a, e)
  <2> DEFINE m == [NoAct EXCEPT !.op = "detach", !.step = "delete", !.article = a, !.from = e]
  <2>1. /\ m \in Changes
        /\ m.op = "detach" /\ m.step = "delete" /\ m.article = a /\ m.from = e
    BY DEF NoAct, Changes, Steps
  <2>2. e \in Existing /\ Edit(n, m)
    BY <1>0, <1>2 DEF DetachArticle
  <2> HIDE DEF m
  <2>3. m \in Changes /\ WellFormed(m, Existing) /\ Rows(m) = {} /\ ~ Holds(m)
    BY <2>1, <2>2 DEF WellFormed, Rows, Holds
  <2>4. QED
    BY <2>2, <2>3, EditStep
<1>3. ASSUME NEW f \in Events, MoveArticle(n, a, e, f)
      PROVE  Inv'
  <2> DEFINE m == [NoAct EXCEPT !.op = "move", !.step = "delete", !.article = a,
                                !.from = e, !.to = f]
  <2>1. /\ m \in Changes /\ m.op = "move" /\ m.step = "delete"
        /\ m.article = a /\ m.from = e /\ m.to = f
    BY DEF NoAct, Changes, Steps
  <2>2. e \in Existing /\ f \in Existing /\ e # f /\ Edit(n, m)
    BY <1>0, <1>3 DEF MoveArticle
  <2> HIDE DEF m
  <2>3. m \in Changes /\ WellFormed(m, Existing) /\ Rows(m) = {} /\ ~ Holds(m)
    BY <2>1, <2>2 DEF WellFormed, Rows, Holds
  <2>4. QED
    BY <2>2, <2>3, EditStep
<1>4. QED
  BY <1>1, <1>2, <1>3

LEMMA RequestDiesStep == ASSUME Inv, NEW n \in Analysts, RequestDies(n) PROVE Inv'
<1>1. /\ act' = [act EXCEPT ![n] = NoAct] /\ UNCHANGED <<tables, stage, taken>>
      /\ torn' \subseteq Events /\ troubles' \in Nat
  BY OfStage DEF RequestDies, Trouble, Halves
<1>2. n \in Writers /\ n # Pipeline
  BY Slots
<1>3. QED
  BY <1>1, <1>2, GivenUp

LEMMA CreateFromArticlesStep ==
  ASSUME Inv, NEW n \in Analysts, NEW S \in SUBSET Articles, NEW e \in Events,
         CreateFromArticles(n, S, e)
  PROVE  Inv'
<1> DEFINE r == [exists |-> TRUE, key |-> None, vector |-> None, count |-> Cardinality(S)]
<1>1. /\ UNCHANGED <<key, status, ppc, queue, group, act, taken, torn>>
      /\ event' = [event EXCEPT ![e] = r] /\ member' = [member EXCEPT ![e] = S]
      /\ troubles' \in Nat /\ e \notin Existing
  BY OfStage DEF CreateFromArticles, Request, Trouble, NextEvent, stage
<1>2. r \in EventRows /\ r.exists
  BY GroupingAssumption, FS_Subset, FS_CardinalityType DEF EventRows
<1> HIDE DEF r
<1>3. /\ event' \in [Events -> EventRows] /\ event'[e].exists
      /\ \A f \in Events \ {e} : event'[f] = event[f] /\ member'[f] = member[f]
      /\ member' \in [Events -> SUBSET Articles] /\ member[e] = {}
  BY <1>1, <1>2, OfStage DEF Inv, Held, Existing
<1>4. Existing \subseteq Existing'
  BY <1>3 DEF Existing
<1>5. TypeOK'
  BY <1>1, <1>3 DEF Inv, TypeOK
<1>6. Shape'
  BY <1>1, <1>4 DEF Inv, Shape, WellFormed
<1>7. Apart'
  BY <1>1 DEF Inv, Held, Apart, RowsOf, InMove
<1>8. Held'
  <2>1. \A w \in Writers : Holds(act[w]) => act[w].from \in Existing
    BY DEF Inv, Shape, WellFormed, Holds
  <2>2. \A w \in Writers : Holds(act[w]) => act[w].article \in member'[act[w].from]
    BY <1>1, <1>3, <2>1 DEF Inv, Held, Existing
  <2>3. \A f \in Events : ~ event'[f].exists => member'[f] = {}
    BY <1>3 DEF Inv, Held
  <2>4. QED
    BY <1>1, <1>7, <2>2, <2>3 DEF Held
<1>9. Placing'
  <2>1. \A a \in Articles : Placed(a) => Placed(a)'
    BY <1>1, <1>3 DEF Placed
  <2>2. QED
    BY <1>1, <2>1 DEF Inv, Placing, Shape
<1>10. QED
  BY <1>5, <1>6, <1>8, <1>9 DEF Inv

-----------------------------------------------------------------------------
LEMMA Initially == Init => Inv
<1> SUFFICES ASSUME Init PROVE Inv
  OBVIOUS
<1>1. TypeOK
  BY GroupingAssumption
     DEF Init, TypeOK, NoEvent, NoGroup, NoAct, EventRows, Groupings, Changes, Steps
<1>2. Shape
  BY NoActTyped, Slots DEF Init, Shape, NoGroup, NoAct
<1>3. Held
  BY NoActTyped, RowsOfAct DEF Init, Held, Apart
<1>4. Placing
  BY DEF Init, Placing, NoGroup
<1>5. QED
  BY <1>1, <1>2, <1>3, <1>4 DEF Inv

LEMMA Always == Inv /\ [Next]_vars => Inv'
<1> SUFFICES ASSUME Inv, [Next]_vars PROVE Inv'
  OBVIOUS
<1>1. CASE UNCHANGED vars
  BY <1>1, OfStage, StageStep DEF vars, tables, stage
<1>2. CASE RunStep
  BY <1>2, Slots, ListsStep, GroupStep, WriteStep, CopyVectorStep, MarkGroupedStep, SweepStep
     DEF RunStep
<1>3. CASE AnalystStep
  BY <1>3, Slots, WriteStep, RequestsStep, CreateFromArticlesStep DEF AnalystStep
<1>4. CASE Fault
  BY <1>4, RunDiesStep, RequestDiesStep DEF Fault
<1>5. QED
  BY <1>1, <1>2, <1>3, <1>4, EmbedStep DEF Next

(* Every table, the stage and every request keep their types.              *)
THEOREM TypeCorrect == Spec => []TypeOK
<1>1. Inv => TypeOK
  BY DEF Inv
<1>2. QED
  BY <1>1, Initially, Always, PTL DEF Spec

-----------------------------------------------------------------------------
(* One event per key.                                                      *)

SameKeys == \A e \in Events : event'[e].exists = event[e].exists /\ event'[e].key = event[e].key

LEMMA WritingKeepsKeys ==
  ASSUME Inv, NEW w \in Writers, Write(w)
  PROVE  SameKeys
<1>1. /\ event \in [Events -> EventRows]
      /\ act[w].step \in {"storeFrom", "commit"} => act[w].from \in Events
      /\ act[w].step \in {"storeTo", "commit"} => act[w].to \in Events
  BY OfChange DEF WellFormed
<1>2. CASE Delete(w) \/ CountFrom(w) \/ Insert(w) \/ CountTo(w) \/ AbortDeadlock(w)
  BY <1>2 DEF SameKeys, Delete, CountFrom, Insert, CountTo, AbortDeadlock, tables
<1>3. CASE StoreFrom(w)
  <2>1. UNCHANGED event \/ event' = [event EXCEPT ![act[w].from].count = act[w].fromCount]
    BY <1>3 DEF StoreFrom
  <2>2. QED
    BY <1>1, <2>1 DEF SameKeys, EventRows
<1>4. CASE StoreTo(w)
  <2>1. UNCHANGED event \/ event' = [event EXCEPT ![act[w].to].count = act[w].toCount]
    BY <1>4 DEF StoreTo
  <2>2. QED
    BY <1>1, <2>1 DEF SameKeys, EventRows
<1>5. CASE Commit(w)
  <2>1. event' = [event EXCEPT ![act[w].from].count = act[w].fromCount,
                               ![act[w].to].count = act[w].toCount]
    BY <1>5 DEF Commit
  <2>2. QED
    BY <1>1, <2>1 DEF SameKeys, EventRows
<1>6. QED
  BY <1>2, <1>3, <1>4, <1>5 DEF Write

LEMMA VectorsKeepKeys ==
  ASSUME Inv, CopyVector \/ \E e \in Events : Sweep(e)
  PROVE  SameKeys
<1>1. CASE CopyVector
  <2>1. UNCHANGED event \/ event' = [event EXCEPT ![group.event].vector = group.article]
    BY <1>1 DEF CopyVector
  <2>2. QED
    BY <2>1, OfStage DEF SameKeys, EventRows
<1>2. ASSUME NEW e \in Events, Sweep(e)
      PROVE  SameKeys
  <2>1. PICK a \in Articles : event' = [event EXCEPT ![e].vector = a]
    BY <1>2, OfStage DEF Sweep
  <2>2. QED
    BY <2>1, OfStage DEF SameKeys, EventRows
<1>3. QED
  BY <1>1, <1>2

(* Only the stage and an analyst found an event, each with a key that no   *)
(* event has.                                                              *)
LEMMA Founding ==
  ASSUME Inv, NEW e \in Events, NEW r \in EventRows, event' = [event EXCEPT ![e] = r],
         r.key = None \/ \A f \in Existing : event[f].key # r.key, OneEventPerKey
  PROVE  OneEventPerKey'
<1>1. \A f \in Events \ {e} : event'[f] = event[f]
  BY OfStage
<1>2. event'[e] = r
  BY OfStage
<1>3. QED
  BY <1>1, <1>2 DEF OneEventPerKey, Existing

LEMMA KeysStay == Inv /\ OneEventPerKey /\ [Next]_vars => OneEventPerKey'
<1> SUFFICES ASSUME Inv, OneEventPerKey, [Next]_vars PROVE OneEventPerKey'
  OBVIOUS
<1>1. SameKeys => OneEventPerKey'
  BY DEF SameKeys, OneEventPerKey, Existing
<1>2. CASE UNCHANGED event
  BY <1>1, <1>2 DEF SameKeys
<1>3. ASSUME NEW a \in Articles, NEW e \in Events, CreateEvent(a, e)
      PROVE  OneEventPerKey'
  <2> DEFINE r == [exists |-> TRUE, key |-> key[a], vector |-> None, count |-> 0]
  <2>1. r \in EventRows /\ event' = [event EXCEPT ![e] = r]
    BY <1>3, OfStage DEF CreateEvent, EventRows
  <2>2. r.key = None \/ \A f \in Existing : event[f].key # r.key
    BY <1>3 DEF CreateEvent, Decided, KeyMatches
  <2> HIDE DEF r
  <2>3. QED
    BY <2>1, <2>2, Founding
<1>4. ASSUME NEW n \in Analysts, NEW S \in SUBSET Articles, NEW e \in Events,
             CreateFromArticles(n, S, e)
      PROVE  OneEventPerKey'
  <2> DEFINE r == [exists |-> TRUE, key |-> None, vector |-> None, count |-> Cardinality(S)]
  <2>1. r \in EventRows /\ r.key = None
    BY GroupingAssumption, FS_Subset, FS_CardinalityType DEF EventRows
  <2>2. event' = [event EXCEPT ![e] = r]
    BY <1>4 DEF CreateFromArticles
  <2> HIDE DEF r
  <2>3. QED
    BY <2>1, <2>2, Founding
<1>5. CASE RunStep
  <2>1. CASE StartRun \/ FinishGrouping \/ FinishRun \/ MarkGrouped
    BY <1>2, <2>1 DEF StartRun, FinishGrouping, FinishRun, MarkGrouped, tables
  <2>2. ASSUME NEW a \in Articles, NEW e \in Events, AttachToEvent(a, e)
        PROVE  OneEventPerKey'
    BY <1>2, <2>2 DEF AttachToEvent, tables
  <2>3. QED
    BY <1>1, <1>3, <1>5, <2>1, <2>2, Slots, WritingKeepsKeys, VectorsKeepKeys DEF RunStep
<1>6. CASE AnalystStep
  <2>1. ASSUME NEW n \in Analysts, NEW m, Edit(n, m)
        PROVE  OneEventPerKey'
    BY <1>2, <2>1 DEF Edit, tables
  <2>2. ASSUME NEW n \in Analysts, NEW a \in Articles, NEW e \in Events,
               \/ AttachArticle(n, a, e) \/ DetachArticle(n, a, e)
               \/ \E f \in Events : MoveArticle(n, a, e, f)
        PROVE  OneEventPerKey'
    BY <2>1, <2>2 DEF AttachArticle, DetachArticle, MoveArticle
  <2>3. QED
    BY <1>1, <1>4, <1>6, <2>2, Slots, WritingKeepsKeys DEF AnalystStep
<1>7. CASE Fault
  BY <1>2, <1>7 DEF Fault, RunDies, RequestDies, tables
<1>8. CASE \E a \in Articles, k \in Keys \cup {None} : Embed(a, k)
  BY <1>2, <1>8 DEF Embed
<1>9. QED
  BY <1>2, <1>5, <1>6, <1>7, <1>8 DEF Next, vars, tables

(* The ladder keeps one event per grouping key, whatever runs and requests *)
(* die between their statements.                                           *)
THEOREM KeysIdentifyEvents == Spec => []OneEventPerKey
<1>1. Init => OneEventPerKey
  BY DEF Init, OneEventPerKey, Existing, NoEvent
<1>2. QED
  BY <1>1, Initially, Always, KeysStay, PTL DEF Spec

-----------------------------------------------------------------------------
(* The stage and the requests implement ArticleMembership.                 *)

In == [a \in Articles |-> {e \in Events : a \in member[e]}]
Grouped == {a \in Articles : status[a] = "GROUPED"}

Promised == Membership!Next \/ UNCHANGED <<In, Grouped, taken>>

LEMMA Unseen ==
  ASSUME UNCHANGED <<status, member, taken>>
  PROVE  Promised
BY DEF Promised, In, Grouped

(* The events of one article after those of one event have changed.        *)
LEMMA MembersReplaced ==
  ASSUME Inv, NEW e \in Events, NEW M \in SUBSET Articles, member' = [member EXCEPT ![e] = M]
  PROVE  In' = [a \in Articles |-> IF a \in M THEN In[a] \cup {e} ELSE In[a] \ {e}]
<1>1. \A f \in Events : member'[f] = IF f = e THEN M ELSE member[f]
  BY OfStage
<1>2. \A a \in Articles : {f \in Events : a \in member'[f]} =
                            IF a \in M THEN {f \in Events : a \in member[f]} \cup {e}
                            ELSE {f \in Events : a \in member[f]} \ {e}
  BY <1>1
<1>3. QED
  BY <1>2 DEF In

LEMMA InTyped ==
  ASSUME Inv, NEW a \in Articles
  PROVE  /\ In \in [Articles -> SUBSET Events]
         /\ \A e \in Events : e \in In[a] <=> a \in member[e]
BY DEF In

LEMMA DeletePromised ==
  ASSUME Inv, NEW w \in Writers, Delete(w)
  PROVE  Promised
<1>1. PICK e \in Events, a \in Articles : e = act[w].from /\ a = act[w].article
  BY OfChange DEF Delete, WellFormed
<1>2. CASE UNCHANGED <<member, taken>>
  BY <1>2, Unseen DEF Delete
<1>3. CASE a \in member[e] /\ member' = [member EXCEPT ![e] = @ \ {a}] /\ taken' = taken \cup {a}
  <2>1. member' = [member EXCEPT ![e] = member[e] \ {a}] /\ member[e] \ {a} \in SUBSET Articles
    BY <1>3, OfStage, <1>1
  <2>2. In' = [b \in Articles |-> IF b \in member[e] \ {a} THEN In[b] \cup {e} ELSE In[b] \ {e}]
    BY <1>1, <2>1, MembersReplaced
  <2>3. \A b \in Articles : In'[b] = IF b = a THEN In[b] \ {e} ELSE In[b]
    BY <1>1, <2>2, InTyped
  <2>4. In' = [In EXCEPT ![a] = @ \ {e}]
    BY <1>1, <2>2, <2>3, InTyped
  <2>5. Grouped' = Grouped
    BY DEF Delete, Grouped
  <2>6. Membership!Detach(a, e)
    BY <1>1, <1>3, <2>4, <2>5, InTyped DEF Membership!Detach, In, Grouped
  <2>7. QED
    BY <1>1, <2>6 DEF Promised, Membership!Next
<1>4. QED
  BY <1>1, <1>2, <1>3 DEF Delete

LEMMA InsertPromised ==
  ASSUME Inv, NEW w \in Writers, Insert(w)
  PROVE  Promised
<1>1. PICK e \in Events, a \in Articles : e = act[w].to /\ a = act[w].article
  BY OfChange DEF Insert, WellFormed
<1>2. CASE member' = member
  BY <1>1, <1>2, Unseen DEF Insert
<1>3. CASE member' = [member EXCEPT ![e] = @ \cup {a}]
  <2>1. member' = [member EXCEPT ![e] = member[e] \cup {a}]
        /\ member[e] \cup {a} \in SUBSET Articles
    BY <1>1, <1>3, OfStage
  <2>2. In' = [b \in Articles |-> IF b \in member[e] \cup {a} THEN In[b] \cup {e} ELSE In[b] \ {e}]
    BY <1>1, <2>1, MembersReplaced
  <2>3. \A b \in Articles : In'[b] = IF b = a THEN In[b] \cup {e} ELSE In[b]
    BY <1>1, <2>2, InTyped
  <2>4. In' = [In EXCEPT ![a] = @ \cup {e}]
    BY <1>1, <2>2, <2>3, InTyped
  <2>5. Membership!Join(a, e)
    BY <1>1, <2>4 DEF Membership!Join, In, Grouped, Insert
  <2>6. QED
    BY <1>1, <2>5 DEF Promised, Membership!Next
<1>4. QED
  BY <1>1, <1>2, <1>3 DEF Insert

LEMMA CommitPromised ==
  ASSUME Inv, NEW w \in Writers, Commit(w)
  PROVE  Promised
<1>1. PICK e \in Events, f \in Events, a \in Articles :
        /\ e = act[w].from /\ f = act[w].to /\ a = act[w].article
        /\ e # f /\ a \in member[e]
  BY OfChange DEF Commit, WellFormed, Holds
<1>2. member' = [member EXCEPT ![e] = @ \ {a}, ![f] = @ \cup {a}]
  BY <1>1 DEF Commit
<1>3. \A g \in Events : member'[g] = IF g = e THEN member[g] \ {a}
                                     ELSE IF g = f THEN member[g] \cup {a} ELSE member[g]
  BY <1>1, <1>2, OfStage
<1>4. \A b \in Articles : {g \in Events : b \in member'[g]} =
                            IF b = a THEN ({g \in Events : b \in member[g]} \ {e}) \cup {f}
                            ELSE {g \in Events : b \in member[g]}
  BY <1>1, <1>3
<1>5. In' = [In EXCEPT ![a] = (@ \ {e}) \cup {f}]
  <2>1. In' = [b \in Articles |-> IF b = a THEN (In[a] \ {e}) \cup {f} ELSE In[b]]
    BY <1>4 DEF In
  <2>2. QED
    BY <2>1, InTyped
<1>6. Membership!Move(a, e, f)
  BY <1>1, <1>5, InTyped DEF Membership!Move, Commit, In, Grouped
<1>7. QED
  BY <1>1, <1>6 DEF Promised, Membership!Next

LEMMA FoundPromised ==
  ASSUME Inv, NEW n \in Analysts, NEW S \in SUBSET Articles \ {{}}, NEW e \in Events,
         CreateFromArticles(n, S, e)
  PROVE  Promised
<1>1. member[e] = {} /\ member' = [member EXCEPT ![e] = S] /\ UNCHANGED <<status, taken>>
  BY DEF CreateFromArticles, NextEvent, Existing, Inv, Held
<1>2. In' = [a \in Articles |-> IF a \in S THEN In[a] \cup {e} ELSE In[a] \ {e}]
  BY <1>1, MembersReplaced
<1>3. \A a \in Articles : e \notin In[a]
  BY <1>1, InTyped
<1>4. In' = [a \in Articles |-> IF a \in S THEN In[a] \cup {e} ELSE In[a]]
  BY <1>2, <1>3
<1>5. Membership!Found(S, e)
  BY <1>1, <1>3, <1>4 DEF Membership!Found, In
<1>6. QED
  BY <1>5 DEF Promised, Membership!Next

LEMMA MarkPromised == ASSUME Inv, MarkGrouped PROVE Promised
<1>1. PICK a \in Articles : a = group.article
  BY DEF MarkGrouped, Inv, Shape
<1>2. Placed(a)
  BY <1>1 DEF MarkGrouped, Free, Inv, Placing
<1>3. In[a] # {} \/ a \in taken
  BY <1>1, <1>2, InTyped DEF Placed
<1>4. status' = [status EXCEPT ![a] = "GROUPED"]
  BY <1>1 DEF MarkGrouped
<1>5. Grouped' = Grouped \cup {a}
  BY <1>1, <1>4, OfStage DEF Grouped
<1>6. Membership!Mark(a)
  BY <1>3, <1>5 DEF Membership!Mark, MarkGrouped, In, Grouped
<1>7. QED
  BY <1>1, <1>6 DEF Promised, Membership!Next

LEMMA WritePromised ==
  ASSUME Inv, NEW w \in Writers, Write(w)
  PROVE  Promised
<1>1. CASE CountFrom(w) \/ StoreFrom(w) \/ CountTo(w) \/ StoreTo(w) \/ AbortDeadlock(w)
  BY <1>1, Unseen DEF CountFrom, StoreFrom, CountTo, StoreTo, AbortDeadlock, tables
<1>2. QED
  BY <1>1, DeletePromised, InsertPromised, CommitPromised DEF Write

LEMMA StepPromised ==
  ASSUME Inv, [Next]_vars
  PROVE  Promised
<1>1. CASE UNCHANGED vars
  BY <1>1, Unseen DEF vars, tables
<1>2. CASE RunStep
  <2>1. CASE StartRun \/ FinishGrouping \/ FinishRun \/ CopyVector
    BY <2>1, Unseen DEF StartRun, FinishGrouping, FinishRun, CopyVector, tables
  <2>2. ASSUME NEW a \in Articles, NEW e \in Events,
               AttachToEvent(a, e) \/ CreateEvent(a, e) \/ Sweep(e)
        PROVE  Promised
    BY <2>2, Unseen DEF AttachToEvent, CreateEvent, Sweep, tables
  <2>3. CASE \E e \in Events : Sweep(e)
    BY <2>3, Unseen DEF Sweep
  <2>4. QED
    BY <1>2, <2>1, <2>2, <2>3, Slots, WritePromised, MarkPromised DEF RunStep
<1>3. CASE AnalystStep
  <2>1. ASSUME NEW n \in Analysts, NEW m, Edit(n, m)
        PROVE  Promised
    BY <2>1, Unseen DEF Edit, tables
  <2>2. ASSUME NEW n \in Analysts, NEW a \in Articles, NEW e \in Events,
               \/ AttachArticle(n, a, e) \/ DetachArticle(n, a, e)
               \/ \E f \in Events : MoveArticle(n, a, e, f)
        PROVE  Promised
    BY <2>1, <2>2 DEF AttachArticle, DetachArticle, MoveArticle
  <2>3. QED
    BY <1>3, <2>2, Slots, WritePromised, FoundPromised DEF AnalystStep
<1>4. CASE Fault
  BY <1>4, Unseen DEF Fault, RunDies, RequestDies, tables
<1>5. CASE \E a \in Articles, k \in Keys \cup {None} : Embed(a, k)
  <2>1. PICK a \in Articles : /\ status[a] = "ENTITY_EXTRACTED"
                              /\ status' = [status EXCEPT ![a] = "EMBEDDED"]
                              /\ UNCHANGED <<member, taken>>
    BY <1>5 DEF Embed
  <2>2. Grouped' = Grouped
    BY <2>1, OfStage DEF Grouped
  <2>3. QED
    BY <2>1, <2>2 DEF Promised, In
<1>6. QED
  BY <1>1, <1>2, <1>3, <1>4, <1>5 DEF Next

(* The stage and the editorial operations implement ArticleMembership: an  *)
(* article is only marked when it is in an event, unless an analyst has    *)
(* taken it out of one, and nobody sees a moved article in no event or in  *)
(* both.                                                                   *)
THEOREM MembershipImplemented == Spec => ImplementsMembership
<1>1. Init => Membership!Init
  BY DEF Init, Membership!Init
<1>2. Inv /\ [Next]_vars => [Membership!Next]_(Membership!vars)
  BY StepPromised DEF Promised, Membership!vars, In, Grouped
<1>3. QED
  BY <1>1, <1>2, Initially, Always, PTL DEF Spec, ImplementsMembership, Membership!Spec
-----------------------------------------------------------------------------
(* The counts of sources.                                                  *)

(* The change m has changed a member of e and not stored the count.        *)
Changing(m, e) ==
  \/ /\ m.from = e
     /\ \/ m.step \in {"countFrom", "storeFrom"}
        \/ m.op = "move" /\ m.step \notin {"off", "delete"}
  \/ m.to = e /\ m.step \in {"countTo", "storeTo", "commit"}

(* What m sees of the members M of e.                                      *)
Sees(m, e, M) ==
  IF m.op # "move" THEN M
  ELSE (IF e = m.from THEN M \ {m.article} ELSE M) \cup (IF e = m.to THEN {m.article} ELSE {})

(* What m has counted and not stored for others to see.                    *)
Tallied(m, e, M) ==
  /\ /\ m.from = e
     /\ \/ m.step = "storeFrom"
        \/ m.op = "move" /\ m.step \in {"insert", "countTo", "storeTo", "commit"}
     => m.fromCount = Cardinality(Sees(m, e, M))
  /\ m.to = e /\ m.step \in {"storeTo", "commit"} => m.toCount = Cardinality(Sees(m, e, M))

(* As long as one writer at a time has changed e, what it has counted is   *)
(* what there is to count; and where the committed count is off, that      *)
(* writer is no transaction.                                               *)
CountOf(e) ==
  /\ \A v, w \in Writers : Changing(act[v], e) /\ Changing(act[w], e) => v = w
  /\ \A w \in Writers : Tallied(act[w], e, member[e])
  /\ event[e].exists =>
       \/ event[e].count = Cardinality(member[e])
       \/ \E w \in Writers : act[w].op # "move" /\ Changing(act[w], e)

(* The stage writes for the article it is at only.                         *)
Busy == act[Pipeline].step = "off" \/ group.step # "off"

Counts == Busy /\ \A e \in Events \ torn : CountOf(e)

LEMMA SameView ==
  ASSUME NEW w, NEW e
  PROVE  /\ Writing(w, e) <=> Changing(act[w], e)
         /\ Visible(w, e) = Sees(act[w], e, member[e])
BY DEF Writing, Changing, Visible, Sees, InMove

LEMMA NoActIdle ==
  ASSUME NEW e, e # None
  PROVE  /\ ~ Changing(NoAct, e) /\ \A M : Tallied(NoAct, e, M)
         /\ NoAct.step = "off" /\ NoAct.op # "move"
BY DEF NoAct, Changing, Tallied

LEMMA EventsNamed == None \notin Events
BY GroupingAssumption, FS_CardinalityType DEF Events

(* Only an event that a writer has changed is counted by it.               *)
LEMMA TalliedChanging ==
  ASSUME NEW m, NEW e, NEW M, ~ Changing(m, e)
  PROVE  Tallied(m, e, M)
BY DEF Changing, Tallied

(* A writer replaces its change by m and leaves e alone.                   *)
LEMMA Elsewhere ==
  ASSUME Inv, NEW e \in Events, CountOf(e), NEW w \in Writers, NEW m,
         act' = [act EXCEPT ![w] = m], ~ Changing(act[w], e), ~ Changing(m, e),
         member'[e] = member[e], event'[e].exists = event[e].exists,
         event'[e].count = event[e].count
  PROVE  CountOf(e)'
<1>1. act'[w] = m /\ \A v \in Writers \ {w} : act'[v] = act[v]
  BY DEF Inv, TypeOK
<1>2. Tallied(m, e, member[e])
  BY TalliedChanging
<1>3. \A v \in Writers : Tallied(act'[v], e, member[e])
  BY <1>1, <1>2 DEF CountOf
<1>4. \A v \in Writers : Changing(act'[v], e) <=> Changing(act[v], e)
  BY <1>1
<1>5. \A v \in Writers : act[v].op # "move" /\ Changing(act[v], e) => act'[v].op # "move"
  BY <1>1
<1>6. QED
  BY <1>3, <1>4, <1>5 DEF CountOf

(* A writer that is the only one to change e replaces its change by m.     *)
LEMMA Alone ==
  ASSUME Inv, NEW e \in Events, NEW w \in Writers, NEW m,
         act' = [act EXCEPT ![w] = m], \A v \in Writers \ {w} : ~ Changing(act[v], e),
         Tallied(m, e, member'[e]),
         event'[e].exists => \/ event'[e].count = Cardinality(member'[e])
                             \/ m.op # "move" /\ Changing(m, e)
  PROVE  CountOf(e)'
<1>1. act'[w] = m /\ \A v \in Writers \ {w} : act'[v] = act[v]
  BY DEF Inv, TypeOK
<1>2. \A v \in Writers : Changing(act'[v], e) => v = w
  BY <1>1
<1>3. \A v \in Writers \ {w} : Tallied(act'[v], e, member'[e])
  BY <1>1, TalliedChanging
<1>4. QED
  BY <1>1, <1>2, <1>3 DEF CountOf

(* What a writer that has changed e knows of it.                           *)
LEMMA Owner ==
  ASSUME NEW e \in Events, CountOf(e), NEW w \in Writers, Changing(act[w], e)
  PROVE  /\ \A v \in Writers \ {w} : ~ Changing(act[v], e)
         /\ Tallied(act[w], e, member[e])
         /\ event[e].exists => \/ event[e].count = Cardinality(member[e])
                               \/ act[w].op # "move"
BY DEF CountOf

(* Where nobody has changed e, its count is stored.                        *)
LEMMA Unchanged ==
  ASSUME NEW e \in Events, CountOf(e), \A v \in Writers : ~ Changing(act[v], e), event[e].exists
  PROVE  event[e].count = Cardinality(member[e])
BY DEF CountOf

(* A step that leaves what the counts are about.                           *)
LEMMA CountsQuiet ==
  ASSUME Counts, UNCHANGED <<act, member, torn>>, Busy',
         \A e \in Events : /\ event'[e].exists = event[e].exists
                           /\ event'[e].count = event[e].count
  PROVE  Counts'
BY DEF Counts, CountOf

(* A statement whose writer goes on with the same operation.               *)
LEMMA GoesOn ==
  ASSUME Inv, NEW e \in Events, CountOf(e), NEW w \in Writers, NEW m,
         act' = [act EXCEPT ![w] = m], m.op = act[w].op,
         Changing(m, e) <=> Changing(act[w], e), Tallied(m, e, member[e]),
         UNCHANGED <<member, event>>
  PROVE  CountOf(e)'
<1>1. CASE Changing(act[w], e)
  BY <1>1, Owner, Alone
<1>2. CASE ~ Changing(act[w], e)
  BY <1>2, Elsewhere
<1>3. QED
  BY <1>1, <1>2

(* A transaction, or a writer that has changed nothing, gives up.          *)
LEMMA CountWithout ==
  ASSUME Inv, NEW e \in Events, CountOf(e), NEW w \in Writers, act' = [act EXCEPT ![w] = NoAct],
         Changing(act[w], e) => act[w].op = "move", UNCHANGED <<member, event>>
  PROVE  CountOf(e)'
<1>1. ~ Changing(NoAct, e) /\ Tallied(NoAct, e, member'[e])
  BY EventsNamed, NoActIdle
<1>2. CASE Changing(act[w], e)
  BY <1>1, <1>2, Owner, Alone
<1>3. CASE ~ Changing(act[w], e)
  BY <1>1, <1>3, Elsewhere
<1>4. QED
  BY <1>2, <1>3

(* Two writers that change an event at the same time tear its count.       *)
LEMMA OverlapTears ==
  ASSUME NEW e \in Events, NEW w \in Writers, torn' = torn \cup Overlap(w, e), e \notin torn'
  PROVE  \A v \in Writers \ {w} : ~ Changing(act[v], e)
<1>1. ~ \E v \in Writers \ {w} : Writing(v, e)
  BY DEF Overlap
<1>2. QED
  BY <1>1, SameView

LEMMA DeleteCounted ==
  ASSUME Inv, NEW w \in Writers, Delete(w), NEW e \in Events, CountOf(e), e \notin torn'
  PROVE  CountOf(e)'
<1> DEFINE m == [act[w] EXCEPT !.step = "countFrom"]
<1>0. /\ act[w] \in Changes /\ act[w].step = "delete" /\ event' = event
      /\ member \in [Events -> SUBSET Articles]
  BY OfChange, OfStage DEF Delete
<1>1. ~ Changing(act[w], e)
  BY <1>0 DEF Changing
<1>2. CASE act[w].article \notin member[act[w].from]
  BY <1>0, <1>1, <1>2, CountWithout DEF Delete
<1>3. CASE act[w].article \in member[act[w].from]
  <2>1. /\ act' = [act EXCEPT ![w] = m]
        /\ torn' = torn \cup Overlap(w, act[w].from)
        /\ IF InMove(w) THEN member' = member
           ELSE member' = [member EXCEPT ![act[w].from] = @ \ {act[w].article}]
    BY <1>3 DEF Delete
  <2>2. m.step = "countFrom" /\ m.op = act[w].op /\ m.from = act[w].from /\ m.to = act[w].to
    BY <1>0 DEF Changes
  <2> HIDE DEF m
  <2>3. CASE act[w].from = e
    <3>1. \A v \in Writers \ {w} : ~ Changing(act[v], e)
      BY <2>1, <2>3, OverlapTears
    <3>2. Tallied(m, e, member'[e]) /\ Changing(m, e)
      BY <2>2, <2>3 DEF Tallied, Changing
    <3>3. m.op = "move" => member' = member
      BY <2>1, <2>2 DEF InMove
    <3>4. m.op = "move" /\ event'[e].exists => event'[e].count = Cardinality(member'[e])
      BY <1>0, <1>1, <3>1, <3>3, Unchanged
    <3>5. QED
      BY <2>1, <3>1, <3>2, <3>4, Alone
  <2>4. CASE act[w].from # e
    <3>1. ~ Changing(m, e) /\ member'[e] = member[e]
      BY <1>0, <2>1, <2>2, <2>4 DEF Changing
    <3>2. QED
      BY <1>0, <1>1, <2>1, <3>1, Elsewhere
  <2>5. QED
    BY <2>3, <2>4
<1>4. QED
  BY <1>2, <1>3

LEMMA InsertCounted ==
  ASSUME Inv, NEW w \in Writers, Insert(w), NEW e \in Events, CountOf(e), e \notin torn'
  PROVE  CountOf(e)'
<1> DEFINE m == [act[w] EXCEPT !.step = "countTo"]
<1>0. /\ act[w] \in Changes /\ act[w].step = "insert" /\ event' = event
      /\ act[w].op = "move" => act[w].from # act[w].to
      /\ act[w].op \in {"attach", "move"}
      /\ member \in [Events -> SUBSET Articles]
  BY OfChange, OfStage DEF Insert, WellFormed
<1>1. /\ act' = [act EXCEPT ![w] = m]
      /\ torn' = torn \cup Overlap(w, act[w].to)
      /\ IF InMove(w) THEN member' = member
         ELSE member' = [member EXCEPT ![act[w].to] = @ \cup {act[w].article}]
  BY DEF Insert
<1>2. /\ m.step = "countTo" /\ m.op = act[w].op /\ m.from = act[w].from /\ m.to = act[w].to
      /\ m.fromCount = act[w].fromCount /\ m.article = act[w].article
  BY <1>0 DEF Changes
<1> HIDE DEF m
<1>3. m.op = "move" => member' = member
  BY <1>1, <1>2 DEF InMove
<1>4. CASE act[w].to = e
  <2>1. \A v \in Writers \ {w} : ~ Changing(act[v], e)
    BY <1>1, <1>4, OverlapTears
  <2>2. ~ Changing(act[w], e)
    BY <1>0, <1>4 DEF Changing
  <2>3. Changing(m, e) /\ Tallied(m, e, member'[e])
    BY <1>0, <1>2, <1>4 DEF Tallied, Changing
  <2>4. m.op = "move" /\ event'[e].exists => event'[e].count = Cardinality(member'[e])
    BY <1>0, <1>3, <2>1, <2>2, Unchanged
  <2>5. QED
    BY <1>1, <2>1, <2>3, <2>4, Alone
<1>5. CASE act[w].to # e
  <2>1. Changing(m, e) <=> Changing(act[w], e)
    BY <1>0, <1>2, <1>5 DEF Changing
  <2>2. CASE ~ Changing(act[w], e)
    <3>1. member'[e] = member[e]
      BY <1>0, <1>1, <1>5
    <3>2. QED
      BY <1>0, <1>1, <2>1, <2>2, <3>1, Elsewhere
  <2>3. CASE Changing(act[w], e)
    <3>1. m.op = "move"
      BY <1>0, <1>2, <1>5, <2>3 DEF Changing
    <3>2. Tallied(act[w], e, member[e])
      BY <2>3, Owner
    <3>3. Sees(m, e, member[e]) = Sees(act[w], e, member[e])
      BY <1>2 DEF Sees
    <3>4. Tallied(m, e, member[e])
      BY <1>0, <1>2, <1>5, <3>1, <3>2, <3>3 DEF Tallied
    <3>5. QED
      BY <1>0, <1>1, <1>2, <1>3, <2>1, <3>1, <3>4, GoesOn
  <2>4. QED
    BY <2>2, <2>3
<1>6. QED
  BY <1>4, <1>5

LEMMA CountedCounted ==
  ASSUME Inv, NEW w \in Writers, CountFrom(w) \/ CountTo(w), NEW e \in Events, CountOf(e)
  PROVE  CountOf(e)'
<1>0. /\ act[w] \in Changes /\ WellFormed(act[w], Existing)
      /\ UNCHANGED <<member, event>>
  BY OfChange DEF CountFrom, CountTo, tables
<1>1. CASE CountFrom(w)
  <2> DEFINE c == Cardinality(Visible(w, act[w].from))
             m == [act[w] EXCEPT !.step = "storeFrom", !.fromCount = c]
  <2>1. act' = [act EXCEPT ![w] = m] /\ act[w].step = "countFrom"
    BY <1>1 DEF CountFrom
  <2>2. act[w].from = e => c = Cardinality(Sees(act[w], e, member[e]))
    BY SameView
  <2> HIDE DEF c
  <2>3. /\ m.step = "storeFrom" /\ m.op = act[w].op /\ m.article = act[w].article
        /\ m.from = act[w].from /\ m.to = act[w].to /\ m.fromCount = c
    BY <1>0 DEF Changes
  <2> HIDE DEF m
  <2>4. Sees(m, e, member[e]) = Sees(act[w], e, member[e])
    BY <2>3 DEF Sees
  <2>5. Changing(m, e) <=> Changing(act[w], e)
    BY <2>1, <2>3 DEF Changing
  <2>6. Tallied(m, e, member[e])
    BY <2>2, <2>3, <2>4 DEF Tallied
  <2>7. QED
    BY <1>0, <2>1, <2>3, <2>5, <2>6, GoesOn
<1>2. CASE CountTo(w)
  <2> DEFINE c == Cardinality(Visible(w, act[w].to))
             m == [act[w] EXCEPT !.step = "storeTo", !.toCount = c]
  <2>1. act' = [act EXCEPT ![w] = m] /\ act[w].step = "countTo"
    BY <1>2 DEF CountTo
  <2>2. act[w].to = e => c = Cardinality(Sees(act[w], e, member[e]))
    BY SameView
  <2> HIDE DEF c
  <2>3. /\ m.step = "storeTo" /\ m.op = act[w].op /\ m.article = act[w].article
        /\ m.from = act[w].from /\ m.to = act[w].to
        /\ m.fromCount = act[w].fromCount /\ m.toCount = c
    BY <1>0 DEF Changes
  <2> HIDE DEF m
  <2>4. Sees(m, e, member[e]) = Sees(act[w], e, member[e])
    BY <2>3 DEF Sees
  <2>5. Changing(m, e) <=> Changing(act[w], e)
    BY <2>1, <2>3 DEF Changing
  <2>6. Tallied(act[w], e, member[e])
    BY DEF CountOf
  <2>7. Tallied(m, e, member[e])
    BY <2>1, <2>2, <2>3, <2>4, <2>6 DEF Tallied
  <2>8. QED
    BY <1>0, <2>1, <2>3, <2>5, <2>7, GoesOn
<1>3. QED
  BY <1>1, <1>2

(* A writer that is not in a transaction has stored its count c of f.      *)
LEMMA CountStored ==
  ASSUME Inv, NEW w \in Writers, NEW f \in Events, NEW c, NEW e \in Events, CountOf(e),
         Changing(act[w], f), \A g \in Events \ {f} : ~ Changing(act[w], g),
         act' = [act EXCEPT ![w] = NoAct], member' = member,
         event' = [event EXCEPT ![f].count = c],
         f = e => c = Cardinality(member[e])
  PROVE  CountOf(e)'
<1>0. ~ Changing(NoAct, e) /\ Tallied(NoAct, e, member'[e])
  BY EventsNamed, NoActIdle
<1>1. event \in [Events -> EventRows]
  BY OfStage
<1>2. CASE f = e
  <2>1. event'[e].count = Cardinality(member'[e])
    BY <1>1, <1>2 DEF EventRows
  <2>2. \A v \in Writers \ {w} : ~ Changing(act[v], e)
    BY <1>2, Owner
  <2>3. QED
    BY <1>0, <2>1, <2>2, Alone
<1>3. CASE f # e
  <2>1. event'[e] = event[e] /\ ~ Changing(act[w], e)
    BY <1>1, <1>3
  <2>2. QED
    BY <1>0, <2>1, Elsewhere
<1>4. QED
  BY <1>2, <1>3

LEMMA StoreFromCounted ==
  ASSUME Inv, NEW w \in Writers, StoreFrom(w), NEW e \in Events, CountOf(e)
  PROVE  CountOf(e)'
<1>0. /\ act[w] \in Changes /\ act[w].step = "storeFrom" /\ member' = member
      /\ act[w].op \in {"detach", "move"}
  BY OfChange DEF StoreFrom, WellFormed
<1>1. CASE InMove(w)
  <2> DEFINE m == [act[w] EXCEPT !.step = "insert"]
  <2>1. act' = [act EXCEPT ![w] = m] /\ event' = event /\ act[w].op = "move"
    BY <1>1 DEF StoreFrom, InMove
  <2>2. /\ m.step = "insert" /\ m.op = act[w].op /\ m.article = act[w].article
        /\ m.from = act[w].from /\ m.to = act[w].to /\ m.fromCount = act[w].fromCount
    BY <1>0 DEF Changes
  <2> HIDE DEF m
  <2>3. Sees(m, e, member[e]) = Sees(act[w], e, member[e])
    BY <2>2 DEF Sees
  <2>4. Changing(m, e) <=> Changing(act[w], e)
    BY <1>0, <2>1, <2>2 DEF Changing
  <2>5. Tallied(act[w], e, member[e])
    BY DEF CountOf
  <2>6. Tallied(m, e, member[e])
    BY <1>0, <2>2, <2>3, <2>5 DEF Tallied
  <2>7. QED
    BY <1>0, <2>1, <2>2, <2>4, <2>6, GoesOn
<1>2. CASE ~ InMove(w)
  <2>1. PICK f \in Events : f = act[w].from
    BY <1>0, OfChange DEF WellFormed
  <2>2. PICK c : c = act[w].fromCount
    OBVIOUS
  <2>3. act' = [act EXCEPT ![w] = NoAct] /\ event' = [event EXCEPT ![f].count = c]
    BY <1>2, <2>1, <2>2 DEF StoreFrom
  <2>4. Changing(act[w], f) /\ \A g \in Events \ {f} : ~ Changing(act[w], g)
    BY <1>0, <1>2, <2>1 DEF Changing, InMove
  <2>5. f = e => c = Cardinality(member[e])
    BY <1>0, <1>2, <2>1, <2>2 DEF CountOf, Tallied, Sees, InMove
  <2>6. QED
    BY <1>0, <2>3, <2>4, <2>5, CountStored
<1>3. QED
  BY <1>1, <1>2

LEMMA StoreToCounted ==
  ASSUME Inv, NEW w \in Writers, StoreTo(w), NEW e \in Events, CountOf(e)
  PROVE  CountOf(e)'
<1>0. /\ act[w] \in Changes /\ act[w].step = "storeTo" /\ member' = member
      /\ act[w].op \in {"attach", "move"}
  BY OfChange DEF StoreTo, WellFormed
<1>1. CASE InMove(w)
  <2> DEFINE m == [act[w] EXCEPT !.step = "commit"]
  <2>1. act' = [act EXCEPT ![w] = m] /\ event' = event /\ act[w].op = "move"
    BY <1>1 DEF StoreTo, InMove
  <2>2. /\ m.step = "commit" /\ m.op = act[w].op /\ m.article = act[w].article
        /\ m.from = act[w].from /\ m.to = act[w].to
        /\ m.fromCount = act[w].fromCount /\ m.toCount = act[w].toCount
    BY <1>0 DEF Changes
  <2> HIDE DEF m
  <2>3. Sees(m, e, member[e]) = Sees(act[w], e, member[e])
    BY <2>2 DEF Sees
  <2>4. Changing(m, e) <=> Changing(act[w], e)
    BY <1>0, <2>1, <2>2 DEF Changing
  <2>5. Tallied(act[w], e, member[e])
    BY DEF CountOf
  <2>6. Tallied(m, e, member[e])
    BY <1>0, <2>1, <2>2, <2>3, <2>5 DEF Tallied
  <2>7. QED
    BY <1>0, <2>1, <2>2, <2>4, <2>6, GoesOn
<1>2. CASE ~ InMove(w)
  <2>1. PICK f \in Events : f = act[w].to
    BY <1>0, OfChange DEF WellFormed
  <2>2. PICK c : c = act[w].toCount
    OBVIOUS
  <2>3. act' = [act EXCEPT ![w] = NoAct] /\ event' = [event EXCEPT ![f].count = c]
    BY <1>2, <2>1, <2>2 DEF StoreTo
  <2>4. Changing(act[w], f) /\ \A g \in Events \ {f} : ~ Changing(act[w], g)
    BY <1>0, <1>2, <2>1 DEF Changing, InMove
  <2>5. f = e => c = Cardinality(member[e])
    BY <1>0, <1>2, <2>1, <2>2 DEF CountOf, Tallied, Sees, InMove
  <2>6. QED
    BY <1>0, <2>3, <2>4, <2>5, CountStored
<1>3. QED
  BY <1>1, <1>2

LEMMA CommitCounted ==
  ASSUME Inv, NEW w \in Writers, Commit(w), NEW e \in Events, CountOf(e)
  PROVE  CountOf(e)'
<1>1. PICK f \in Events, g \in Events, a \in Articles :
        f = act[w].from /\ g = act[w].to /\ a = act[w].article /\ f # g
  BY OfChange DEF Commit, WellFormed
<1>2. PICK c, d : c = act[w].fromCount /\ d = act[w].toCount
  OBVIOUS
<1>3. act[w].step = "commit" /\ act[w].op = "move"
  BY OfChange DEF Commit, WellFormed
<1>4. event \in [Events -> EventRows] /\ member \in [Events -> SUBSET Articles]
  BY OfStage
<1>5. act' = [act EXCEPT ![w] = NoAct]
  BY DEF Commit
<1>6. member' = [member EXCEPT ![f] = @ \ {a}, ![g] = @ \cup {a}]
  BY <1>1 DEF Commit
<1>7. event' = [event EXCEPT ![f].count = c, ![g].count = d]
  BY <1>1, <1>2 DEF Commit
<1>8. ~ Changing(NoAct, e) /\ Tallied(NoAct, e, member'[e])
  BY EventsNamed, NoActIdle
<1>9. CASE Changing(act[w], e)
  <2>1. \A v \in Writers \ {w} : ~ Changing(act[v], e)
    BY <1>9, Owner
  <2>2. Tallied(act[w], e, member[e])
    BY <1>9, Owner
  <2>3. CASE e = f
    <3>1. member'[e] = Sees(act[w], e, member[e])
      BY <1>1, <1>3, <1>4, <1>6, <2>3 DEF Sees
    <3>2. event'[e].count = c /\ c = Cardinality(member'[e])
      BY <1>1, <1>2, <1>3, <1>4, <1>7, <2>2, <2>3, <3>1 DEF Tallied, EventRows
    <3>3. QED
      BY <1>5, <1>8, <2>1, <3>2, Alone
  <2>4. CASE e = g
    <3>1. member'[e] = Sees(act[w], e, member[e])
      BY <1>1, <1>3, <1>4, <1>6, <2>4 DEF Sees
    <3>2. event'[e].count = d /\ d = Cardinality(member'[e])
      BY <1>1, <1>2, <1>3, <1>4, <1>7, <2>2, <2>4, <3>1 DEF Tallied, EventRows
    <3>3. QED
      BY <1>5, <1>8, <2>1, <3>2, Alone
  <2>5. QED
    BY <1>1, <1>9, <2>3, <2>4 DEF Changing
<1>10. CASE ~ Changing(act[w], e)
  <2>1. e # f /\ e # g
    BY <1>1, <1>3, <1>10 DEF Changing
  <2>2. member'[e] = member[e] /\ event'[e] = event[e]
    BY <1>1, <1>4, <1>6, <1>7, <2>1
  <2>3. QED
    BY <1>5, <1>8, <1>10, <2>2, Elsewhere
<1>11. QED
  BY <1>9, <1>10

LEMMA WriteCounted ==
  ASSUME Inv, NEW w \in Writers, Write(w), NEW e \in Events, CountOf(e), e \notin torn'
  PROVE  CountOf(e)'
<1>1. CASE AbortDeadlock(w)
  BY <1>1, CountWithout DEF AbortDeadlock, InMove, tables
<1>2. QED
  BY <1>1, DeleteCounted, InsertCounted, CountedCounted, StoreFromCounted, StoreToCounted,
     CommitCounted DEF Write

(* A request or the stage begins a change, of which nothing is written.    *)
LEMMA Begun ==
  ASSUME Inv, Counts, NEW w \in Writers, act[w].step = "off", NEW m \in Changes,
         m.step \in {"delete", "insert"}, m.step = "insert" => m.op # "move",
         act' = [act EXCEPT ![w] = m], UNCHANGED <<member, torn>>, Busy',
         \A e \in Events : \/ event'[e] = event[e]
                           \/ ~ event[e].exists /\ event'[e].count = 0
  PROVE  Counts'
<1> SUFFICES ASSUME NEW e \in Events, e \notin torn
             PROVE  CountOf(e)'
  BY DEF Counts
<1>0. CountOf(e)
  BY DEF Counts
<1>1. ~ Changing(act[w], e) /\ ~ Changing(m, e)
  BY OfChange DEF Changing, WellFormed
<1>2. CASE event'[e] = event[e]
  BY <1>0, <1>1, <1>2, Elsewhere
<1>3. CASE ~ event[e].exists /\ event'[e].count = 0
  <2>1. member[e] = {} /\ e \notin Existing
    BY <1>3 DEF Inv, Held, Existing
  <2>2. \A v \in Writers : ~ Changing(act[v], e)
    BY <2>1, OfChange DEF Changing, WellFormed
  <2>3. event'[e].count = Cardinality(member'[e])
    BY <1>3, <2>1, FS_EmptySet
  <2>4. QED
    BY <1>1, <2>2, <2>3, TalliedChanging, Alone
<1>4. QED
  BY <1>2, <1>3

(* A writer dies: the counts of what it leaves half-done are torn.         *)
LEMMA Died ==
  ASSUME Inv, Counts, NEW w \in Writers, act' = [act EXCEPT ![w] = NoAct],
         torn' = torn \cup Halves(w), UNCHANGED <<member, event>>, Busy'
  PROVE  Counts'
<1> SUFFICES ASSUME NEW e \in Events, e \notin torn'
             PROVE  CountOf(e)'
  BY DEF Counts
<1>1. CountOf(e)
  BY DEF Counts
<1>2. Changing(act[w], e) => act[w].op = "move"
  BY SameView DEF Halves, InMove
<1>3. QED
  BY <1>1, <1>2, CountWithout

LEMMA FoundCounted ==
  ASSUME Inv, Counts, NEW n \in Analysts, NEW S \in SUBSET Articles, NEW f \in Events,
         CreateFromArticles(n, S, f)
  PROVE  Counts'
<1>0. UNCHANGED <<act, torn, group>> /\ f \notin Existing
  BY DEF CreateFromArticles, stage, NextEvent
<1>1. event' = [event EXCEPT ![f] = [exists |-> TRUE, key |-> None, vector |-> None,
                                     count |-> Cardinality(S)]]
      /\ member' = [member EXCEPT ![f] = S]
  BY DEF CreateFromArticles
<1>2. Busy'
  BY <1>0 DEF Counts, Busy
<1> SUFFICES ASSUME NEW e \in Events, e \notin torn
             PROVE  CountOf(e)'
  BY <1>0, <1>2 DEF Counts
<1>3. CountOf(e)
  BY DEF Counts
<1>4. CASE e = f
  <2>1. \A v \in Writers : ~ Changing(act[v], e)
    BY <1>0, <1>4, OfChange DEF Changing, WellFormed
  <2>2. event'[e].count = Cardinality(S) /\ member'[e] = S
    BY <1>1, <1>4, OfStage
  <2>3. \A v \in Writers : Tallied(act[v], e, S)
    BY <2>1, TalliedChanging
  <2>4. QED
    BY <1>0, <2>1, <2>2, <2>3 DEF CountOf
<1>5. CASE e # f
  <2>1. event'[e] = event[e] /\ member'[e] = member[e]
    BY <1>1, <1>5, OfStage
  <2>2. QED
    BY <1>0, <1>3, <2>1 DEF CountOf
<1>6. QED
  BY <1>4, <1>5

LEMMA WriteCounts ==
  ASSUME Inv, Counts, NEW w \in Writers, Write(w)
  PROVE  Counts'
<1>1. torn \subseteq torn' /\ group' = group
  BY DEF Write, Delete, CountFrom, StoreFrom, Insert, CountTo, StoreTo, Commit, AbortDeadlock,
         stage
<1>2. \A v \in Writers \ {w} : act'[v] = act[v]
  BY DEF Inv, TypeOK, Write, Delete, CountFrom, StoreFrom, Insert, CountTo, StoreTo, Commit,
         AbortDeadlock
<1>3. act[w].step # "off"
  BY OfChange DEF Write, Delete, CountFrom, StoreFrom, Insert, CountTo, StoreTo, Commit,
                  AbortDeadlock, InMove, WellFormed
<1>4. Busy'
  BY <1>1, <1>2, <1>3, Slots DEF Counts, Busy
<1>5. QED
  BY <1>1, <1>4, WriteCounted DEF Counts

LEMMA StageCounts ==
  ASSUME Inv, Counts, RunStep
  PROVE  Counts'
<1>1. CASE StartRun \/ FinishGrouping \/ FinishRun
  BY <1>1, CountsQuiet DEF StartRun, FinishGrouping, FinishRun, tables, Counts, Busy
<1>2. ASSUME NEW a \in Articles, NEW f \in Events, AttachToEvent(a, f) \/ CreateEvent(a, f)
      PROVE  Counts'
  <2> DEFINE m == Attaching(a, f)
  <2>1. act' = [act EXCEPT ![Pipeline] = m] /\ UNCHANGED <<member, torn>>
    BY <1>2 DEF AttachToEvent, CreateEvent, tables
  <2>2. m \in Changes /\ m.step = "insert" /\ m.op = "attach"
    BY DEF Attaching, NoAct, Changes, Steps
  <2>3. act[Pipeline].step = "off"
    BY <1>2 DEF AttachToEvent, CreateEvent, NoGroup, Counts, Busy
  <2>4. Busy'
    BY <1>2 DEF AttachToEvent, CreateEvent, Busy
  <2>5. \A e \in Events : \/ event'[e] = event[e]
                          \/ ~ event[e].exists /\ event'[e].count = 0
    <3>1. CASE AttachToEvent(a, f)
      BY <3>1 DEF AttachToEvent, tables
    <3>2. CASE CreateEvent(a, f)
      BY <3>2, OfStage DEF CreateEvent, NextEvent, Existing
    <3>3. QED
      BY <1>2, <3>1, <3>2
  <2> HIDE DEF m
  <2>6. QED
    BY <2>1, <2>2, <2>3, <2>4, <2>5, Slots, Begun
<1>3. CASE CopyVector
  <2>1. Busy' /\ UNCHANGED <<act, member, torn>>
    BY <1>3 DEF CopyVector, Busy, Free
  <2>2. \A e \in Events : /\ event'[e].exists = event[e].exists
                          /\ event'[e].count = event[e].count
    <3>1. UNCHANGED event \/ event' = [event EXCEPT ![group.event].vector = group.article]
      BY <1>3 DEF CopyVector
    <3>2. QED
      BY <3>1, OfStage DEF EventRows
  <2>3. QED
    BY <2>1, <2>2, CountsQuiet
<1>4. CASE MarkGrouped
  BY <1>4, CountsQuiet DEF MarkGrouped, Busy, Free
<1>5. ASSUME NEW f \in Events, Sweep(f)
      PROVE  Counts'
  <2>1. Busy' /\ UNCHANGED <<act, member, torn>>
    BY <1>5 DEF Sweep, stage, Counts, Busy
  <2>2. PICK a \in Articles : event' = [event EXCEPT ![f].vector = a]
    BY <1>5, OfStage DEF Sweep
  <2>3. \A e \in Events : /\ event'[e].exists = event[e].exists
                          /\ event'[e].count = event[e].count
    BY <2>2, OfStage DEF EventRows
  <2>4. QED
    BY <2>1, <2>3, CountsQuiet
<1>6. QED
  BY <1>1, <1>2, <1>3, <1>4, <1>5, Slots, WriteCounts DEF RunStep

LEMMA AnalystCounts ==
  ASSUME Inv, Counts, AnalystStep
  PROVE  Counts'
<1>1. ASSUME NEW n \in Analysts, NEW m \in Changes, Edit(n, m),
             m.step \in {"delete", "insert"}, m.step = "insert" => m.op # "move"
      PROVE  Counts'
  <2>1. /\ act' = [act EXCEPT ![n] = m] /\ act[n].step = "off"
        /\ UNCHANGED <<member, torn, event, group>>
    BY <1>1 DEF Edit, Request, Free, tables, stage
  <2>2. act'[Pipeline] = act[Pipeline]
    BY <2>1, Slots DEF Inv, TypeOK
  <2>3. Busy'
    BY <2>1, <2>2 DEF Counts, Busy
  <2>4. \A e \in Events : \/ event'[e] = event[e]
                          \/ ~ event[e].exists /\ event'[e].count = 0
    BY <2>1
  <2>5. n \in Writers
    BY Slots
  <2>6. QED
    BY <1>1, <2>1, <2>3, <2>4, <2>5, Begun
<1>2. ASSUME NEW n \in Analysts, NEW a \in Articles, NEW e \in Events,
             \/ AttachArticle(n, a, e) \/ DetachArticle(n, a, e)
             \/ \E f \in Events : MoveArticle(n, a, e, f)
      PROVE  Counts'
  <2>1. CASE AttachArticle(n, a, e)
    <3> DEFINE m == Attaching(a, e)
    <3>1. m \in Changes /\ m.step = "insert" /\ m.op = "attach"
      BY DEF Attaching, NoAct, Changes, Steps
    <3>2. Edit(n, m)
      BY <2>1 DEF AttachArticle
    <3> HIDE DEF m
    <3>3. QED
      BY <1>1, <3>1, <3>2
  <2>2. CASE DetachArticle(n, a, e)
    <3> DEFINE m == [NoAct EXCEPT !.op = "detach", !.step = "delete", !.article = a, !.from = e]
    <3>1. m \in Changes /\ m.step = "delete"
      BY DEF NoAct, Changes, Steps
    <3>2. Edit(n, m)
      BY <2>2 DEF DetachArticle
    <3> HIDE DEF m
    <3>3. QED
      BY <1>1, <3>1, <3>2
  <2>3. ASSUME NEW f \in Events, MoveArticle(n, a, e, f)
        PROVE  Counts'
    <3> DEFINE m == [NoAct EXCEPT !.op = "move", !.step = "delete", !.article = a,
                                  !.from = e, !.to = f]
    <3>1. m \in Changes /\ m.step = "delete"
      BY DEF NoAct, Changes, Steps
    <3>2. Edit(n, m)
      BY <2>3 DEF MoveArticle
    <3> HIDE DEF m
    <3>3. QED
      BY <1>1, <3>1, <3>2
  <2>4. QED
    BY <1>2, <2>1, <2>2, <2>3
<1>3. QED
  BY <1>2, Slots, WriteCounts, FoundCounted DEF AnalystStep

LEMMA CountsStay == Inv /\ Counts /\ [Next]_vars => Counts'
<1> SUFFICES ASSUME Inv, Counts, [Next]_vars PROVE Counts'
  OBVIOUS
<1>1. CASE UNCHANGED vars
  BY <1>1, CountsQuiet DEF vars, tables, stage, Counts, Busy
<1>2. CASE Fault
  <2>1. CASE RunDies
    <3>1. Busy'
      BY <2>1, Slots DEF RunDies, Busy, Inv, TypeOK, NoAct
    <3>2. QED
      BY <2>1, <3>1, Slots, Died DEF RunDies, tables
  <2>2. ASSUME NEW n \in Analysts, RequestDies(n)
        PROVE  Counts'
    <3>1. act'[Pipeline] = act[Pipeline] /\ group' = group
      BY <2>2, Slots DEF RequestDies, Inv, TypeOK, stage
    <3>2. Busy'
      BY <3>1 DEF Counts, Busy
    <3>3. QED
      BY <2>2, <3>2, Slots, Died DEF RequestDies, tables
  <2>3. QED
    BY <1>2, <2>1, <2>2 DEF Fault
<1>3. CASE \E a \in Articles, k \in Keys \cup {None} : Embed(a, k)
  <2>1. UNCHANGED <<act, member, torn, event, group>>
    BY <1>3 DEF Embed, stage
  <2>2. Busy'
    BY <2>1 DEF Counts, Busy
  <2>3. QED
    BY <2>1, <2>2, CountsQuiet
<1>4. QED
  BY <1>1, <1>2, <1>3, StageCounts, AnalystCounts DEF Next

(* The stored count of sources of an event is the number of its members    *)
(* whenever no change of it is under way, unless a writer died between its *)
(* two statements or two writers changed the event at the same time.       *)
THEOREM CountsStayExact == Spec => []CountExact
<1>1. Init => Counts
  <2> SUFFICES ASSUME Init PROVE Counts
    OBVIOUS
  <2>1. \A e \in Events, w \in Writers :
          ~ Changing(act[w], e) /\ Tallied(act[w], e, member[e])
    BY EventsNamed, NoActIdle DEF Init
  <2>2. act[Pipeline].step = "off"
    BY Slots DEF Init, NoAct
  <2>3. QED
    BY <2>1, <2>2 DEF Init, Counts, CountOf, Busy, NoEvent
<1>2. Inv /\ Counts => CountExact
  <2> SUFFICES ASSUME Inv, Counts, NEW e \in Existing, e \notin torn
               PROVE  \/ event[e].count = Cardinality(member[e])
                      \/ \E w \in Writers : Writing(w, e)
    BY DEF CountExact
  <2>1. e \in Events /\ event[e].exists
    BY DEF Existing
  <2>2. QED
    BY <2>1, SameView DEF Counts, CountOf
<1>3. QED
  BY <1>1, <1>2, Initially, Always, CountsStay, PTL DEF Spec
=============================================================================
