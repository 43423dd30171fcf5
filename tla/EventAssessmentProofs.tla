------------------------ MODULE EventAssessmentProofs ------------------------
(* Theorems about EventAssessment, for every finite set of articles, every *)
(* set of events and every number of requests, faults and runs.            *)
EXTENDS EventAssessment, TLAPS

(* What is being written or requested is about an event, and a membership  *)
(* also about an article.                                                  *)
GroupKnown == group.step # "off" => group.article \in Articles /\ group.event \in Events
AtKnown == at.step # "off" => at.event \in Events
VerdictKnown == verdict.step # "off" => verdict.article \in Articles
ActKnown == \A n \in Analysts : act[n].op # "none" => act[n].event \in Events

Known == GroupKnown /\ AtKnown /\ VerdictKnown /\ ActKnown

(* What the constants give is of the types of the variables.               *)
LEMMA Given ==
  /\ Ranks \subseteq AnyRank /\ LowRank \in AnyRank
  /\ Drafts \subseteq [impact : Impacts, rank : AnyRank]
BY AssessmentAssumption DEF AnyRank, LowRank, Impacts

LEMMA NoEventTyped == NoEvent \in Fields
BY Given DEF NoEvent, Fields, Impacts

LEMMA TypeInit == Init => TypeOK /\ Known
<1> SUFFICES ASSUME Init PROVE TypeOK /\ Known
  OBVIOUS
<1>1. event \in [Events -> Fields]
  BY Given DEF Init, NoEvent, Fields, Impacts
<1>2. group \in Groupings /\ at \in Places /\ listed \in [Events -> Fields]
  BY NoEventTyped DEF Init, NoGroup, NoAt, NotListed, Groupings, Links, Places, Tiers
<1>3. verdict \in RollUps
  BY DEF Init, NoRollUp, RollUps
<1>4. act \in [Analysts -> Acts]
  BY DEF Init, NoAct, Acts
<1>5. TypeOK
  BY <1>1, <1>2, <1>3, <1>4, AssessmentAssumption DEF Init, TypeOK, Links, Tiers
<1>6. Known
  BY DEF Init, NoGroup, NoAt, NoRollUp, NoAct, Known, GroupKnown, AtKnown, VerdictKnown, ActKnown
<1>7. QED
  BY <1>5, <1>6

LEMMA GroupStep == TypeOK /\ GroupKnown /\ [Next]_vars => GroupKnown'
<1> SUFFICES ASSUME TypeOK, GroupKnown, [Next]_vars PROVE GroupKnown'
  OBVIOUS
<1>1. CASE UNCHANGED group
  BY <1>1 DEF GroupKnown
<1>2. ASSUME NEW a \in Articles, NEW e \in Events, NEW d,
             FoundEvent(a, e, d)
      PROVE  GroupKnown'
  BY <1>2 DEF FoundEvent, GroupKnown
<1>3. ASSUME NEW a \in Articles, NEW e \in Events, NEW kind, AttachArticle(a, e, kind)
      PROVE  GroupKnown'
  BY <1>3 DEF AttachArticle, GroupKnown
<1>4. CASE CountSources
  BY <1>4 DEF CountSources, GroupKnown, TypeOK, Groupings
<1>5. CASE MarkGrouped \/ RunDies
  BY <1>5 DEF MarkGrouped, RunDies, NoGroup, GroupKnown
<1>6. QED
  BY <1>1, <1>2, <1>3, <1>4, <1>5
     DEF Next, RunStep, AnalystStep, Time, Fault, vars, stage, StartRun, StartClassification,
       SaveClassification, ReadEvents, UpdateAssessment, RolledUp, StartSummaries, ReadArticles,
       SaveSummary, StartAlerts, DecideAlert, CreateAlert, FinishRun, UpdateFields, Unpublish,
       AttachAsAnalyst, CheckApproval, CountAsAnalyst, Approve, WindowElapses,
       ClassificationFails, SummaryFails, RequestDies

LEMMA AtStep == AtKnown /\ [Next]_vars => AtKnown'
<1> SUFFICES ASSUME AtKnown, [Next]_vars PROVE AtKnown'
  OBVIOUS
<1>1. CASE UNCHANGED at
  BY <1>1 DEF AtKnown
<1>2. ASSUME NEW e \in Events, ReadArticles(e)
      PROVE  AtKnown'
  BY <1>2 DEF ReadArticles, AtKnown, NoAt
<1>3. ASSUME NEW e \in Events, NEW young, DecideAlert(e, young)
      PROVE  AtKnown'
  BY <1>3 DEF DecideAlert, AtKnown, NoAt
<1>4. ASSUME at' = NoAt
      PROVE  AtKnown'
  BY <1>4 DEF NoAt, AtKnown
<1>5. QED
  BY <1>1, <1>2, <1>3, <1>4
     DEF Next, RunStep, AnalystStep, Time, Fault, vars, stage, StartRun, FoundEvent,
       AttachArticle, CountSources, MarkGrouped, StartClassification, SaveClassification,
       ReadEvents, UpdateAssessment, RolledUp, StartSummaries, SaveSummary, StartAlerts,
       CreateAlert, FinishRun, UpdateFields, Unpublish, AttachAsAnalyst, CheckApproval,
       CountAsAnalyst, Approve, WindowElapses, ClassificationFails, SummaryFails, RunDies,
       RequestDies

LEMMA VerdictStep == TypeOK /\ VerdictKnown /\ [Next]_vars => VerdictKnown'
<1> SUFFICES ASSUME TypeOK, VerdictKnown, [Next]_vars PROVE VerdictKnown'
  OBVIOUS
<1>1. CASE UNCHANGED verdict
  BY <1>1 DEF VerdictKnown
<1>2. ASSUME NEW a \in Articles, NEW v \in Verdicts, SaveClassification(a, v)
      PROVE  VerdictKnown'
  BY <1>2 DEF SaveClassification, VerdictKnown
<1>3. CASE ReadEvents
  BY <1>3 DEF ReadEvents, VerdictKnown, TypeOK, RollUps
<1>4. ASSUME verdict' = NoRollUp
      PROVE  VerdictKnown'
  BY <1>4 DEF NoRollUp, VerdictKnown
<1>5. QED
  BY <1>1, <1>2, <1>3, <1>4
     DEF Next, RunStep, AnalystStep, Time, Fault, vars, stage, StartRun, FoundEvent,
       AttachArticle, CountSources, MarkGrouped, StartClassification, UpdateAssessment,
       RolledUp, StartSummaries, ReadArticles, SaveSummary, StartAlerts, DecideAlert,
       CreateAlert, FinishRun, UpdateFields, Unpublish, AttachAsAnalyst, CheckApproval,
       CountAsAnalyst, Approve, WindowElapses, ClassificationFails, SummaryFails, RunDies,
       RequestDies

LEMMA ActStep == TypeOK /\ ActKnown /\ [Next]_vars => ActKnown'
<1> SUFFICES ASSUME TypeOK, ActKnown, [Next]_vars PROVE ActKnown'
  OBVIOUS
<1>0. act \in [Analysts -> Acts]
  BY DEF TypeOK
<1>1. CASE UNCHANGED act
  BY <1>1 DEF ActKnown
<1>2. ASSUME NEW n \in Analysts, NEW e \in Events,
             \/ act' = [act EXCEPT ![n] = [op |-> "attach", event |-> e]]
             \/ act' = [act EXCEPT ![n] = [op |-> "approve", event |-> e]]
      PROVE  ActKnown'
  BY <1>0, <1>2 DEF ActKnown
<1>3. ASSUME NEW n \in Analysts, act' = [act EXCEPT ![n] = NoAct]
      PROVE  ActKnown'
  BY <1>0, <1>3 DEF ActKnown, NoAct
<1>4. QED
  BY <1>1, <1>2, <1>3
     DEF Next, RunStep, AnalystStep, Time, Fault, vars, StartRun, FoundEvent, AttachArticle,
       CountSources, MarkGrouped, StartClassification, SaveClassification, ReadEvents,
       UpdateAssessment, RolledUp, StartSummaries, ReadArticles, SaveSummary, StartAlerts,
       DecideAlert, CreateAlert, FinishRun, UpdateFields, Unpublish, AttachAsAnalyst,
       CheckApproval, CountAsAnalyst, Approve, WindowElapses, ClassificationFails,
       SummaryFails, RunDies, RequestDies

LEMMA KnownStep == TypeOK /\ Known /\ [Next]_vars => Known'
BY GroupStep, AtStep, VerdictStep, ActStep DEF Known

(* What the statements that update an event or a membership leave behind.  *)
LEMMA EventCounted ==
  ASSUME event \in [Events -> Fields], NEW e \in Events, NEW kind
  PROVE  Counted(e, kind) \in [Events -> Fields]
<1> DEFINE S == IF kind = "material" /\ event[e].summary = "current"
                THEN "stale" ELSE event[e].summary
<1>1. S \in {"none", "stale", "current"}
  BY DEF Fields
<1>2. Counted(e, kind) = [event EXCEPT ![e].counted = TRUE, ![e].summary = S]
  BY DEF Counted, Fields
<1> HIDE DEF S
<1>3. [event EXCEPT ![e].counted = TRUE, ![e].summary = S] \in [Events -> Fields]
  BY <1>1 DEF Fields
<1>4. QED
  BY <1>2, <1>3

LEMMA EventGraded ==
  ASSUME event \in [Events -> Fields], NEW e \in Events, NEW rank \in AnyRank,
         NEW confident \in BOOLEAN
  PROVE  [event EXCEPT ![e].rank = rank, ![e].confident = confident] \in [Events -> Fields]
BY DEF Fields

LEMMA EventSummarized ==
  ASSUME event \in [Events -> Fields], NEW e \in Events, NEW rank \in AnyRank,
         NEW confident \in BOOLEAN
  PROVE  [event EXCEPT ![e].rank = rank, ![e].confident = confident, ![e].summary = "current"]
           \in [Events -> Fields]
<1>1. [event[e] EXCEPT !.rank = rank, !.confident = confident, !.summary = "current"] \in Fields
  BY DEF Fields
<1>2. QED
  BY <1>1

LEMMA EventEdited ==
  ASSUME event \in [Events -> Fields], NEW e \in Events, NEW impact \in Impacts,
         NEW rank \in AnyRank
  PROVE  [event EXCEPT ![e].impact = impact, ![e].rank = rank] \in [Events -> Fields]
BY DEF Fields

LEMMA EventPublished ==
  ASSUME event \in [Events -> Fields], NEW e \in Events, NEW approved \in BOOLEAN
  PROVE  [event EXCEPT ![e].approved = approved] \in [Events -> Fields]
BY DEF Fields

LEMMA VerdictRolledUp ==
  ASSUME NEW r \in [event : Events, rank : AnyRank, confident : BOOLEAN],
         NEW v \in Verdicts \cup {NoVerdict}
  PROVE  RollUp(r, v).rank \in AnyRank /\ RollUp(r, v).confident \in BOOLEAN
<1>1. v.rank \in AnyRank /\ v.relevant \in BOOLEAN /\ v.confident \in BOOLEAN
  <2>1. CASE v \in Verdicts
    <3>1. v \in [relevant : BOOLEAN, rank : Ranks, confident : BOOLEAN]
      BY <2>1 DEF Verdicts
    <3>2. QED
      BY <3>1, Given
  <2>2. CASE v = NoVerdict
    BY <2>2, Given DEF NoVerdict
  <2>3. QED
    BY <2>1, <2>2
<1>2. r.rank \in AnyRank /\ r.confident \in BOOLEAN
  OBVIOUS
<1>3. RollUp(r, v).rank \in AnyRank
  BY <1>1, <1>2 DEF RollUp, AnyRank
<1>4. RollUp(r, v).confident \in BOOLEAN
  BY <1>1, <1>2 DEF RollUp
<1>5. QED
  BY <1>3, <1>4

LEMMA OrderSeen ==
  ASSUME later \subseteq Events \X Events, NEW e \in Events, Seen(e)
  PROVE  later' \subseteq Events \X Events
BY DEF Seen

LEMMA Listed ==
  ASSUME NEW S, NEW T \in Listings(S) PROVE T \subseteq S
BY DEF Listings

LEMMA RowPut ==
  ASSUME link \in [Events -> [Articles -> Links]], after \in [Events -> SUBSET Articles],
         rows \in [Events -> Nat], NEW e \in Events, NEW a \in Articles, NEW kind \in Links,
         PutRow(e, a, kind)
  PROVE  /\ link' \in [Events -> [Articles -> Links]]
         /\ after' \in [Events -> SUBSET Articles]
         /\ rows' \in [Events -> Nat]
<1>1. link' \in [Events -> [Articles -> Links]]
  BY DEF PutRow
<1>2. CASE link[e][a] = "none"
  BY <1>1, <1>2 DEF PutRow
<1>3. CASE link[e][a] # "none"
  BY <1>1, <1>3 DEF PutRow
<1>4. QED
  BY <1>2, <1>3

LEMMA DecisionTier ==
  ASSUME NEW e, NEW f, NEW young PROVE Decision(e, f, young) \in Tiers
BY DEF Decision, Tiers

LEMMA TypeStep == TypeOK /\ Known /\ [Next]_vars => TypeOK'
<1> SUFFICES ASSUME TypeOK, Known, [Next]_vars PROVE TypeOK'
  OBVIOUS
<1> USE AssessmentAssumption
<1>0. /\ event \in [Events -> Fields]
      /\ link \in [Events -> [Articles -> Links]]
      /\ after \in [Events -> SUBSET Articles]
      /\ rows \in [Events -> Nat]
      /\ later \subseteq Events \X Events
  BY DEF TypeOK
<1>1. CASE UNCHANGED vars
  BY <1>1 DEF vars, tables, stage, history, TypeOK
<1>2. CASE RunStep
  <2>1. ASSUME NEW arrived \in SUBSET Articles, StartRun(arrived)
        PROVE  TypeOK'
    <3>1. status' \in [Articles -> {"NEW", "EMBEDDED", "GROUPED", "CLASSIFIED"}]
      BY <2>1 DEF StartRun, TypeOK
    <3>2. ppc' \in {"idle", "events", "classify", "summary", "alert"}
      BY <2>1 DEF StartRun, TypeOK
    <3>3. queue' \subseteq Articles
      BY <2>1, Listed DEF StartRun
    <3>4. UNCHANGED <<later, event, link, last, after, group, verdict, read,
                   listed, at, act, covered, torn, sent, rows,
                   emptied, troubles>>
      BY <2>1 DEF StartRun, tables, stage, history
    <3>5. QED
      BY <3>1, <3>2, <3>3, <3>4 DEF TypeOK
  <2>2. ASSUME NEW a \in Articles, NEW e \in Events, NEW d \in Drafts, FoundEvent(a, e, d)
        PROVE  TypeOK'
    <3>1. event' \in [Events -> Fields]
      BY <2>2, Given DEF FoundEvent, PutRow, TypeOK, NoEvent, Fields, Impacts
    <3>2. link' \in [Events -> [Articles -> Links]]
      BY <1>0, <2>2, RowPut DEF FoundEvent, Links
    <3>3. after' \in [Events -> SUBSET Articles]
      BY <1>0, <2>2, RowPut DEF FoundEvent, Links
    <3>4. rows' \in [Events -> Nat]
      BY <1>0, <2>2, RowPut DEF FoundEvent, Links
    <3>5. group' \in Groupings
      BY <2>2 DEF FoundEvent, PutRow, TypeOK, Groupings, Links
    <3>6. UNCHANGED <<status, last, ppc, queue, verdict, read, listed,
                   at, act, covered, torn, sent, emptied, troubles>>
      BY <2>2 DEF FoundEvent, PutRow, tables, stage, history
    <3>0. later' \subseteq Events \X Events
      BY <1>0, <2>2, OrderSeen DEF FoundEvent
    <3>7. QED
      BY <3>0, <3>1, <3>2, <3>3, <3>4, <3>5, <3>6 DEF TypeOK
  <2>3. ASSUME NEW a \in Articles, NEW e \in Events, NEW kind \in {"source", "material"},
               AttachArticle(a, e, kind)
        PROVE  TypeOK'
    <3>1. link' \in [Events -> [Articles -> Links]]
      BY <1>0, <2>3, RowPut DEF AttachArticle, Links
    <3>2. after' \in [Events -> SUBSET Articles]
      BY <1>0, <2>3, RowPut DEF AttachArticle, Links
    <3>3. rows' \in [Events -> Nat]
      BY <1>0, <2>3, RowPut DEF AttachArticle, Links
    <3>4. group' \in Groupings
      BY <2>3 DEF AttachArticle, PutRow, TypeOK, Groupings, Links
    <3>5. UNCHANGED <<later, status, event, last, ppc, queue, verdict, read,
                   listed, at, act, covered, torn, sent, emptied,
                   troubles>>
      BY <2>3 DEF AttachArticle, PutRow, tables, stage, history
    <3>6. QED
      BY <3>1, <3>2, <3>3, <3>4, <3>5 DEF TypeOK
  <2>4. CASE CountSources
    <3>1. event' \in [Events -> Fields]
      BY <1>0, <2>4, EventCounted DEF CountSources, Known, GroupKnown
    <3>2. group' \in Groupings
      BY <2>4 DEF CountSources, TypeOK, Groupings, Links
    <3>3. UNCHANGED <<status, link, last, after, ppc, queue, verdict,
                   read, listed, at, act, covered, torn, sent, rows,
                   emptied, troubles>>
      BY <2>4 DEF CountSources, tables, stage, history
    <3>0. later' \subseteq Events \X Events
      BY <1>0, <2>4, OrderSeen DEF CountSources, Known, GroupKnown
    <3>4. QED
      BY <3>0, <3>1, <3>2, <3>3 DEF TypeOK
  <2>5. CASE MarkGrouped
    <3>1. status' \in [Articles -> {"NEW", "EMBEDDED", "GROUPED", "CLASSIFIED"}]
      BY <2>5 DEF MarkGrouped, TypeOK
    <3>2. queue' \subseteq Articles
      BY <2>5 DEF MarkGrouped, TypeOK
    <3>3. group' \in Groupings
      BY <2>5 DEF MarkGrouped, TypeOK, NoGroup, Groupings, Links
    <3>4. UNCHANGED <<later, event, link, last, after, ppc, verdict, read,
                   listed, at, act, covered, torn, sent, rows,
                   emptied, troubles>>
      BY <2>5 DEF MarkGrouped, tables, stage, history
    <3>5. QED
      BY <3>1, <3>2, <3>3, <3>4 DEF TypeOK
  <2>6. CASE StartClassification
    <3>1. ppc' \in {"idle", "events", "classify", "summary", "alert"}
      BY <2>6 DEF StartClassification, TypeOK
    <3>2. queue' \subseteq Articles
      BY <2>6, Listed DEF StartClassification
    <3>3. UNCHANGED <<later, status, event, link, last, after, group, verdict,
                   read, listed, at, act, covered, torn, sent, rows,
                   emptied, troubles>>
      BY <2>6 DEF StartClassification, tables, stage, history
    <3>4. QED
      BY <3>1, <3>2, <3>3 DEF TypeOK
  <2>7. ASSUME NEW a \in Articles, NEW v \in Verdicts, SaveClassification(a, v)
        PROVE  TypeOK'
    <3>1. status' \in [Articles -> {"NEW", "EMBEDDED", "GROUPED", "CLASSIFIED"}]
      BY <2>7 DEF SaveClassification, TypeOK
    <3>2. queue' \subseteq Articles
      BY <2>7 DEF SaveClassification, TypeOK
    <3>3. verdict' \in RollUps
      BY <2>7 DEF SaveClassification, TypeOK, RollUps
    <3>4. UNCHANGED <<later, event, link, last, after, ppc, group, read, listed,
                   at, act, covered, torn, sent, rows, emptied,
                   troubles>>
      BY <2>7 DEF SaveClassification, tables, stage, history
    <3>5. QED
      BY <3>1, <3>2, <3>3, <3>4 DEF TypeOK
  <2>8. CASE ReadEvents
    <3>1. read' \subseteq [event : Events, rank : AnyRank, confident : BOOLEAN]
      BY <2>8 DEF ReadEvents, TypeOK, Fields
    <3>2. verdict' \in RollUps
      BY <2>8 DEF ReadEvents, TypeOK, RollUps
    <3>3. UNCHANGED <<later, status, event, link, last, after, ppc, queue,
                   group, listed, at, act, covered, torn, sent, rows,
                   emptied, troubles>>
      BY <2>8 DEF ReadEvents, tables, stage, history
    <3>4. QED
      BY <3>1, <3>2, <3>3 DEF TypeOK
  <2>9. ASSUME NEW r \in read, UpdateAssessment(r)
        PROVE  TypeOK'
    <3>0. /\ r \in [event : Events, rank : AnyRank, confident : BOOLEAN]
          /\ verdict.of \in Verdicts \cup {NoVerdict}
      BY DEF TypeOK, RollUps
    <3>1. event' \in [Events -> Fields]
      BY <1>0, <2>9, <3>0, VerdictRolledUp, EventGraded DEF UpdateAssessment
    <3>2. read' \subseteq [event : Events, rank : AnyRank, confident : BOOLEAN]
      BY <2>9 DEF UpdateAssessment, TypeOK
    <3>3. UNCHANGED <<later, status, link, last, after, ppc, queue, group,
                   verdict, listed, at, act, covered, torn, sent,
                   rows, emptied, troubles>>
      BY <2>9 DEF UpdateAssessment, tables, stage, history
    <3>4. QED
      BY <3>1, <3>2, <3>3 DEF TypeOK
  <2>10. CASE RolledUp
    <3>1. verdict' \in RollUps
      BY <2>10 DEF RolledUp, NoRollUp, RollUps
    <3>2. UNCHANGED <<later, status, event, link, last, after, ppc, queue,
                   group, read, listed, at, act, covered, torn, sent,
                   rows, emptied, troubles>>
      BY <2>10 DEF RolledUp, tables, stage, history
    <3>3. QED
      BY <3>1, <3>2 DEF TypeOK
  <2>11. CASE StartSummaries
    <3>1. ppc' \in {"idle", "events", "classify", "summary", "alert"}
      BY <2>11 DEF StartSummaries, TypeOK
    <3>2. listed' \in [Events -> Fields]
      BY <2>11, NoEventTyped DEF StartSummaries, TypeOK
    <3>3. UNCHANGED <<later, status, event, link, last, after, queue, group,
                   verdict, read, at, act, covered, torn, sent, rows,
                   emptied, troubles>>
      BY <2>11 DEF StartSummaries, tables, stage, history
    <3>4. QED
      BY <3>1, <3>2, <3>3 DEF TypeOK
  <2>12. ASSUME NEW e \in Events, ReadArticles(e)
        PROVE  TypeOK'
    <3>1. listed' \in [Events -> Fields]
      BY <2>12, NoEventTyped DEF ReadArticles, TypeOK
    <3>2. at' \in Places
      BY <2>12 DEF ReadArticles, TypeOK, NoAt, Members, Places, Tiers
    <3>3. UNCHANGED <<later, status, event, link, last, after, ppc, queue,
                   group, verdict, read, act, covered, torn, sent,
                   rows, emptied, troubles>>
      BY <2>12 DEF ReadArticles, tables, stage, history
    <3>4. QED
      BY <3>1, <3>2, <3>3 DEF TypeOK
  <2>13. ASSUME NEW g \in Grades, SaveSummary(g)
        PROVE  TypeOK'
    <3>1. event' \in [Events -> Fields]
      BY <1>0, <2>13, Given, EventSummarized DEF SaveSummary, Grades, Known, AtKnown
    <3>2. covered' \in [Events -> SUBSET Articles]
      BY <2>13 DEF SaveSummary, TypeOK, Places
    <3>3. at' \in Places
      BY <2>13 DEF SaveSummary, TypeOK, NoAt, Places, Tiers
    <3>4. UNCHANGED <<later, status, link, last, after, ppc, queue, group,
                   verdict, read, listed, act, torn, sent, rows,
                   emptied, troubles>>
      BY <2>13 DEF SaveSummary, tables, stage, history
    <3>5. QED
      BY <3>1, <3>2, <3>3, <3>4 DEF TypeOK
  <2>14. CASE StartAlerts
    <3>1. ppc' \in {"idle", "events", "classify", "summary", "alert"}
      BY <2>14 DEF StartAlerts, TypeOK
    <3>2. listed' \in [Events -> Fields]
      BY <2>14, NoEventTyped DEF StartAlerts, TypeOK
    <3>3. UNCHANGED <<later, status, event, link, last, after, queue, group,
                   verdict, read, at, act, covered, torn, sent, rows,
                   emptied, troubles>>
      BY <2>14 DEF StartAlerts, tables, stage, history
    <3>4. QED
      BY <3>1, <3>2, <3>3 DEF TypeOK
  <2>15. ASSUME NEW e \in Events, NEW young \in BOOLEAN, DecideAlert(e, young)
        PROVE  TypeOK'
    <3>1. listed' \in [Events -> Fields]
      BY <2>15, NoEventTyped DEF DecideAlert, TypeOK
    <3>2. at' \in Places
      BY <2>15, DecisionTier DEF DecideAlert, NoAt, Places
    <3>3. UNCHANGED <<later, status, event, link, last, after, ppc, queue,
                   group, verdict, read, act, covered, torn, sent,
                   rows, emptied, troubles>>
      BY <2>15 DEF DecideAlert, tables, stage, history
    <3>4. QED
      BY <3>1, <3>2, <3>3 DEF TypeOK
  <2>16. CASE CreateAlert
    <3>1. last' \in [Events -> Tiers]
      BY <2>16 DEF CreateAlert, TypeOK, Places
    <3>2. after' \in [Events -> SUBSET Articles]
      BY <2>16 DEF CreateAlert, TypeOK
    <3>3. sent' \in [Events -> Nat]
      BY <2>16 DEF CreateAlert, TypeOK
    <3>4. at' \in Places
      BY <2>16 DEF CreateAlert, TypeOK, NoAt, Places, Tiers
    <3>5. UNCHANGED <<later, status, event, link, ppc, queue, group, verdict,
                   read, listed, act, covered, torn, rows, emptied,
                   troubles>>
      BY <2>16 DEF CreateAlert, tables, stage, history
    <3>6. QED
      BY <3>1, <3>2, <3>3, <3>4, <3>5 DEF TypeOK
  <2>17. CASE FinishRun
    <3>1. ppc' \in {"idle", "events", "classify", "summary", "alert"}
      BY <2>17 DEF FinishRun, TypeOK
    <3>2. UNCHANGED <<later, status, event, link, last, after, queue, group,
                   verdict, read, listed, at, act, covered, torn,
                   sent, rows, emptied, troubles>>
      BY <2>17 DEF FinishRun, tables, stage, history
    <3>3. QED
      BY <3>1, <3>2 DEF TypeOK
  <2>18. QED
    BY <1>2, <2>1, <2>2, <2>3, <2>4, <2>5, <2>6, <2>7, <2>8, <2>9, <2>10,
       <2>11, <2>12, <2>13, <2>14, <2>15, <2>16, <2>17
       DEF RunStep
<1>3. CASE AnalystStep \/ Time \/ Fault
  <2>1. ASSUME NEW e \in Events, NEW d \in Drafts, UpdateFields(e, d)
        PROVE  TypeOK'
    <3>1. event' \in [Events -> Fields]
      BY <1>0, <2>1, Given, EventEdited DEF UpdateFields
    <3>2. emptied' \subseteq Events
      BY <2>1 DEF UpdateFields, Trouble, TypeOK
    <3>3. troubles' \in Nat
      BY <2>1 DEF UpdateFields, Trouble, TypeOK
    <3>4. UNCHANGED <<later, status, link, last, after, ppc, queue, group,
                   verdict, read, listed, at, act, covered, torn,
                   sent, rows>>
      BY <2>1 DEF UpdateFields, Trouble, tables, stage, history
    <3>5. QED
      BY <3>1, <3>2, <3>3, <3>4 DEF TypeOK
  <2>2. ASSUME NEW e \in Events, Unpublish(e)
        PROVE  TypeOK'
    <3>1. event' \in [Events -> Fields]
      BY <1>0, <2>2, EventPublished DEF Unpublish
    <3>2. troubles' \in Nat
      BY <2>2 DEF Unpublish, TypeOK
    <3>3. UNCHANGED <<later, status, link, last, after, ppc, queue, group,
                   verdict, read, listed, at, act, covered, torn,
                   sent, rows, emptied>>
      BY <2>2 DEF Unpublish, tables, stage, history
    <3>4. QED
      BY <3>1, <3>2, <3>3 DEF TypeOK
  <2>3. ASSUME NEW n \in Analysts, NEW e \in Events, NEW a \in Articles, AttachAsAnalyst(n, e, a)
        PROVE  TypeOK'
    <3>1. link' \in [Events -> [Articles -> Links]]
      BY <1>0, <2>3, RowPut DEF AttachAsAnalyst, Links
    <3>2. after' \in [Events -> SUBSET Articles]
      BY <1>0, <2>3, RowPut DEF AttachAsAnalyst, Links
    <3>3. rows' \in [Events -> Nat]
      BY <1>0, <2>3, RowPut DEF AttachAsAnalyst, Links
    <3>4. act' \in [Analysts -> Acts]
      BY <2>3 DEF AttachAsAnalyst, Request, Trouble, PutRow, TypeOK, Acts
    <3>5. troubles' \in Nat
      BY <2>3 DEF AttachAsAnalyst, Request, Trouble, PutRow, TypeOK
    <3>6. UNCHANGED <<later, status, event, last, ppc, queue, group, verdict,
                   read, listed, at, covered, torn, sent, emptied>>
      BY <2>3 DEF AttachAsAnalyst, Request, Trouble, PutRow, tables, stage, history
    <3>7. QED
      BY <3>1, <3>2, <3>3, <3>4, <3>5, <3>6 DEF TypeOK
  <2>4. ASSUME NEW n \in Analysts, NEW e \in Events, CheckApproval(n, e)
        PROVE  TypeOK'
    <3>1. act' \in [Analysts -> Acts]
      BY <2>4 DEF CheckApproval, Request, Trouble, TypeOK, Acts
    <3>2. troubles' \in Nat
      BY <2>4 DEF CheckApproval, Request, Trouble, TypeOK
    <3>3. UNCHANGED <<later, status, event, link, last, after, ppc, queue,
                   group, verdict, read, listed, at, covered, torn,
                   sent, rows, emptied>>
      BY <2>4 DEF CheckApproval, Request, Trouble, tables, stage, history
    <3>4. QED
      BY <3>1, <3>2, <3>3 DEF TypeOK
  <2>5. ASSUME NEW n \in Analysts, CountAsAnalyst(n)
        PROVE  TypeOK'
    <3>1. event' \in [Events -> Fields]
      BY <1>0, <2>5, EventCounted DEF CountAsAnalyst, Known, ActKnown
    <3>2. act' \in [Analysts -> Acts]
      BY <2>5 DEF CountAsAnalyst, TypeOK, NoAct, Acts
    <3>3. UNCHANGED <<status, link, last, after, ppc, queue, group,
                   verdict, read, listed, at, covered, torn, sent,
                   rows, emptied, troubles>>
      BY <2>5 DEF CountAsAnalyst, tables, stage, history
    <3>0. later' \subseteq Events \X Events
      BY <1>0, <2>5, OrderSeen DEF CountAsAnalyst, Known, ActKnown
    <3>4. QED
      BY <3>0, <3>1, <3>2, <3>3 DEF TypeOK
  <2>6. ASSUME NEW n \in Analysts, Approve(n)
        PROVE  TypeOK'
    <3>1. event' \in [Events -> Fields]
      BY <1>0, <2>6, EventPublished DEF Approve, Known, ActKnown
    <3>2. act' \in [Analysts -> Acts]
      BY <2>6 DEF Approve, TypeOK, NoAct, Acts
    <3>3. UNCHANGED <<later, status, link, last, after, ppc, queue, group,
                   verdict, read, listed, at, covered, torn, sent,
                   rows, emptied, troubles>>
      BY <2>6 DEF Approve, tables, stage, history
    <3>4. QED
      BY <3>1, <3>2, <3>3 DEF TypeOK
  <2>7. ASSUME NEW e \in Events, WindowElapses(e)
        PROVE  TypeOK'
    <3>1. last' \in [Events -> Tiers]
      BY <2>7 DEF WindowElapses, TypeOK, Tiers
    <3>2. sent' \in [Events -> Nat]
      BY <2>7 DEF WindowElapses, TypeOK
    <3>3. rows' \in [Events -> Nat]
      BY <2>7 DEF WindowElapses, TypeOK
    <3>4. UNCHANGED <<later, status, event, link, after, ppc, queue, group,
                   verdict, read, listed, at, act, covered, torn,
                   emptied, troubles>>
      BY <2>7 DEF WindowElapses, tables, stage, history
    <3>5. QED
      BY <3>1, <3>2, <3>3, <3>4 DEF TypeOK
  <2>8. CASE ClassificationFails
    <3>1. queue' \subseteq Articles
      BY <2>8 DEF ClassificationFails, Trouble, TypeOK
    <3>0. NoRollUp \in RollUps /\ verdict \in RollUps
      BY DEF NoRollUp, NoVerdict, RollUps, Verdicts, TypeOK
    <3>2. verdict' \in RollUps
      BY <2>8, <3>0 DEF ClassificationFails
    <3>3. read' \subseteq [event : Events, rank : AnyRank, confident : BOOLEAN]
      BY <2>8 DEF ClassificationFails, Trouble, TypeOK
    <3>4. troubles' \in Nat
      BY <2>8 DEF ClassificationFails, Trouble, TypeOK
    <3>5. UNCHANGED <<later, status, event, link, last, after, ppc, group,
                   listed, at, act, covered, torn, sent, rows, emptied>>
      BY <2>8 DEF ClassificationFails, Trouble, tables, stage, history
    <3>6. QED
      BY <3>1, <3>2, <3>3, <3>4, <3>5 DEF TypeOK
  <2>9. CASE SummaryFails
    <3>1. at' \in Places
      BY <2>9 DEF SummaryFails, Trouble, TypeOK, NoAt, Places, Tiers
    <3>2. troubles' \in Nat
      BY <2>9 DEF SummaryFails, Trouble, TypeOK
    <3>3. UNCHANGED <<later, status, event, link, last, after, ppc, queue,
                   group, verdict, read, listed, act, covered, torn,
                   sent, rows, emptied>>
      BY <2>9 DEF SummaryFails, Trouble, tables, stage, history
    <3>4. QED
      BY <3>1, <3>2, <3>3 DEF TypeOK
  <2>10. CASE RunDies
    <3>1. ppc' \in {"idle", "events", "classify", "summary", "alert"}
      BY <2>10 DEF RunDies, Trouble, TypeOK
    <3>2. queue' \subseteq Articles
      BY <2>10 DEF RunDies, Trouble, TypeOK
    <3>3. group' \in Groupings
      BY <2>10 DEF RunDies, Trouble, TypeOK, NoGroup, Groupings, Links
    <3>4. verdict' \in RollUps
      BY <2>10 DEF RunDies, Trouble, TypeOK, NoRollUp, NoVerdict, RollUps, Verdicts
    <3>5. read' \subseteq [event : Events, rank : AnyRank, confident : BOOLEAN]
      BY <2>10 DEF RunDies, Trouble, TypeOK
    <3>6. listed' \in [Events -> Fields]
      BY <2>10, NoEventTyped DEF RunDies, Trouble, NotListed, TypeOK
    <3>7. at' \in Places
      BY <2>10 DEF RunDies, Trouble, TypeOK, NoAt, Places, Tiers
    <3>8. troubles' \in Nat
      BY <2>10 DEF RunDies, Trouble, TypeOK
    <3>9. torn' \subseteq Events \X Articles
      BY <2>10 DEF RunDies, TypeOK, Known, GroupKnown
    <3>10. UNCHANGED <<later, status, event, link, last, after, act, covered,
                   sent, rows, emptied>>
      BY <2>10 DEF RunDies, Trouble, tables, stage, history
    <3>11. QED
      BY <3>1, <3>2, <3>3, <3>4, <3>5, <3>6, <3>7, <3>8, <3>9, <3>10 DEF TypeOK
  <2>11. ASSUME NEW n \in Analysts, RequestDies(n)
        PROVE  TypeOK'
    <3>1. act' \in [Analysts -> Acts]
      BY <2>11 DEF RequestDies, TypeOK, NoAct, Acts
    <3>2. UNCHANGED <<later, status, event, link, last, after, ppc, queue,
                   group, verdict, read, listed, at, covered, torn,
                   sent, rows, emptied, troubles>>
      BY <2>11 DEF RequestDies, tables, stage, history
    <3>3. QED
      BY <3>1, <3>2 DEF TypeOK
  <2>12. QED
    BY <1>3, <2>1, <2>2, <2>3, <2>4, <2>5, <2>6, <2>7, <2>8, <2>9, <2>10,
       <2>11
       DEF AnalystStep, Time, Fault
<1>4. QED
  BY <1>1, <1>2, <1>3 DEF Next

(* Every table, stage and request keeps its type.                          *)
THEOREM TypeCorrect == Spec => []TypeOK
BY TypeInit, TypeStep, KnownStep, PTL DEF Spec

-----------------------------------------------------------------------------
(* What analysts approve.                                                  *)

Warranted(e) == event[e].impact # "none" \/ e \in emptied

Approvals ==
  /\ ApprovedWithImpact
  /\ \A n \in Analysts :
       act[n].op = "approve" =>
         act[n].event \in Events /\ event[act[n].event].exists /\ Warranted(act[n].event)

LEMMA ApprovalsInit == Init => Approvals
BY DEF Init, Approvals, ApprovedWithImpact, NoEvent, NoAct

LEMMA ApprovalsStep == TypeOK /\ Approvals /\ [Next]_vars => Approvals'
<1> SUFFICES ASSUME TypeOK, Approvals, [Next]_vars PROVE Approvals'
  OBVIOUS
<1> USE AssessmentAssumption
        DEF TypeOK, Links, Groupings, RollUps, Places, Acts, Fields, Impacts, tables, stage, history,
            Approvals, ApprovedWithImpact, Warranted
<1>1. CASE UNCHANGED vars
  BY <1>1 DEF vars
<1>2. CASE RunStep
  <2>1. ASSUME NEW arrived \in SUBSET Articles, StartRun(arrived)
        PROVE  Approvals'
    BY <2>1 DEF StartRun
  <2>2. ASSUME NEW a \in Articles, NEW e \in Events, NEW d \in Drafts, FoundEvent(a, e, d)
        PROVE  Approvals'
    BY <2>2 DEF FoundEvent, PutRow, NoEvent
  <2>3. ASSUME NEW a \in Articles, NEW e \in Events, NEW kind \in {"source", "material"},
               AttachArticle(a, e, kind)
        PROVE  Approvals'
    BY <2>3 DEF AttachArticle, PutRow
  <2>4. CASE CountSources
    BY <2>4 DEF CountSources, Counted
  <2>5. CASE MarkGrouped
    BY <2>5 DEF MarkGrouped, NoGroup
  <2>6. CASE StartClassification
    BY <2>6 DEF StartClassification
  <2>7. ASSUME NEW a \in Articles, NEW v \in Verdicts, SaveClassification(a, v)
        PROVE  Approvals'
    BY <2>7 DEF SaveClassification
  <2>8. CASE ReadEvents
    BY <2>8 DEF ReadEvents
  <2>9. ASSUME NEW r \in read, UpdateAssessment(r)
        PROVE  Approvals'
    BY <2>9 DEF UpdateAssessment, RollUp
  <2>10. CASE RolledUp
    BY <2>10 DEF RolledUp, NoRollUp, NoVerdict
  <2>11. CASE StartSummaries
    BY <2>11 DEF StartSummaries, NoEvent
  <2>12. ASSUME NEW e \in Events, ReadArticles(e)
        PROVE  Approvals'
    BY <2>12 DEF ReadArticles, NoEvent, NoAt, Members
  <2>13. ASSUME NEW g \in Grades, SaveSummary(g)
        PROVE  Approvals'
    BY <2>13 DEF SaveSummary, NoAt
  <2>14. CASE StartAlerts
    BY <2>14 DEF StartAlerts, NoEvent
  <2>15. ASSUME NEW e \in Events, NEW young \in BOOLEAN, DecideAlert(e, young)
        PROVE  Approvals'
    BY <2>15 DEF DecideAlert, NoEvent, NoAt
  <2>16. CASE CreateAlert
    BY <2>16 DEF CreateAlert, NoAt
  <2>17. CASE FinishRun
    BY <2>17 DEF FinishRun
  <2> HIDE DEF TypeOK, Approvals
  <2>18. QED
    BY <1>2, <2>1, <2>2, <2>3, <2>4, <2>5, <2>6, <2>7, <2>8, <2>9, <2>10,
       <2>11, <2>12, <2>13, <2>14, <2>15, <2>16, <2>17
       DEF RunStep
<1>3. CASE AnalystStep \/ Time \/ Fault
  <2>1. ASSUME NEW e \in Events, NEW d \in Drafts, UpdateFields(e, d)
        PROVE  Approvals'
    BY <2>1 DEF UpdateFields, Trouble
  <2>2. ASSUME NEW e \in Events, Unpublish(e)
        PROVE  Approvals'
    BY <2>2 DEF Unpublish
  <2>3. ASSUME NEW n \in Analysts, NEW e \in Events, NEW a \in Articles, AttachAsAnalyst(n, e, a)
        PROVE  Approvals'
    BY <2>3 DEF AttachAsAnalyst, PutRow, Request, Trouble
  <2>4. ASSUME NEW n \in Analysts, NEW e \in Events, CheckApproval(n, e)
        PROVE  Approvals'
    BY <2>4 DEF CheckApproval, Request, Trouble
  <2>5. ASSUME NEW n \in Analysts, CountAsAnalyst(n)
        PROVE  Approvals'
    BY <2>5 DEF CountAsAnalyst, Counted, NoAct
  <2>6. ASSUME NEW n \in Analysts, Approve(n)
        PROVE  Approvals'
    BY <2>6 DEF Approve, NoAct
  <2>7. ASSUME NEW e \in Events, WindowElapses(e)
        PROVE  Approvals'
    BY <2>7 DEF WindowElapses
  <2>8. CASE ClassificationFails
    BY <2>8 DEF ClassificationFails, Trouble, NoRollUp, NoVerdict
  <2>9. CASE SummaryFails
    BY <2>9 DEF SummaryFails, Trouble, NoAt
  <2>10. CASE RunDies
    BY <2>10 DEF RunDies, Trouble, NoGroup, NoRollUp, NoVerdict, NotListed, NoEvent, NoAt
  <2>11. ASSUME NEW n \in Analysts, RequestDies(n)
        PROVE  Approvals'
    BY <2>11 DEF RequestDies, NoAct
  <2> HIDE DEF TypeOK, Approvals
  <2>12. QED
    BY <1>3, <2>1, <2>2, <2>3, <2>4, <2>5, <2>6, <2>7, <2>8, <2>9, <2>10,
       <2>11
       DEF AnalystStep, Time, Fault
<1>4. QED
  BY <1>1, <1>2, <1>3 DEF Next

(* Whatever runs, requests and faults interleave, an approved event has an *)
(* affected vendor or product unless an analyst has taken them away        *)
(* (approveEvent, which checks and writes in two statements).              *)
THEOREM ApprovedEventsHaveImpact == Spec => []ApprovedWithImpact
<1>1. Approvals => ApprovedWithImpact
  BY DEF Approvals
<1>2. QED
  BY <1>1, TypeInit, TypeStep, KnownStep, ApprovalsInit, ApprovalsStep, PTL DEF Spec

-----------------------------------------------------------------------------
(* The budget of alerts.                                                   *)

(* The alerts an event may still get within the window of its last one     *)
(* when nothing more is attached: a first one or a bypass and its upgrade, *)
(* or only the upgrade.                                                    *)
Spare(e) ==
  IF last[e] = "none" \/ after[e] # {} THEN 2
  ELSE IF last[e] = "early_warning" THEN 1 ELSE 0

(* An alert that is about to be created, although nothing was attached     *)
(* since the last one, is an upgrade of it.                                *)
UpgradeOnly(e) ==
  at.step = "create" /\ at.event = e /\ at.tier # "none" /\ last[e] # "none" /\ after[e] = {}
    => last[e] = "early_warning" /\ at.tier = "confirmed"

Budget ==
  \A e \in Events : /\ last[e] = "none" => sent[e] = 0
                    /\ sent[e] + Spare(e) <= 2 + 2 * rows[e]
                    /\ UpgradeOnly(e)

LEMMA BudgetInit == Init => Budget
BY DEF Init, Budget, Spare, UpgradeOnly, NoAt

(* A new row of an event puts two more alerts into its budget.             *)
LEMMA PutRowInBudget ==
  ASSUME TypeOK, Budget, UNCHANGED <<last, sent, at>>, NEW d \in Events, NEW a \in Articles,
         NEW kind, PutRow(d, a, kind)
  PROVE  Budget'
<1> SUFFICES ASSUME NEW e \in Events
             PROVE  /\ last'[e] = "none" => sent'[e] = 0
                    /\ sent'[e] + Spare(e)' <= 2 + 2 * rows'[e]
                    /\ UpgradeOnly(e)'
  BY DEF Budget
<1>0. sent[e] \in Nat /\ rows[e] \in Nat
  BY DEF TypeOK
<1>1. CASE UNCHANGED <<after, rows>>
  BY <1>1 DEF Budget, Spare, UpgradeOnly
<1>2. CASE /\ after' = [after EXCEPT ![d] = @ \cup {a}]
           /\ rows' = [rows EXCEPT ![d] = @ + 1]
  <2>1. CASE e = d
    <3>1. after'[e] # {} /\ rows'[e] = rows[e] + 1
      BY <1>2, <2>1 DEF TypeOK
    <3>2. Spare(e)' = 2 /\ Spare(e) >= 0
      BY <3>1 DEF Spare
    <3>3. QED
      BY <1>0, <3>1, <3>2 DEF Budget, UpgradeOnly, Spare
  <2>2. CASE e # d
    <3>1. after'[e] = after[e] /\ rows'[e] = rows[e]
      BY <1>2, <2>2 DEF TypeOK
    <3>2. QED
      BY <3>1 DEF Budget, Spare, UpgradeOnly
  <2>3. QED
    BY <2>1, <2>2
<1>3. QED
  BY <1>1, <1>2 DEF PutRow

(* Without news in the window, only an upgrade is decided.                 *)
LEMMA DecisionUpgrades ==
  ASSUME NEW e, NEW f, NEW young, last[e] # "none", after[e] = {},
         Decision(e, f, young) # "none"
  PROVE  last[e] = "early_warning" /\ Decision(e, f, young) = "confirmed"
<1>1. ~ NewMaterial(e)
  BY DEF NewMaterial
<1>2. QED
  BY <1>1 DEF Decision

LEMMA DecideInBudget ==
  ASSUME TypeOK, Budget, NEW d \in Events, NEW young, DecideAlert(d, young)
  PROVE  Budget'
<1>1. /\ UNCHANGED <<last, after, sent, rows>>
      /\ at'.step = "create" /\ at'.event = d /\ at'.tier = Decision(d, listed[d], young)
  BY DEF DecideAlert, tables, history, NoAt
<1>2. \A e \in Events : UpgradeOnly(e)'
  BY <1>1, DecisionUpgrades DEF UpgradeOnly
<1>3. QED
  BY <1>1, <1>2 DEF Budget, Spare

LEMMA CreateInBudget ==
  ASSUME TypeOK, Known, Budget, CreateAlert
  PROVE  Budget'
<1>0. /\ at.event \in Events /\ at.tier \in Tiers /\ at' = NoAt /\ UNCHANGED rows
      /\ \A e \in Events : sent[e] \in Nat /\ rows[e] \in Nat /\ last[e] \in Tiers
  BY DEF CreateAlert, Known, AtKnown, TypeOK, Places
<1>1. CASE at.tier = "none"
  BY <1>0, <1>1 DEF CreateAlert, Budget, Spare, UpgradeOnly, NoAt
<1>2. CASE at.tier # "none"
  <2>1. /\ last' = [last EXCEPT ![at.event] = at.tier]
        /\ after' = [after EXCEPT ![at.event] = {}]
        /\ sent' = [sent EXCEPT ![at.event] = @ + 1]
    BY <1>2 DEF CreateAlert
  <2>2. ASSUME NEW e \in Events, e # at.event
        PROVE  /\ last'[e] = "none" => sent'[e] = 0
               /\ sent'[e] + Spare(e)' <= 2 + 2 * rows'[e]
    BY <1>0, <2>1, <2>2 DEF Budget, Spare, TypeOK
  <2>3. ASSUME NEW e \in Events, e = at.event
        PROVE  /\ last'[e] # "none"
               /\ sent'[e] + Spare(e)' <= 2 + 2 * rows'[e]
    <3>1. last'[e] = at.tier /\ after'[e] = {} /\ sent'[e] = sent[e] + 1
      BY <2>1, <2>3 DEF TypeOK
    <3>2. Spare(e)' = IF at.tier = "early_warning" THEN 1 ELSE 0
      BY <1>2, <3>1 DEF Spare
    <3>3. Spare(e) >= 1 + Spare(e)'
      BY <1>2, <2>3, <3>2 DEF Budget, UpgradeOnly, Spare, CreateAlert
    <3>4. QED
      BY <1>0, <1>2, <3>1, <3>2, <3>3 DEF Budget, Spare
  <2>4. QED
    BY <1>0, <2>2, <2>3 DEF Budget, UpgradeOnly, NoAt
<1>3. QED
  BY <1>1, <1>2

LEMMA ElapseInBudget ==
  ASSUME TypeOK, Budget, NEW d \in Events, WindowElapses(d)
  PROVE  Budget'
<1> SUFFICES ASSUME NEW e \in Events
             PROVE  /\ last'[e] = "none" => sent'[e] = 0
                    /\ sent'[e] + Spare(e)' <= 2 + 2 * rows'[e]
                    /\ UpgradeOnly(e)'
  BY DEF Budget
<1>0. UNCHANGED <<after, at>>
  BY DEF WindowElapses, stage
<1>1. CASE e = d
  <2>1. last'[e] = "none" /\ sent'[e] = 0 /\ rows'[e] = 0
    BY <1>1 DEF WindowElapses, TypeOK
  <2>2. QED
    BY <2>1 DEF Spare, UpgradeOnly
<1>2. CASE e # d
  <2>1. last'[e] = last[e] /\ sent'[e] = sent[e] /\ rows'[e] = rows[e]
    BY <1>2 DEF WindowElapses, TypeOK
  <2>2. QED
    BY <1>0, <2>1 DEF Budget, Spare, UpgradeOnly
<1>3. QED
  BY <1>1, <1>2

LEMMA BudgetStep == TypeOK /\ Known /\ Budget /\ [Next]_vars => Budget'
<1> SUFFICES ASSUME TypeOK, Known, Budget, [Next]_vars PROVE Budget'
  OBVIOUS
<1>1. CASE UNCHANGED <<last, after, sent, rows, at>>
  BY <1>1 DEF Budget, Spare, UpgradeOnly
<1>2. CASE UNCHANGED <<last, after, sent, rows>> /\ at'.step # "create"
  BY <1>2 DEF Budget, Spare, UpgradeOnly
<1>3. ASSUME at' = NoAt, UNCHANGED <<last, after, sent, rows>> PROVE Budget'
  BY <1>2, <1>3 DEF NoAt
<1>4. ASSUME NEW g \in Grades, SaveSummary(g) PROVE Budget'
  BY <1>3, <1>4 DEF SaveSummary
<1>5. CASE SummaryFails \/ RunDies
  BY <1>3, <1>5 DEF SummaryFails, RunDies, tables, history
<1>6. ASSUME NEW e \in Events, ReadArticles(e) PROVE Budget'
  BY <1>2, <1>6 DEF ReadArticles, NoAt, tables, history
<1>7. ASSUME NEW a \in Articles, NEW e \in Events, NEW kind, AttachArticle(a, e, kind)
      PROVE  Budget'
  BY <1>7, PutRowInBudget DEF AttachArticle
<1>8. ASSUME NEW a \in Articles, NEW e \in Events, NEW d,
             FoundEvent(a, e, d)
      PROVE  Budget'
  BY <1>8, PutRowInBudget DEF FoundEvent
<1>9. ASSUME NEW a \in Articles, NEW e \in Events, NEW n, AttachAsAnalyst(n, e, a)
      PROVE  Budget'
  BY <1>9, PutRowInBudget DEF AttachAsAnalyst, stage
<1>10. QED
  BY <1>1, <1>4, <1>5, <1>6, <1>7, <1>8, <1>9, DecideInBudget, CreateInBudget, ElapseInBudget
     DEF Next, RunStep, AnalystStep, Time, Fault, vars, tables, stage, history, StartRun,
       CountSources, MarkGrouped, StartClassification, SaveClassification, ReadEvents,
       UpdateAssessment, RolledUp, StartSummaries, StartAlerts, FinishRun, UpdateFields,
       Unpublish, CheckApproval, CountAsAnalyst, Approve, ClassificationFails, RequestDies

(* Alerts do not repeat: whatever runs, dies and is attached between a     *)
(* decision and its alert, an event gets an alert, an upgrade, and at most *)
(* two more for each article that joins it (runAlertStage, decideAlert).   *)
THEOREM AlertsWithinBudget == Spec => []AlertsBounded
<1>1. TypeOK /\ Budget => AlertsBounded
  <2> SUFFICES ASSUME TypeOK, Budget, NEW e \in Events PROVE sent[e] <= 2 + 2 * rows[e]
    BY DEF AlertsBounded
  <2>1. /\ sent[e] \in Nat /\ rows[e] \in Nat /\ Spare(e) \in 0..2
        /\ sent[e] + Spare(e) <= 2 + 2 * rows[e]
    BY DEF TypeOK, Budget, Spare
  <2>2. QED
    BY <2>1
<1>2. QED
  BY <1>1, TypeInit, TypeStep, KnownStep, BudgetInit, BudgetStep, PTL DEF Spec

-----------------------------------------------------------------------------
(* The stage implements AlertPolicy.                                       *)
News == {e \in Events : after[e] # {}}

Allowed == Policy!Next \/ UNCHANGED <<last, sent, News>>

LEMMA JoinAllowed ==
  ASSUME TypeOK, UNCHANGED <<last, sent>>, NEW e \in Events, NEW a \in Articles, NEW kind,
         PutRow(e, a, kind)
  PROVE  Allowed
<1>1. CASE UNCHANGED after
  BY <1>1 DEF Allowed, News
<1>2. CASE after' = [after EXCEPT ![e] = @ \cup {a}]
  <2>1. News' = News \cup {e}
    BY <1>2 DEF TypeOK, News
  <2>2. Policy!Join(e)
    BY <2>1 DEF Policy!Join, News
  <2>3. QED
    BY <2>2 DEF Allowed, Policy!Next
<1>3. QED
  BY <1>1, <1>2 DEF PutRow

LEMMA SendAllowed ==
  ASSUME TypeOK, Known, Budget, CreateAlert
  PROVE  Allowed
<1>0. at.step = "create" /\ at.event \in Events /\ at.tier \in Tiers
  BY DEF CreateAlert, Known, AtKnown, TypeOK, Places
<1>1. CASE at.tier = "none"
  BY <1>1 DEF CreateAlert, Allowed, News
<1>2. CASE at.tier # "none"
  <2>1. /\ last' = [last EXCEPT ![at.event] = at.tier]
        /\ after' = [after EXCEPT ![at.event] = {}]
        /\ sent' = [sent EXCEPT ![at.event] = @ + 1]
    BY <1>2 DEF CreateAlert
  <2>2. News' = News \ {at.event}
    BY <1>0, <2>1 DEF TypeOK, News
  <2>3. \/ last[at.event] = "none"
        \/ at.event \in News
        \/ last[at.event] = "early_warning" /\ at.tier = "confirmed"
    BY <1>0, <1>2 DEF Budget, UpgradeOnly, News
  <2>4. PICK e \in Events, tier \in {"early_warning", "confirmed"} :
          e = at.event /\ tier = at.tier
    BY <1>0, <1>2 DEF Tiers
  <2>5. Policy!Send(e, tier)
    BY <2>1, <2>2, <2>3, <2>4 DEF Policy!Send, News
  <2>6. QED
    BY <2>5 DEF Allowed, Policy!Next
<1>3. QED
  BY <1>1, <1>2

LEMMA ElapseAllowed ==
  ASSUME NEW e \in Events, WindowElapses(e)
  PROVE  Allowed
<1>1. Policy!Elapse(e)
  BY DEF WindowElapses, Policy!Elapse
<1>2. QED
  BY <1>1 DEF Allowed, Policy!Next

LEMMA StepAllowed == TypeOK /\ Known /\ Budget /\ [Next]_vars => Allowed
<1> SUFFICES ASSUME TypeOK, Known, Budget, [Next]_vars PROVE Allowed
  OBVIOUS
<1>1. CASE UNCHANGED <<last, after, sent>>
  BY <1>1 DEF Allowed, News
<1>2. ASSUME NEW a \in Articles, NEW e \in Events, NEW kind, AttachArticle(a, e, kind)
      PROVE  Allowed
  BY <1>2, JoinAllowed DEF AttachArticle
<1>3. ASSUME NEW a \in Articles, NEW e \in Events, NEW d,
             FoundEvent(a, e, d)
      PROVE  Allowed
  BY <1>3, JoinAllowed DEF FoundEvent
<1>4. ASSUME NEW a \in Articles, NEW e \in Events, NEW n, AttachAsAnalyst(n, e, a)
      PROVE  Allowed
  BY <1>4, JoinAllowed DEF AttachAsAnalyst
<1>5. QED
  BY <1>1, <1>2, <1>3, <1>4, SendAllowed, ElapseAllowed
     DEF Next, RunStep, AnalystStep, Time, Fault, vars, tables, stage, history, StartRun,
       CountSources, MarkGrouped, StartClassification, SaveClassification, ReadEvents,
       UpdateAssessment, RolledUp, StartSummaries, ReadArticles, SaveSummary, StartAlerts,
       DecideAlert, FinishRun, UpdateFields, Unpublish, CheckApproval, CountAsAnalyst,
       Approve, ClassificationFails, SummaryFails, RunDies, RequestDies

(* Within the suppression window only upgrades and news are alerted, for   *)
(* every number of events, articles, requests and failures                 *)
(* (runAlertStage, decideAlert).                                           *)
THEOREM PolicyImplemented == Spec => ImplementsPolicy
<1>1. Init => Policy!Init
  BY DEF Init, Policy!Init
<1>2. TypeOK /\ Known /\ Budget /\ [Next]_vars => [Policy!Next]_(Policy!vars)
  BY StepAllowed DEF Allowed, Policy!vars, News
<1>3. QED
  BY <1>1, <1>2, TypeInit, TypeStep, KnownStep, BudgetInit, BudgetStep, PTL
     DEF Spec, ImplementsPolicy, Policy!Spec
=============================================================================
