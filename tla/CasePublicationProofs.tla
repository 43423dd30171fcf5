------------------------ MODULE CasePublicationProofs ------------------------
(***************************************************************************)
(* Theorems about CasePublication, for every set of cases and analysts and *)
(* every bound.                                                            *)
(***************************************************************************)
EXTENDS CasePublication, TLAPS

ActType == [step : {"off", "gates", "mark", "log"}, case : Cases \cup {None},
            was : {"absent", "draft", "approved"}, publish : BOOLEAN]

(* An initial fetch is for a case.                                         *)
FetchHasCase == fetch.step # "off" => fetch.case \in Cases

(* So is a change of publication.                                          *)
ActHasCase == \A a \in Actors : act[a].step # "off" => act[a].case \in Cases

TypeInv == TypeOK /\ FetchHasCase /\ ActHasCase

LEMMA TypeInit == Init => TypeInv
<1> SUFFICES ASSUME Init PROVE TypeInv
  OBVIOUS
<1>1. PICK score \in [Cases -> InitialScores] :
        world = [c \in Cases |-> [s \in Sources |-> IF s = "nvd" THEN score[c] ELSE "quiet"]]
  BY DEF Init
<1>2. world \in [Cases -> [Sources -> {"quiet", "alert"}]]
  BY <1>1, ConstantsAssumption
<1>3. obs \in [Cases -> [Sources -> Values \cup {"none"}]]
  BY <1>2 DEF Init, Values
<1>4. reports \in Seq(SUBSET Cases) /\ tried \subseteq Cases
  BY ConstantsAssumption DEF Init
<1>5. QED
  BY <1>2, <1>3, <1>4 DEF Init, TypeInv, TypeOK, FetchHasCase, ActHasCase, NoFetch, NoAct,
                          Sources, Values, Actors

LEMMA TypeStep == TypeInv /\ [Next]_vars => TypeInv'
<1> USE ConstantsAssumption
        DEF TypeInv, TypeOK, FetchHasCase, ActHasCase, Sources, Values, upstream, tables,
            pipeline, tick, history, bounds
<1> SUFFICES ASSUME TypeInv, [Next]_vars PROVE TypeInv'
  OBVIOUS
<1>1. CASE StartConsolidation
  BY <1>1 DEF StartConsolidation, Considered
<1>2. ASSUME NEW c \in Cases, EnsureCase(c) PROVE TypeInv'
  BY <1>2 DEF EnsureCase
<1>3. ASSUME NEW c \in Cases, CheckNew(c) PROVE TypeInv'
  BY <1>3 DEF CheckNew
<1>4. ASSUME NEW c \in Cases, BeginEnrichment(c) PROVE TypeInv'
  BY <1>4 DEF BeginEnrichment, NoFetch
<1>5. CASE FetchInitial
  <2>1. world[fetch.case][fetch.source] \in Values
    BY <1>5 DEF FetchInitial
  <2>2. /\ fetch' = [fetch EXCEPT !.step = "persist",
                                 !.got = world[fetch.case][fetch.source]]
        /\ fetch.step = "fetch"
        /\ UNCHANGED <<upstream, tables, ppc, batch, ptodo, fresh, tick, act, history, bounds>>
    BY <1>5 DEF FetchInitial
  <2>3. fetch' \in [case : Cases \cup {None}, source : Sources,
                   step : {"off", "fetch", "persist", "sync"}, got : Values]
        /\ fetch'.case \in Cases
    BY <2>1, <2>2
  <2>4. QED
    BY <2>2, <2>3
<1>6. CASE PersistInitial
  BY <1>6 DEF PersistInitial, NextFetch, Overtaken
<1>7. CASE SyncEnriched
  BY <1>7 DEF SyncEnriched, SyncCase, NoFetch, Actors
<1>8. ASSUME NEW c \in Cases, SyncTouched(c) PROVE TypeInv'
  BY <1>8 DEF SyncTouched, SyncCase, Actors
<1>9. CASE NextPhase
  BY <1>9 DEF NextPhase
<1>10. ASSUME NEW a \in Actors, SyncGates(a) PROVE TypeInv'
  <2> DEFINE publish == Gate(obs[act[a].case])
  <2>1. publish \in BOOLEAN
    BY DEF Gate
  <2>2. /\ act' = [act EXCEPT ![a] = IF publish = (@.was = "approved") THEN NoAct
                     ELSE [@ EXCEPT !.step = "mark", !.publish = publish]]
        /\ UNCHANGED <<upstream, tables, pipeline, tick, history, bounds>>
    BY <1>10 DEF SyncGates
  <2> HIDE DEF publish
  <2>3. act'[a] \in ActType
    <3>1. act[a] \in ActType
      BY DEF ActType
    <3>2. NoAct \in ActType
      BY DEF NoAct, ActType
    <3>3. [act[a] EXCEPT !.step = "mark", !.publish = publish] \in ActType
      BY <2>1, <3>1 DEF ActType
    <3>4. act'[a] = IF publish = (act[a].was = "approved") THEN NoAct
                   ELSE [act[a] EXCEPT !.step = "mark", !.publish = publish]
      BY <2>2
    <3> QED
      BY <3>2, <3>3, <3>4
  <2>4. act' \in [Actors -> ActType]
    BY <2>2, <2>3 DEF ActType
  <2>5. act'[a].step # "off" => act'[a].case \in Cases
    <3>1. act[a] \in ActType /\ act[a].case \in Cases
      BY <1>10 DEF ActType, SyncGates
    <3>2. [act[a] EXCEPT !.step = "mark", !.publish = publish].case = act[a].case
      BY <3>1 DEF ActType
    <3>3. QED
      BY <2>2, <3>1, <3>2 DEF NoAct
  <2>6. \A b \in Actors \ {a} : act'[b] = act[b]
    BY <2>2
  <2>7. \A b \in Actors : act'[b].step # "off" => act'[b].case \in Cases
    BY <2>5, <2>6
  <2>8. QED
    BY <2>2, <2>4, <2>7 DEF ActType
<1>11. ASSUME NEW a \in Actors, Mark(a) PROVE TypeInv'
  <2>1. status' \in [Cases -> {"absent", "draft", "approved"}]
    BY <1>11 DEF Mark
  <2>2. act' \in [Actors -> ActType]
    <3>1. act \in [Actors -> ActType]
      BY DEF ActType
    <3>2. [act[a] EXCEPT !.step = "log"] \in ActType
      <4>1. act[a] \in ActType
        BY <3>1
      <4> HIDE DEF TypeInv, TypeOK
      <4>2. QED
        BY <4>1 DEF ActType
    <3>3. act' = [act EXCEPT ![a] = [act[a] EXCEPT !.step = "log"]]
      BY <1>11 DEF Mark
    <3>4. QED
      BY <3>1, <3>2, <3>3
  <2>3. UNCHANGED <<upstream, reports, obs, tried, cursor, logged, pipeline, tick, overtaken,
                    bounds>>
    BY <1>11 DEF Mark
  <2>4. torn' \subseteq Cases
    BY <1>11 DEF Mark, Torn
  <2>5. \A b \in Actors : act'[b].step # "off" => act'[b].case \in Cases
    BY <1>11 DEF Mark
  <2>6. QED
    BY <2>1, <2>2, <2>3, <2>4, <2>5 DEF ActType
<1>12. ASSUME NEW a \in Actors, Log(a) PROVE TypeInv'
  BY <1>12 DEF Log, EventOf, NoAct
<1>13. CASE StartTick
  BY <1>13 DEF StartTick, Modified
<1>14. CASE ListTracked
  BY <1>14 DEF ListTracked
<1>15. ASSUME NEW rec \in recs, RefreshNvd(rec) PROVE TypeInv'
  BY <1>15 DEF RefreshNvd, Refresh, Later
<1>16. CASE FinishNvd
  BY <1>16 DEF FinishNvd
<1>17. CASE ListForCatalogue
  BY <1>17 DEF ListForCatalogue, Tracked
<1>18. CASE FetchCatalogue
  BY <1>18 DEF FetchCatalogue
<1>19. ASSUME NEW c \in Cases, RefreshKev(c) PROVE TypeInv'
  BY <1>19 DEF RefreshKev, Refresh
<1>20. CASE FinishKev
  BY <1>20 DEF FinishKev
<1>21. CASE FinishEpss
  BY <1>21 DEF FinishEpss, Tracked
<1>22. ASSUME NEW c \in Cases, SyncNextCase(c) PROVE TypeInv'
  BY <1>22 DEF SyncNextCase, SyncCase, Actors
<1>23. CASE FinishTick
  BY <1>23 DEF FinishTick
<1>24. ASSUME NEW a \in Analysts, NEW c \in Cases, Analyst(a, c) PROVE TypeInv'
  BY <1>24 DEF Analyst, Actors
<1>25. ASSUME NEW c \in Cases, NEW s \in Sources, ChangeUpstream(c, s) PROVE TypeInv'
  BY <1>25 DEF ChangeUpstream
<1>26. ASSUME NEW C \in SUBSET Cases \ {{}}, Report(C) PROVE TypeInv'
  BY <1>26 DEF Report
<1>27. CASE TimePasses
  BY <1>27 DEF TimePasses
<1>28. CASE FetchFails
  <2>1. /\ fetch' \in [case : Cases \cup {None}, source : Sources,
                      step : {"off", "fetch", "persist", "sync"}, got : Values]
        /\ fetch'.case \in Cases
    BY <1>28 DEF FetchFails, NextFetch
  <2>2. tried' \subseteq Cases /\ transients' \in Nat
    BY <1>28 DEF FetchFails
  <2>3. UNCHANGED <<upstream, reports, status, obs, cursor, logged, ppc, batch, ptodo,
                    fresh, tick, act, history, faults, actions>>
    BY <1>28 DEF FetchFails
  <2>4. QED
    BY <2>1, <2>2, <2>3
<1>29. CASE PipelineFails
  BY <1>29 DEF PipelineFails, NoFetch, NoAct, Actors, Unlogged
<1>30. CASE TickFails
  BY <1>30 DEF TickFails, NoAct, Actors, Unlogged
<1>31. CASE UNCHANGED vars
  BY <1>31 DEF vars
<1> HIDE DEF TypeInv, TypeOK, FetchHasCase, ActHasCase, Sources, Values, upstream, tables,
             pipeline, tick, history, bounds
<1>32. ASSUME NEW a \in Actors, Change(a) PROVE TypeInv'
  BY <1>10, <1>11, <1>12, <1>32 DEF Change
<1>33. "pipeline" \in Actors /\ "maintenance" \in Actors /\ Analysts \subseteq Actors
  BY DEF Actors
<1>34. CASE PipelineStep
  BY <1>1, <1>2, <1>3, <1>4, <1>5, <1>6, <1>7, <1>8, <1>9, <1>32, <1>33, <1>34
     DEF PipelineStep
<1>35. CASE TickStep
  BY <1>13, <1>14, <1>15, <1>16, <1>17, <1>18, <1>19, <1>20, <1>21, <1>22, <1>23, <1>32,
     <1>33, <1>35 DEF TickStep
<1>36. CASE AnalystStep
  BY <1>24, <1>32, <1>33, <1>36 DEF AnalystStep
<1>37. CASE Environment
  BY <1>25, <1>26, <1>27, <1>37 DEF Environment
<1>38. CASE Fault
  BY <1>28, <1>29, <1>30, <1>38 DEF Fault
<1>39. QED
  BY <1>31, <1>34, <1>35, <1>36, <1>37, <1>38 DEF Next

(* Every variable keeps its type (cases.ts, maintenance.ts, review.ts).    *)
THEOREM TypeCorrect == Spec => []TypeOK
BY TypeInit, TypeStep, PTL DEF Spec, TypeInv

-----------------------------------------------------------------------------
(* What the pipeline and the tick store belongs to cases that exist.       *)
Exists(c) == status[c] # "absent"

Existing ==
  /\ \A c \in Cases : obs[c]["nvd"] # "none" => Exists(c)
  /\ mpc = "nvd" => \A rec \in recs : Exists(rec.case)
  /\ fetch.step # "off" => Exists(fetch.case)
  /\ \A c \in batch : (ppc = "ensure" /\ c \in ptodo) \/ Exists(c)
  /\ ppc # "ensure" => \A c \in ptodo : Exists(c)
  /\ \A c \in fresh : Exists(c)

LEMMA ExistingStep == TypeInv /\ Existing /\ [Next]_vars => Existing'
<1> USE DEF TypeInv, TypeOK, FetchHasCase, Sources, Values, Existing, Exists, upstream,
            tables, pipeline, tick, history, bounds
<1> SUFFICES ASSUME TypeInv, Existing, [Next]_vars PROVE Existing'
  OBVIOUS
<1>1. CASE StartConsolidation
  BY <1>1 DEF StartConsolidation, Considered
<1>2. ASSUME NEW c \in Cases, EnsureCase(c) PROVE Existing'
  BY <1>2 DEF EnsureCase
<1>3. ASSUME NEW c \in Cases, CheckNew(c) PROVE Existing'
  BY <1>3 DEF CheckNew
<1>4. ASSUME NEW c \in Cases, BeginEnrichment(c) PROVE Existing'
  BY <1>4 DEF BeginEnrichment, NoFetch
<1>5. CASE FetchInitial
  BY <1>5 DEF FetchInitial
<1>6. CASE PersistInitial
  BY <1>6 DEF PersistInitial, NextFetch
<1>7. CASE SyncEnriched
  BY <1>7 DEF SyncEnriched, NoFetch
<1>8. ASSUME NEW c \in Cases, SyncTouched(c) PROVE Existing'
  BY <1>8 DEF SyncTouched
<1>9. CASE NextPhase
  BY <1>9 DEF NextPhase
<1>10. ASSUME NEW a \in Actors, SyncGates(a) PROVE Existing'
  BY <1>10 DEF SyncGates
<1>11. ASSUME NEW a \in Actors, Mark(a) PROVE Existing'
  BY <1>11 DEF Mark
<1>12. ASSUME NEW a \in Actors, Log(a) PROVE Existing'
  BY <1>12 DEF Log
<1>13. CASE StartTick
  BY <1>13 DEF StartTick, Modified
<1>14. CASE ListTracked
  BY <1>14 DEF ListTracked, Tracked
<1>15. ASSUME NEW rec \in recs, RefreshNvd(rec) PROVE Existing'
  BY <1>15 DEF RefreshNvd, Refresh, Later
<1>16. CASE FinishNvd
  BY <1>16 DEF FinishNvd
<1>17. CASE ListForCatalogue
  BY <1>17 DEF ListForCatalogue
<1>18. CASE FetchCatalogue
  BY <1>18 DEF FetchCatalogue
<1>19. ASSUME NEW c \in Cases, RefreshKev(c) PROVE Existing'
  BY <1>19 DEF RefreshKev, Refresh
<1>20. CASE FinishKev
  BY <1>20 DEF FinishKev
<1>21. CASE FinishEpss
  BY <1>21 DEF FinishEpss
<1>22. ASSUME NEW c \in Cases, SyncNextCase(c) PROVE Existing'
  BY <1>22 DEF SyncNextCase
<1>23. CASE FinishTick
  BY <1>23 DEF FinishTick
<1>24. ASSUME NEW a \in Analysts, NEW c \in Cases, Analyst(a, c) PROVE Existing'
  BY <1>24 DEF Analyst
<1>25. ASSUME NEW c \in Cases, NEW s \in Sources, ChangeUpstream(c, s) PROVE Existing'
  BY <1>25 DEF ChangeUpstream
<1>26. ASSUME NEW C \in SUBSET Cases \ {{}}, Report(C) PROVE Existing'
  BY <1>26 DEF Report
<1>27. CASE TimePasses
  BY <1>27 DEF TimePasses
<1>28. CASE FetchFails
  BY <1>28 DEF FetchFails, NextFetch
<1>29. CASE PipelineFails
  BY <1>29 DEF PipelineFails, NoFetch
<1>30. CASE TickFails
  BY <1>30 DEF TickFails
<1>31. CASE UNCHANGED vars
  BY <1>31 DEF vars
<1> HIDE DEF TypeInv, TypeOK, FetchHasCase, Sources, Values, Existing, Exists, upstream,
             tables, pipeline, tick, history, bounds
<1>32. ASSUME NEW a \in Actors, Change(a) PROVE Existing'
  BY <1>10, <1>11, <1>12, <1>32 DEF Change
<1>33. "pipeline" \in Actors /\ "maintenance" \in Actors /\ Analysts \subseteq Actors
  BY DEF Actors
<1>34. CASE PipelineStep
  BY <1>1, <1>2, <1>3, <1>4, <1>5, <1>6, <1>7, <1>8, <1>9, <1>32, <1>33, <1>34
     DEF PipelineStep
<1>35. CASE TickStep
  BY <1>13, <1>14, <1>15, <1>16, <1>17, <1>18, <1>19, <1>20, <1>21, <1>22, <1>23, <1>32,
     <1>33, <1>35 DEF TickStep
<1>36. CASE AnalystStep
  BY <1>24, <1>32, <1>33, <1>36 DEF AnalystStep
<1>37. CASE Environment
  BY <1>25, <1>26, <1>27, <1>37 DEF Environment
<1>38. CASE Fault
  BY <1>28, <1>29, <1>30, <1>38 DEF Fault
<1>39. QED
  BY <1>31, <1>34, <1>35, <1>36, <1>37, <1>38 DEF Next

(* The window.  OnlyOvertakenMissed is not inductive: it has to say what   *)
(* the records in a tick's hands and the cursor it is about to store mean  *)
(* for a case whose stored score is old.  Either the revision it lacks is  *)
(* later than everything the tick has, or it is among its records.  And an *)
(* old record in the tick's hands is of a case whose revision is ahead of  *)
(* the tick: that is why storing it heals an overtaken case.               *)
Ticking == mpc \in {"list", "nvd"}

Ahead(c) ==
  /\ cursor <= mod[c]
  /\ Ticking => top <= mod[c] /\ \A rec \in recs : rec.mod <= mod[c]

Window ==
  /\ cursor <= clock /\ aged <= clock
  /\ \A c \in Cases : mod[c] <= clock
  /\ Ticking => cursor <= top /\ top <= clock
  /\ ~ Ticking => recs = {}
  /\ \A rec \in recs :
       /\ rec.mod <= clock
       /\ rec.value # world[rec.case]["nvd"] => Ahead(rec.case)
  /\ \A c \in Cases \ overtaken :
       obs[c]["nvd"] \notin {"none", world[c]["nvd"]} =>
         /\ cursor <= mod[c]
         /\ Ahead(c) \/ \E rec \in recs : rec.case = c /\ rec.value = world[c]["nvd"]

LEMMA WindowStep == TypeInv /\ Existing /\ Window /\ [Next]_vars => Window'
<1> USE DEF TypeInv, TypeOK, FetchHasCase, Sources, Values, Window, Ticking, Ahead,
            upstream, tables, pipeline, tick, history, bounds
<1> SUFFICES ASSUME TypeInv, Existing, Window, [Next]_vars PROVE Window'
  OBVIOUS
<1>1. CASE StartConsolidation
  BY <1>1 DEF StartConsolidation, Considered
<1>2. ASSUME NEW c \in Cases, EnsureCase(c) PROVE Window'
  BY <1>2 DEF EnsureCase
<1>3. ASSUME NEW c \in Cases, CheckNew(c) PROVE Window'
  BY <1>3 DEF CheckNew
<1>4. ASSUME NEW c \in Cases, BeginEnrichment(c) PROVE Window'
  BY <1>4 DEF BeginEnrichment, NoFetch
<1>5. CASE FetchInitial
  BY <1>5 DEF FetchInitial
<1>6. CASE PersistInitial
  BY <1>6 DEF PersistInitial, NextFetch, Overtaken
<1>7. CASE SyncEnriched
  BY <1>7 DEF SyncEnriched, NoFetch
<1>8. ASSUME NEW c \in Cases, SyncTouched(c) PROVE Window'
  BY <1>8 DEF SyncTouched
<1>9. CASE NextPhase
  BY <1>9 DEF NextPhase
<1>10. ASSUME NEW a \in Actors, SyncGates(a) PROVE Window'
  BY <1>10 DEF SyncGates
<1>11. ASSUME NEW a \in Actors, Mark(a) PROVE Window'
  BY <1>11 DEF Mark
<1>12. ASSUME NEW a \in Actors, Log(a) PROVE Window'
  BY <1>12 DEF Log
<1>13. CASE StartTick
  <2>1. /\ mpc = "idle" /\ mpc' = "list" /\ top' = cursor
        /\ recs' = {[case |-> d, value |-> world[d]["nvd"], mod |-> mod[d]] : d \in Modified}
        /\ UNCHANGED <<upstream, tables, pipeline, mtodo, act, overtaken, bounds>>
    BY <1>13 DEF StartTick
  <2>2. ASSUME NEW rec \in recs'
        PROVE  rec.case \in Cases /\ rec.mod <= aged /\ rec.value = world[rec.case]["nvd"]
    BY <2>1 DEF Modified
  <2>3. ASSUME NEW d \in Modified
        PROVE  [case |-> d, value |-> world[d]["nvd"], mod |-> mod[d]] \in recs'
    BY <2>1
  <2>4. \A rec \in recs' :
          rec.mod \in Nat /\ rec.mod <= clock /\ rec.value = world[rec.case]["nvd"]
    <3>1. \A rec \in recs' : rec.mod \in Nat
      BY <2>1 DEF Modified
    <3>2. aged \in Nat /\ clock \in Nat /\ aged <= clock
      OBVIOUS
    <3>3. QED
      BY <2>2, <3>1, <3>2
  <2>5. ASSUME NEW c \in Cases \ overtaken, obs[c]["nvd"] \notin {"none", world[c]["nvd"]}
        PROVE  /\ cursor <= mod[c]
               /\ \/ \A rec \in recs' : rec.mod <= mod[c]
                  \/ \E rec \in recs' : rec.case = c /\ rec.value = world[c]["nvd"]
    <3>1. cursor <= mod[c] /\ mod[c] \in Nat /\ aged \in Nat
      BY <2>5
    <3>2. CASE mod[c] <= aged
      <4>1. c \in Modified
        BY <3>1, <3>2 DEF Modified
      <4>2. QED
        BY <2>3, <3>1, <4>1
    <3>3. CASE ~ (mod[c] <= aged)
      <4>1. \A rec \in recs' : rec.mod \in Nat /\ rec.mod <= aged
        BY <2>2, <2>4
      <4>2. QED
        BY <3>1, <3>3, <4>1
    <3>4. QED
      BY <3>2, <3>3
  <2>6. /\ cursor' = cursor /\ clock' = clock /\ aged' = aged /\ mod' = mod
        /\ world' = world /\ obs' = obs /\ overtaken' = overtaken
        /\ cursor \in Nat /\ cursor <= clock
    BY <2>1
  <2>7. mpc' = "list" /\ top' = cursor
    BY <2>1
  <2>8. \A c \in Cases : mod[c] <= clock
    OBVIOUS
  <2>9. aged <= clock
    OBVIOUS
  <2> HIDE DEF TypeInv, TypeOK, FetchHasCase
  <2>10. \A rec \in recs' : rec.mod <= clock /\ rec.value = world[rec.case]["nvd"]
    BY <2>4
  <2>11. \A c \in Cases \ overtaken : obs[c]["nvd"] \notin {"none", world[c]["nvd"]} =>
           /\ cursor <= mod[c]
           /\ \/ \A rec \in recs' : rec.mod <= mod[c]
              \/ \E rec \in recs' : rec.case = c /\ rec.value = world[c]["nvd"]
    BY <2>5
  <2>12. QED
    BY <2>6, <2>7, <2>8, <2>9, <2>10, <2>11
<1>14. CASE ListTracked
  BY <1>14 DEF ListTracked, Tracked, Existing, Exists
<1>15. ASSUME NEW rec \in recs, RefreshNvd(rec) PROVE Window'
  BY <1>15 DEF RefreshNvd, Refresh, Later
<1>16. CASE FinishNvd
  BY <1>16 DEF FinishNvd
<1>17. CASE ListForCatalogue
  BY <1>17 DEF ListForCatalogue
<1>18. CASE FetchCatalogue
  BY <1>18 DEF FetchCatalogue
<1>19. ASSUME NEW c \in Cases, RefreshKev(c) PROVE Window'
  BY <1>19 DEF RefreshKev, Refresh
<1>20. CASE FinishKev
  BY <1>20 DEF FinishKev
<1>21. CASE FinishEpss
  BY <1>21 DEF FinishEpss
<1>22. ASSUME NEW c \in Cases, SyncNextCase(c) PROVE Window'
  BY <1>22 DEF SyncNextCase
<1>23. CASE FinishTick
  BY <1>23 DEF FinishTick
<1>24. ASSUME NEW a \in Analysts, NEW c \in Cases, Analyst(a, c) PROVE Window'
  BY <1>24 DEF Analyst
<1>25. ASSUME NEW c \in Cases, NEW s \in Sources, ChangeUpstream(c, s) PROVE Window'
  BY <1>25 DEF ChangeUpstream
<1>26. ASSUME NEW C \in SUBSET Cases \ {{}}, Report(C) PROVE Window'
  BY <1>26 DEF Report
<1>27. CASE TimePasses
  BY <1>27 DEF TimePasses
<1>28. CASE FetchFails
  BY <1>28 DEF FetchFails, NextFetch
<1>29. CASE PipelineFails
  BY <1>29 DEF PipelineFails, NoFetch
<1>30. CASE TickFails
  BY <1>30 DEF TickFails
<1>31. CASE UNCHANGED vars
  BY <1>31 DEF vars
<1> HIDE DEF TypeInv, TypeOK, FetchHasCase, Sources, Values, Window, Ticking, Ahead,
             upstream, tables, pipeline, tick, history, bounds
<1>32. ASSUME NEW a \in Actors, Change(a) PROVE Window'
  BY <1>10, <1>11, <1>12, <1>32 DEF Change
<1>33. "pipeline" \in Actors /\ "maintenance" \in Actors /\ Analysts \subseteq Actors
  BY DEF Actors
<1>34. CASE PipelineStep
  BY <1>1, <1>2, <1>3, <1>4, <1>5, <1>6, <1>7, <1>8, <1>9, <1>32, <1>33, <1>34
     DEF PipelineStep
<1>35. CASE TickStep
  BY <1>13, <1>14, <1>15, <1>16, <1>17, <1>18, <1>19, <1>20, <1>21, <1>22, <1>23, <1>32,
     <1>33, <1>35 DEF TickStep
<1>36. CASE AnalystStep
  BY <1>24, <1>32, <1>33, <1>36 DEF AnalystStep
<1>37. CASE Environment
  BY <1>25, <1>26, <1>27, <1>37 DEF Environment
<1>38. CASE Fault
  BY <1>28, <1>29, <1>30, <1>38 DEF Fault
<1>39. QED
  BY <1>31, <1>34, <1>35, <1>36, <1>37, <1>38 DEF Next

(* No revision of a score is passed by: an old score in the database stays *)
(* inside the window of the next ticks (maintenance.ts, its cursor and its *)
(* safety buffer), whatever fails and however pipeline and tick interleave,*)
(* also when NVD changes records while they are in a tick's or the         *)
(* pipeline's hands.  Only a case whose initial fetch was overtaken before *)
(* it was stored may be left behind, until a tick stores a record of it.   *)
THEOREM OnlyOvertakenIsMissed == Spec => []OnlyOvertakenMissed
<1>1. Init => TypeInv /\ Existing /\ Window
  <2>1. ASSUME Init
        PROVE  \A c \in Cases :
                 /\ obs[c]["nvd"] \in {"none", world[c]["nvd"]}
                 /\ obs[c]["nvd"] # "none" => Exists(c)
    <3>1. \A c \in Cases :
            /\ obs[c] = IF c \in OldCases THEN world[c] ELSE [s \in Sources |-> "none"]
            /\ c \in OldCases => status[c] # "absent"
      BY <2>1 DEF Init
    <3>2. \A c \in Cases \ OldCases : obs[c]["nvd"] = "none"
      BY <3>1 DEF Sources
    <3>3. QED
      BY <3>1, <3>2 DEF Exists
  <2>2. Init => Existing
    <3>1. Init => /\ ppc = "idle" /\ mpc = "idle" /\ fetch = NoFetch
                  /\ batch = {} /\ ptodo = {} /\ fresh = {}
      BY DEF Init
    <3>2. NoFetch.step = "off"
      BY DEF NoFetch
    <3>3. QED
      BY <2>1, <3>1, <3>2 DEF Existing
  <2>3. Init => Window
    <3>1. Init => /\ recs = {} /\ mpc = "idle" /\ cursor = 0 /\ aged = 0 /\ clock = 0
                  /\ \A c \in Cases : mod[c] = 0
      BY DEF Init
    <3>2. QED
      BY <2>1, <3>1 DEF Window, Ticking
  <2>4. QED
    BY <2>2, <2>3, TypeInit
<1>2. TypeInv /\ Existing /\ Window /\ [Next]_vars => (TypeInv /\ Existing /\ Window)'
  BY TypeStep, ExistingStep, WindowStep
<1>3. Window => OnlyOvertakenMissed
  BY DEF Window, OnlyOvertakenMissed
<1>4. QED
  BY <1>1, <1>2, <1>3, PTL DEF Spec

-----------------------------------------------------------------------------
(* The review history.  What HistoryAgrees says between the changes of a   *)
(* case has to be kept during them: of a case that is not torn one change  *)
(* at most has its event to write, and it is the one the status is of.     *)
Public(c) == status[c] = "approved"

History ==
  \A c \in Cases \ torn :
    /\ \A a, b \in Actors : Logging(a, c) /\ Logging(b, c) => a = b
    /\ \A a \in Actors : Logging(a, c) => (act[a].publish <=> Public(c))
    /\ (\A a \in Actors : ~ Logging(a, c)) => (Public(c) <=> logged[c] = "approval")

(* Steps of this kind leave the statuses, the events and the changes that  *)
(* have theirs to write alone.                                             *)
LEMMA HistoryKept ==
  ASSUME TypeInv, History, UNCHANGED <<logged, torn>>,
         \A c \in Cases : Public(c)' <=> Public(c),
         \A a \in Actors :
           \/ act'[a] = act[a]
           \/ act[a].step # "log" /\ act'[a].step # "log"
  PROVE  History'
BY DEF History, Logging

LEMMA HistoryStep == TypeInv /\ History /\ [Next]_vars => History'
<1> USE DEF upstream, tables, pipeline, tick, history, bounds
<1> SUFFICES ASSUME TypeInv, History, [Next]_vars PROVE History'
  OBVIOUS
<1>1. "pipeline" \in Actors /\ "maintenance" \in Actors /\ Analysts \subseteq Actors
  BY DEF Actors
<1>2. act \in [Actors -> ActType] /\ status \in [Cases -> {"absent", "draft", "approved"}]
      /\ logged \in [Cases -> {"none", "approval", "unapproval"}]
      /\ \A a \in Actors : act[a].step # "off" => act[a].case \in Cases
  BY DEF TypeInv, TypeOK, ActHasCase, ActType
<1>3. UNCHANGED <<status, logged, act, torn>> => History'
  BY HistoryKept DEF Public
<1>4. ASSUME NEW a \in Actors, NEW c \in Cases, SyncCase(a, c),
             UNCHANGED <<status, logged, torn>>
      PROVE  History'
  BY <1>2, <1>4, HistoryKept DEF SyncCase, Public
<1>5. ASSUME NEW a \in Actors, SyncGates(a) PROVE History'
  <2> DEFINE publish == Gate(obs[act[a].case])
  <2>1. /\ act[a].step = "gates"
        /\ act' = [act EXCEPT ![a] = IF publish = (@.was = "approved") THEN NoAct
                                     ELSE [@ EXCEPT !.step = "mark", !.publish = publish]]
        /\ UNCHANGED <<status, logged, torn>>
    BY <1>5 DEF SyncGates
  <2> HIDE DEF publish
  <2>2. [act[a] EXCEPT !.step = "mark", !.publish = publish].step = "mark"
    BY <1>2 DEF ActType
  <2>3. act[a].step # "log" /\ act'[a].step # "log"
    BY <1>2, <2>1, <2>2 DEF NoAct
  <2>4. QED
    BY <1>2, <2>1, <2>3, HistoryKept DEF Public
<1>6. ASSUME NEW a \in Actors, Mark(a) PROVE History'
  <2>1. PICK d \in Cases : d = act[a].case
    BY <1>2, <1>6 DEF Mark
  <2>2. /\ act[a].step = "mark"
        /\ status' = [status EXCEPT ![d] = IF act[a].publish THEN "approved" ELSE "draft"]
        /\ act' = [act EXCEPT ![a].step = "log"]
        /\ torn' = Torn(a)
        /\ logged' = logged
    BY <1>6, <2>1 DEF Mark
  <2>3. /\ act'[a].step = "log" /\ act'[a].case = d /\ act'[a].publish = act[a].publish
        /\ \A b \in Actors \ {a} : act'[b] = act[b]
    BY <1>2, <2>1, <2>2 DEF ActType
  <2>4. ASSUME NEW c \in Cases \ torn', c # d
        PROVE  /\ c \in Cases \ torn
               /\ Public(c)' <=> Public(c)
               /\ \A b \in Actors : Logging(b, c)' <=> Logging(b, c)
    BY <1>2, <2>1, <2>2, <2>3, <2>4 DEF Torn, Public, Logging
  <2>5. ASSUME d \notin torn'
        PROVE  /\ \A b \in Actors \ {a} : ~ Logging(b, d)'
               /\ Logging(a, d)'
               /\ act'[a].publish <=> Public(d)'
    BY <1>2, <2>1, <2>2, <2>3, <2>5 DEF Torn, Contested, Public, Logging
  <2>6. \A c \in Cases, b \in Actors : c # d /\ Logging(b, c)' => act'[b] = act[b]
    BY <2>3 DEF Logging
  <2>7. ASSUME NEW c \in Cases \ torn'
        PROVE  /\ \A x, b \in Actors : Logging(x, c)' /\ Logging(b, c)' => x = b
               /\ \A x \in Actors : Logging(x, c)' => (act'[x].publish <=> Public(c)')
               /\ (\A x \in Actors : ~ Logging(x, c)') =>
                    (Public(c)' <=> logged'[c] = "approval")
    <3>1. CASE c = d
      BY <2>5, <2>7, <3>1
    <3>2. CASE c # d
      BY <2>2, <2>4, <2>6, <2>7, <3>2 DEF History
    <3>3. QED
      BY <3>1, <3>2
  <2>8. QED
    BY <2>7 DEF History
<1>7. ASSUME NEW a \in Actors, Log(a) PROVE History'
  <2>1. PICK d \in Cases : d = act[a].case
    BY <1>2, <1>7 DEF Log
  <2>2. /\ Logging(a, d)
        /\ logged' = [logged EXCEPT ![d] = EventOf(a)]
        /\ act' = [act EXCEPT ![a] = NoAct]
        /\ status' = status /\ torn' = torn
    BY <1>7, <2>1 DEF Log, Logging
  <2>3. /\ \A c \in Cases : ~ Logging(a, c)'
        /\ \A b \in Actors \ {a} : act'[b] = act[b]
    BY <1>2, <2>2 DEF Logging, NoAct
  <2>4. \A c \in Cases, b \in Actors : b # a => (Logging(b, c)' <=> Logging(b, c))
    BY <2>3 DEF Logging
  <2>5. \A c \in Cases : c # d => ~ Logging(a, c) /\ logged'[c] = logged[c]
    BY <1>2, <2>1, <2>2 DEF Logging
  <2>6. d \notin torn => (Public(d) <=> logged'[d] = "approval")
    BY <1>2, <2>2 DEF History, EventOf
  <2>7. \A c \in Cases : Public(c)' <=> Public(c)
    BY <2>2 DEF Public
  <2>8. QED
    BY <2>2, <2>3, <2>4, <2>5, <2>6, <2>7 DEF History
<1>8. ASSUME NEW a \in Actors, Change(a) PROVE History'
  BY <1>5, <1>6, <1>7, <1>8 DEF Change
<1>9. ASSUME NEW a \in Actors, act' = [act EXCEPT ![a] = NoAct],
             torn' = torn \cup Unlogged(a), UNCHANGED <<status, logged>>
      PROVE  History'
  <2>1. \A b \in Actors \ {a} : act'[b] = act[b]
    BY <1>2, <1>9
  <2>2. \A c \in Cases : ~ Logging(a, c)'
    BY <1>2, <1>9 DEF Logging, NoAct
  <2>3. \A c \in Cases \ torn' : c \notin torn /\ ~ Logging(a, c)
    BY <1>9 DEF Unlogged
  <2>4. \A c \in Cases \ torn', b \in Actors : Logging(b, c)' <=> Logging(b, c)
    BY <2>1, <2>2, <2>3 DEF Logging
  <2>5. \A c \in Cases : Public(c)' <=> Public(c)
    BY <1>9 DEF Public
  <2>6. QED
    BY <1>9, <2>1, <2>2, <2>3, <2>4, <2>5 DEF History
<1>10. CASE PipelineStep
  <2>1. ASSUME NEW c \in Cases, EnsureCase(c) PROVE History'
    <3>1. \A e \in Cases : Public(e)' <=> Public(e)
      BY <1>2, <2>1 DEF EnsureCase, Public
    <3>2. UNCHANGED <<logged, act, torn>>
      BY <2>1 DEF EnsureCase
    <3>3. QED
      BY <3>1, <3>2, HistoryKept
  <2>2. ASSUME NEW c \in Cases, CheckNew(c) \/ BeginEnrichment(c) PROVE History'
    BY <1>3, <2>2 DEF CheckNew, BeginEnrichment
  <2>3. ASSUME NEW c \in Cases, SyncTouched(c) PROVE History'
    BY <1>1, <1>4, <2>3 DEF SyncTouched
  <2>4. CASE SyncEnriched
    BY <1>1, <1>4, <2>4 DEF SyncEnriched, TypeInv, FetchHasCase
  <2>5. CASE StartConsolidation
    BY <1>3, <2>5 DEF StartConsolidation, Considered
  <2>6. CASE FetchInitial
    BY <1>3, <2>6 DEF FetchInitial
  <2>7. CASE PersistInitial
    BY <1>3, <2>7 DEF PersistInitial
  <2>8. CASE NextPhase
    BY <1>3, <2>8 DEF NextPhase
  <2>9. QED
    BY <1>1, <1>8, <1>10, <2>1, <2>2, <2>3, <2>4, <2>5, <2>6, <2>7, <2>8 DEF PipelineStep
<1>11. CASE TickStep
  <2>1. ASSUME NEW rec \in recs, RefreshNvd(rec) PROVE History'
    BY <1>3, <2>1 DEF RefreshNvd, Refresh
  <2>2. ASSUME NEW c \in Cases, RefreshKev(c) PROVE History'
    BY <1>3, <2>2 DEF RefreshKev, Refresh
  <2>3. ASSUME NEW c \in Cases, SyncNextCase(c) PROVE History'
    BY <1>1, <1>4, <2>3 DEF SyncNextCase
  <2>4. CASE StartTick \/ ListTracked \/ FinishNvd \/ ListForCatalogue
    BY <1>3, <2>4 DEF StartTick, ListTracked, FinishNvd, ListForCatalogue
  <2>5. CASE FetchCatalogue \/ FinishKev \/ FinishEpss \/ FinishTick
    BY <1>3, <2>5 DEF FetchCatalogue, FinishKev, FinishEpss, FinishTick
  <2>6. QED
    BY <1>1, <1>8, <1>11, <2>1, <2>2, <2>3, <2>4, <2>5 DEF TickStep
<1>12. CASE AnalystStep
  <2>1. ASSUME NEW a \in Analysts, NEW c \in Cases, Analyst(a, c) PROVE History'
    BY <1>1, <1>2, <2>1, HistoryKept DEF Analyst, Unoccupied, Public
  <2>2. QED
    BY <1>1, <1>8, <1>12, <2>1 DEF AnalystStep
<1>13. CASE Environment
  BY <1>3, <1>13 DEF Environment, Report, ChangeUpstream, TimePasses
<1>14. CASE Fault
  <2>1. CASE FetchFails
    BY <1>3, <2>1 DEF FetchFails
  <2>2. CASE PipelineFails
    BY <1>1, <1>9, <2>2 DEF PipelineFails
  <2>3. CASE TickFails
    BY <1>1, <1>9, <2>3 DEF TickFails
  <2>4. QED
    BY <1>14, <2>1, <2>2, <2>3 DEF Fault
<1>15. CASE UNCHANGED vars
  BY <1>3, <1>15 DEF vars
<1>16. QED
  BY <1>10, <1>11, <1>12, <1>13, <1>14, <1>15 DEF Next

(* The review history stays true (review.ts): between the changes of a     *)
(* case its latest approval or unapproval is its status, however pipeline, *)
(* tick and analysts interleave and whichever of them dies, except in the  *)
(* cases whose last change died before its event or met another one.       *)
THEOREM HistoryStaysTrue == Spec => []HistoryAgrees
<1>1. Init => History
  BY DEF Init, History, Logging, NoAct, Public
<1>2. TypeInv /\ History => HistoryAgrees
  BY DEF History, HistoryAgrees, Public
<1>3. QED
  BY <1>1, <1>2, TypeInit, TypeStep, HistoryStep, PTL DEF Spec
=============================================================================
