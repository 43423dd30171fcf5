-------------------------- MODULE CaseEvidenceProofs --------------------------
(* Theorems about CaseEvidence, for every set of articles and CVE ids and  *)
(* every number of analysts, interpretations, verdicts and faults.         *)
EXTENDS CaseEvidence, SequenceTheorems, TLAPS

(* A request that is between its statements is about a link it has read.   *)
Requested(m) ==
  m.step # "off" => /\ m.case \in Cves /\ m.article \in Articles
                    /\ m.from # "absent" /\ m.to \in Verdicts

ActsKnown == \A n \in Analysts : Requested(act[n])

(* The interpretations of an article follow one another: at most one of    *)
(* them is complete, and what the stage holds of the article, or has       *)
(* attached, is not later than that one.                                   *)
OneEach ==
  \A i, j \in DOMAIN completed : completed[i].article = completed[j].article => i = j

Counted ==
  /\ \A i \in DOMAIN completed : completed[i].number <= count
  /\ \A e \in batch : e.number <= count
  /\ \A c \in Cves, a \in Articles : link[c][a].evidence <= count

Ordered ==
  /\ \A i \in DOMAIN completed, e \in batch :
       e.article = completed[i].article => e.number <= completed[i].number
  /\ \A i \in DOMAIN completed, c \in Cves :
       link[c][completed[i].article].evidence <= completed[i].number
  /\ \A e \in batch : link[e.case][e.article].evidence <= e.number
  /\ \A e, f \in batch : e.article = f.article => e.number = f.number

Latest == OneEach /\ Counted /\ Ordered

-----------------------------------------------------------------------------
(* The parts of a step.                                                    *)

(* Where the elements of a sequence are when the i-th is removed.          *)
Kept(j, i) == IF j < i THEN j ELSE j + 1

LEMMA Removed ==
  ASSUME NEW S, NEW s \in Seq(S), NEW i \in DOMAIN s
  PROVE  /\ RemoveAt(s, i) \in Seq(S)
         /\ \A j \in DOMAIN RemoveAt(s, i) :
              Kept(j, i) \in DOMAIN s /\ RemoveAt(s, i)[j] = s[Kept(j, i)]
<1> DEFINE l == SubSeq(s, 1, i - 1)
           r == SubSeq(s, i + 1, Len(s))
<1>0. i \in 1..Len(s) /\ Len(s) \in Nat
  BY LenProperties
<1>1. l \in Seq(S) /\ Len(l) = i - 1 /\ \A j \in 1..(i - 1) : l[j] = s[j]
  BY <1>0, SubSeqProperties
<1>2. r \in Seq(S) /\ Len(r) = Len(s) - i /\ \A j \in 1..(Len(s) - i) : r[j] = s[i + j]
  BY <1>0, SubSeqProperties
<1> HIDE DEF l, r
<1>3. /\ l \o r \in Seq(S) /\ Len(l \o r) = Len(s) - 1
      /\ \A j \in 1..(Len(s) - 1) : (l \o r)[j] = IF j <= i - 1 THEN l[j] ELSE r[j - (i - 1)]
  BY <1>0, <1>1, <1>2, ConcatProperties
<1>4. RemoveAt(s, i) = l \o r
  BY DEF RemoveAt, l, r
<1>5. DOMAIN (l \o r) = 1..(Len(s) - 1) /\ DOMAIN s = 1..Len(s)
  BY <1>3, LenProperties
<1>6. ASSUME NEW j \in 1..(Len(s) - 1)
      PROVE  Kept(j, i) \in 1..Len(s) /\ (l \o r)[j] = s[Kept(j, i)]
  <2>1. CASE j < i
    BY <1>0, <1>1, <1>3, <2>1 DEF Kept
  <2>2. CASE ~ (j < i)
    <3>1. (l \o r)[j] = r[j - (i - 1)] /\ j - (i - 1) \in 1..(Len(s) - i)
      BY <1>0, <1>3, <2>2
    <3>2. r[j - (i - 1)] = s[i + (j - (i - 1))] /\ i + (j - (i - 1)) = j + 1
      BY <1>0, <1>2, <3>1
    <3>3. QED
      BY <1>0, <2>2, <3>1, <3>2 DEF Kept
  <2>3. QED
    BY <2>1, <2>2
<1>7. QED
  BY <1>3, <1>4, <1>5, <1>6

ActTyped ==
  act \in [Analysts -> [step : {"off", "update", "append"}, case : Cves \cup {None},
                        article : Articles \cup {None}, from : States, to : States]]

(* A request moves on, or is over; the others are as they were.            *)
LEMMA ActReplaced ==
  ASSUME TypeOK, ActsKnown, NEW n \in Analysts, NEW m, act' = [act EXCEPT ![n] = m],
         m \in [step : {"update", "append"}, case : Cves, article : Articles,
                from : States, to : Verdicts],
         m.from # "absent"
  PROVE  ActTyped' /\ ActsKnown'
<1>1. Requested(m) /\ m \in [step : {"off", "update", "append"}, case : Cves \cup {None},
                           article : Articles \cup {None}, from : States, to : States]
  BY DEF Requested, States
<1>2. QED
  BY <1>1 DEF TypeOK, ActTyped, ActsKnown

LEMMA ActCleared ==
  ASSUME TypeOK, ActsKnown, NEW n \in Analysts, act' = [act EXCEPT ![n] = NoAct]
  PROVE  ActTyped' /\ ActsKnown'
<1>1. /\ NoAct \in [step : {"off", "update", "append"}, case : Cves \cup {None},
                    article : Articles \cup {None}, from : States, to : States]
      /\ Requested(NoAct)
  BY DEF Requested, NoAct, States
<1>2. QED
  BY <1>1 DEF TypeOK, ActTyped, ActsKnown

LEMMA Requests ==
  ASSUME TypeOK, ActsKnown, NEW n \in Analysts
  PROVE  /\ act[n] \in [step : {"off", "update", "append"}, case : Cves \cup {None},
                        article : Articles \cup {None}, from : States, to : States]
         /\ act[n].step # "off" => /\ act[n].case \in Cves /\ act[n].article \in Articles
                                    /\ act[n].from \in States \ {"absent"}
                                    /\ act[n].to \in Verdicts
BY DEF TypeOK, ActsKnown, Requested

LEMMA TypeInit == Init => TypeOK /\ ActsKnown
BY DEF Init, TypeOK, ActsKnown, Requested, NoLink, NoAct, States

(* The interpretation tasks.                                               *)
LEMMA CompleteTyped ==
  ASSUME TypeOK, ActsKnown, NEW a \in Articles, NEW reported \in SUBSET Cves,
         Complete(a, reported)
  PROVE  TypeOK' /\ ActsKnown'
<1> DEFINE t == [article |-> a, cves |-> reported, number |-> count + 1]
<1>1. t \in Tasks
  BY DEF TypeOK, Tasks
<1>2. completed' = Append(completed, t)
  BY DEF Complete
<1> HIDE DEF t
<1>3. completed' \in Seq(Tasks)
  BY <1>1, <1>2, AppendProperties DEF TypeOK
<1>4. QED
  BY <1>3 DEF Complete, stage, TypeOK, ActsKnown

LEMMA ReopenTyped ==
  ASSUME TypeOK, ActsKnown, NEW i \in DOMAIN completed, Reopen(i)
  PROVE  TypeOK' /\ ActsKnown'
<1>1. completed' \in Seq(Tasks)
  BY Removed DEF Reopen, TypeOK
<1>2. QED
  BY <1>1 DEF Reopen, stage, TypeOK, ActsKnown

(* What the stage collects is evidence of a completed task.                *)
LEMMA CollectedEvidence ==
  ASSUME TypeOK
  PROVE  /\ Collected \subseteq Evidence
         /\ \A e \in Collected : \E i \in DOMAIN completed :
              e.article = completed[i].article /\ e.number = completed[i].number
<1>1. ASSUME NEW i \in DOMAIN completed PROVE completed[i] \in Tasks
  BY <1>1, ElementOfSeq DEF TypeOK
<1>2. ASSUME NEW e \in Collected
      PROVE  \E i \in DOMAIN completed, c \in Cves :
               e = [case |-> c, article |-> completed[i].article, number |-> completed[i].number]
  <2>1. PICK t \in Window :
          \E c \in t.cves : e = [case |-> c, article |-> t.article, number |-> t.number]
    BY <1>2 DEF Collected
  <2>2. PICK i \in DOMAIN completed : t = completed[i]
    BY DEF Window
  <2>3. QED
    BY <1>1, <2>1, <2>2 DEF Tasks
<1>3. QED
  BY <1>1, <1>2 DEF Evidence, Tasks

LEMMA StageTyped ==
  ASSUME TypeOK, ActsKnown, StageStep \/ StageFails
  PROVE  TypeOK' /\ ActsKnown'
<1>1. CASE Collect
  BY <1>1, CollectedEvidence DEF Collect, TypeOK, ActsKnown, Evidence
<1>2. ASSUME NEW c \in Cves, EnsureCase(c) PROVE TypeOK' /\ ActsKnown'
  BY <1>2 DEF EnsureCase, TypeOK, ActsKnown
<1>3. ASSUME NEW e \in batch, Attach(e) PROVE TypeOK' /\ ActsKnown'
  <2>1. /\ e \in Evidence
        /\ link \in [Cves -> [Articles -> [state : States, evidence : Nat, first : Nat]]]
    BY DEF TypeOK
  <2>2. \A row \in [state : States, evidence : Nat, first : Nat] :
          Upserted(row, e) \in [state : States, evidence : Nat, first : Nat]
    BY <2>1 DEF Upserted, Evidence, States
  <2>3. link' \in [Cves -> [Articles -> [state : States, evidence : Nat, first : Nat]]]
    BY <1>3, <2>1, <2>2 DEF Attach, Evidence
  <2>4. QED
    BY <1>3, <2>3 DEF Attach, TypeOK, ActsKnown
<1>4. CASE StageFails
  BY <1>4 DEF StageFails, TypeOK, ActsKnown
<1>5. QED
  BY <1>1, <1>2, <1>3, <1>4 DEF StageStep

(* The analysts' requests.                                                 *)
LEMMA ReadLinkTyped ==
  ASSUME TypeOK, ActsKnown, NEW n \in Analysts, NEW c \in Cves, NEW a \in Articles,
         NEW v \in Verdicts, ReadLink(n, c, a, v)
  PROVE  TypeOK' /\ ActsKnown'
<1> DEFINE m == [step |-> "update", case |-> c, article |-> a, from |-> link[c][a].state,
                 to |-> v]
<1>1. link[c][a].state \in States /\ link[c][a].state # "absent"
  BY DEF TypeOK, ReadLink, Linked
<1>2. m \in [step : {"update", "append"}, case : Cves, article : Articles, from : States,
             to : Verdicts] /\ m.from # "absent"
  BY <1>1
<1>3. act' = [act EXCEPT ![n] = m]
  BY DEF ReadLink
<1> HIDE DEF m
<1>4. ActTyped' /\ ActsKnown'
  BY <1>2, <1>3, ActReplaced
<1>5. QED
  BY <1>4 DEF ReadLink, stage, TypeOK, ActTyped

LEMMA UpdateStateTyped ==
  ASSUME TypeOK, ActsKnown, NEW n \in Analysts, UpdateState(n)
  PROVE  TypeOK' /\ ActsKnown'
<1>1. act' = [act EXCEPT ![n] = [act[n] EXCEPT !.step = "append"]]
  BY DEF UpdateState
<1>2. /\ [act[n] EXCEPT !.step = "append"]
           \in [step : {"update", "append"}, case : Cves, article : Articles, from : States,
                to : Verdicts]
      /\ [act[n] EXCEPT !.step = "append"].from # "absent"
  BY Requests DEF UpdateState
<1>3. link' \in [Cves -> [Articles -> [state : States, evidence : Nat, first : Nat]]]
  <2>1. act[n].case \in Cves /\ act[n].article \in Articles /\ act[n].to \in States
    BY Requests DEF UpdateState, States
  <2>2. \A row \in [state : States, evidence : Nat, first : Nat] :
          [row EXCEPT !.state = act[n].to] \in [state : States, evidence : Nat, first : Nat]
    BY <2>1
  <2>3. link' = [link EXCEPT ![act[n].case][act[n].article] = [@ EXCEPT !.state = act[n].to]]
    BY DEF UpdateState
  <2>4. QED
    BY <2>1, <2>2, <2>3 DEF TypeOK
<1>4. ActTyped' /\ ActsKnown'
  BY <1>1, <1>2, ActReplaced
<1>5. QED
  BY <1>3, <1>4 DEF UpdateState, stage, TypeOK, ActTyped

LEMMA AppendEventTyped ==
  ASSUME TypeOK, ActsKnown, NEW n \in Analysts, AppendEvent(n)
  PROVE  /\ TypeOK' /\ ActsKnown'
         /\ history[act[n].case][act[n].article] \in Seq(ReviewEvents)
         /\ [from |-> act[n].from, to |-> act[n].to] \in ReviewEvents
<1> DEFINE ev == [from |-> act[n].from, to |-> act[n].to]
           c == act[n].case
           a == act[n].article
<1>1. c \in Cves /\ a \in Articles /\ ev \in ReviewEvents
  BY Requests DEF AppendEvent, ReviewEvents
<1>2. history' = [history EXCEPT ![c][a] = Append(@, ev)] /\ act' = [act EXCEPT ![n] = NoAct]
  BY DEF AppendEvent
<1> HIDE DEF ev, c, a
<1>3. history[c][a] \in Seq(ReviewEvents)
  BY <1>1 DEF TypeOK
<1>4. Append(history[c][a], ev) \in Seq(ReviewEvents)
  BY <1>1, <1>3, AppendProperties
<1>5. history' \in [Cves -> [Articles -> Seq(ReviewEvents)]]
  BY <1>1, <1>2, <1>4 DEF TypeOK
<1>6. TypeOK' /\ ActsKnown'
  <2>1. ActTyped' /\ ActsKnown'
    BY <1>2, ActCleared
  <2>2. UNCHANGED <<completed, cases, link, ppc, ensuring, batch, untraced, count, verdicts,
                    faults>>
    BY DEF AppendEvent, stage
  <2>3. QED
    BY <1>5, <2>1, <2>2 DEF TypeOK, ActTyped
<1>7. QED
  BY <1>1, <1>3, <1>6 DEF ev, c, a

LEMMA RequestDiesTyped ==
  ASSUME TypeOK, ActsKnown, NEW n \in Analysts, RequestDies(n)
  PROVE  TypeOK' /\ ActsKnown'
<1>1. untraced' \subseteq Links
  BY Requests DEF RequestDies, TypeOK, Links
<1>2. ActTyped' /\ ActsKnown'
  BY ActCleared DEF RequestDies
<1>3. /\ UNCHANGED <<completed, cases, link, history, ppc, ensuring, batch, count, verdicts>>
      /\ faults' \in Nat
  BY DEF RequestDies, stage, TypeOK
<1>4. QED
  BY <1>1, <1>2, <1>3 DEF TypeOK, ActTyped

LEMMA TypeStep == TypeOK /\ ActsKnown /\ [Next]_vars => TypeOK' /\ ActsKnown'
<1> SUFFICES ASSUME TypeOK, ActsKnown, [Next]_vars PROVE TypeOK' /\ ActsKnown'
  OBVIOUS
<1>1. CASE UNCHANGED vars
  BY <1>1 DEF vars, stage, TypeOK, ActsKnown
<1>2. QED
  BY <1>1, CompleteTyped, ReopenTyped, StageTyped, ReadLinkTyped, UpdateStateTyped,
     AppendEventTyped, RequestDiesTyped
     DEF Next, AnalystStep, TaskStep, Fault

(* Tables, stage and requests keep their types.                            *)
THEOREM TypeCorrect == Spec => []TypeOK
BY TypeInit, TypeStep, PTL DEF Spec

-----------------------------------------------------------------------------
(* The trace of a verdict.                                                 *)

Logged(c, a, v) == \E i \in DOMAIN history[c][a] : history[c][a][i].to = v

Pending(n, c, a, v) ==
  act[n].step = "append" /\ act[n].case = c /\ act[n].article = a /\ act[n].to = v

Traced(c, a) ==
  link[c][a].state \in Verdicts =>
    \/ Logged(c, a, link[c][a].state)
    \/ \E n \in Analysts : Pending(n, c, a, link[c][a].state)
    \/ <<c, a>> \in untraced

LEMMA TracedEach == VerdictsTraced <=> \A c \in Cves, a \in Articles : Traced(c, a)
BY DEF VerdictsTraced, Traced, Logged, Pending

(* A step that leaves the links, the history and the events that are about *)
(* to be appended alone.                                                   *)
LEMMA TraceStands ==
  ASSUME VerdictsTraced, UNCHANGED <<link, history, untraced>>,
         \A n \in Analysts : act[n].step = "append" => act'[n] = act[n]
  PROVE  VerdictsTraced'
BY DEF VerdictsTraced

LEMMA ConsolidationTraced ==
  ASSUME TypeOK, VerdictsTraced, NEW e \in batch, Attach(e)
  PROVE  VerdictsTraced'
<1>1. e.case \in Cves /\ e.article \in Articles
  BY DEF TypeOK, Evidence
<1>2. UNCHANGED <<history, act, untraced>>
  BY DEF Attach
<1>3. ASSUME NEW c \in Cves, NEW a \in Articles
      PROVE  link'[c][a] = link[c][a] \/ link'[c][a].state = "mentioned"
  BY <1>1 DEF Attach, Upserted, TypeOK
<1>4. "mentioned" \notin Verdicts
  BY EvidenceAssumption
<1>5. ASSUME NEW c \in Cves, NEW a \in Articles PROVE Traced(c, a)'
  BY <1>2, <1>3, <1>4, TracedEach DEF Traced, Logged, Pending
<1>6. QED
  BY <1>5 DEF VerdictsTraced, Traced, Logged, Pending

LEMMA VerdictTraced ==
  ASSUME TypeOK, ActsKnown, VerdictsTraced, NEW n \in Analysts, UpdateState(n)
  PROVE  VerdictsTraced'
<1>0. act \in [Analysts -> [step : {"off", "update", "append"}, case : Cves \cup {None},
                          article : Articles \cup {None}, from : States, to : States]]
  BY DEF TypeOK
<1>1. PICK c \in Cves, a \in Articles, v \in Verdicts :
        act[n].case = c /\ act[n].article = a /\ act[n].to = v /\ act[n].step = "update"
  BY Requests DEF UpdateState
<1>2. act' = [act EXCEPT ![n].step = "append"] /\ UNCHANGED <<history, untraced>>
  BY DEF UpdateState
<1>3. link' = [link EXCEPT ![c][a].state = v]
  BY <1>1 DEF UpdateState
<1>4. /\ act'[n] = [act[n] EXCEPT !.step = "append"]
      /\ \A k \in Analysts \ {n} : act'[k] = act[k]
  BY <1>0, <1>2
<1>5. link'[c][a].state = v
  BY <1>3 DEF TypeOK
<1>6. Pending(n, c, a, v)'
  BY <1>0, <1>1, <1>4 DEF Pending
<1>7. ASSUME NEW d \in Cves, NEW b \in Articles PROVE Traced(d, b)'
  <2>1. CASE d = c /\ b = a
    BY <1>5, <1>6, <2>1 DEF Traced, Pending
  <2>2. CASE ~ (d = c /\ b = a)
    <3>1. link'[d][b] = link[d][b]
      BY <1>3, <2>2 DEF TypeOK
    <3>2. \A k \in Analysts : \A w : Pending(k, d, b, w) => Pending(k, d, b, w)'
      BY <1>1, <1>4 DEF Pending
    <3>3. \A w : Logged(d, b, w)' <=> Logged(d, b, w)
      BY <1>2 DEF Logged
    <3>4. QED
      BY <1>2, <3>1, <3>2, <3>3, TracedEach DEF Traced, Pending, Logged
  <2>3. QED
    BY <2>1, <2>2
<1>8. QED
  BY <1>7 DEF VerdictsTraced, Traced, Logged, Pending

LEMMA EventTraced ==
  ASSUME TypeOK, ActsKnown, VerdictsTraced, NEW n \in Analysts, AppendEvent(n)
  PROVE  VerdictsTraced'
<1>1. PICK c \in Cves, a \in Articles, ev \in ReviewEvents :
        /\ act[n].case = c /\ act[n].article = a /\ act[n].to = ev.to
        /\ ev = [from |-> act[n].from, to |-> act[n].to]
        /\ history[c][a] \in Seq(ReviewEvents)
  BY Requests, AppendEventTyped DEF AppendEvent
<1>2. /\ history' = [history EXCEPT ![c][a] = Append(@, ev)]
      /\ UNCHANGED <<link, untraced>>
  BY <1>1 DEF AppendEvent
<1>3. \A k \in Analysts \ {n} : act'[k] = act[k]
  BY DEF AppendEvent, TypeOK
<1>4. \A k \in Analysts : \A d, b, v :
        Pending(k, d, b, v) => (d = c /\ b = a /\ v = ev.to) \/ Pending(k, d, b, v)'
  BY <1>1, <1>3 DEF Pending
<1>5. history'[c][a] = Append(history[c][a], ev)
  BY <1>2 DEF TypeOK
<1>6. \A v : Logged(c, a, v) \/ v = ev.to => Logged(c, a, v)'
  <2>1. /\ Append(history[c][a], ev) \in Seq(ReviewEvents)
        /\ Len(Append(history[c][a], ev)) = Len(history[c][a]) + 1
        /\ \A i \in 1..Len(history[c][a]) : Append(history[c][a], ev)[i] = history[c][a][i]
        /\ Append(history[c][a], ev)[Len(history[c][a]) + 1] = ev
    BY <1>1, AppendProperties
  <2>2. /\ DOMAIN history[c][a] = 1..Len(history[c][a]) /\ Len(history[c][a]) \in Nat
        /\ DOMAIN Append(history[c][a], ev) = 1..(Len(history[c][a]) + 1)
    BY <1>1, <2>1, LenProperties
  <2>3. QED
    BY <1>5, <2>1, <2>2 DEF Logged
<1>7. ASSUME NEW d \in Cves, NEW b \in Articles
      PROVE  \A v : Logged(d, b, v) => Logged(d, b, v)'
  <2>1. CASE d = c /\ b = a
    BY <1>6, <2>1
  <2>2. CASE ~ (d = c /\ b = a)
    <3>1. history'[d][b] = history[d][b]
      BY <1>2, <2>2 DEF TypeOK
    <3>2. QED
      BY <3>1 DEF Logged
  <2>3. QED
    BY <2>1, <2>2
<1>8. ASSUME NEW d \in Cves, NEW b \in Articles PROVE Traced(d, b)'
  <2>1. PICK v : v = link[d][b].state /\ v = link'[d][b].state
    BY <1>2
  <2>2. v \in Verdicts =>
          Logged(d, b, v) \/ (\E k \in Analysts : Pending(k, d, b, v)) \/ <<d, b>> \in untraced
    BY <2>1, TracedEach DEF Traced
  <2>3. (\E k \in Analysts : Pending(k, d, b, v))
          => Logged(d, b, v)' \/ \E k \in Analysts : Pending(k, d, b, v)'
    BY <1>4, <1>6
  <2>4. v \in Verdicts =>
          \/ Logged(d, b, v)'
          \/ \E k \in Analysts : Pending(k, d, b, v)'
          \/ <<d, b>> \in untraced'
    BY <1>2, <1>7, <2>2, <2>3
  <2>5. QED
    BY <2>1, <2>4 DEF Traced, Logged, Pending
<1>9. QED
  BY <1>8 DEF VerdictsTraced, Traced, Logged, Pending

LEMMA DeathTraced ==
  ASSUME TypeOK, ActsKnown, VerdictsTraced, NEW n \in Analysts, RequestDies(n)
  PROVE  VerdictsTraced'
<1>1. UNCHANGED <<link, history>> /\ untraced \subseteq untraced'
  BY DEF RequestDies
<1>2. \A k \in Analysts \ {n} : act'[k] = act[k]
  BY DEF RequestDies, TypeOK
<1>3. act[n].step = "append" => <<act[n].case, act[n].article>> \in untraced'
  BY DEF RequestDies
<1>4. ASSUME NEW c \in Cves, NEW a \in Articles PROVE Traced(c, a)'
  BY <1>1, <1>2, <1>3, TracedEach DEF Traced, Logged, Pending
<1>5. QED
  BY <1>4 DEF VerdictsTraced, Traced, Logged, Pending

LEMMA TracedStep == TypeOK /\ ActsKnown /\ VerdictsTraced /\ [Next]_vars => VerdictsTraced'
<1> SUFFICES ASSUME TypeOK, ActsKnown, VerdictsTraced, [Next]_vars PROVE VerdictsTraced'
  OBVIOUS
<1>1. CASE UNCHANGED <<link, history, act, untraced>>
  BY <1>1, TraceStands
<1>2. ASSUME NEW n \in Analysts, NEW c \in Cves, NEW a \in Articles, NEW v \in Verdicts,
             ReadLink(n, c, a, v)
      PROVE  VerdictsTraced'
  <2>1. \A k \in Analysts : act[k].step = "append" => act'[k] = act[k]
    BY <1>2 DEF ReadLink, TypeOK
  <2>2. QED
    BY <1>2, <2>1, TraceStands DEF ReadLink
<1>3. QED
  BY <1>1, <1>2, ConsolidationTraced, VerdictTraced, EventTraced, DeathTraced
     DEF Next, vars, StageStep, AnalystStep, TaskStep, Fault, Collect, EnsureCase, StageFails,
         Complete, Reopen

(* However verdicts, consolidations and deaths interleave, the verdict     *)
(* that stands on a link is in the review history, is about to be, or its  *)
(* request died (recordHumanVerdict, which updates and appends apart).     *)
THEOREM VerdictsLeaveTraces == Spec => []VerdictsTraced
<1>1. Init => VerdictsTraced
  BY EvidenceAssumption DEF Init, VerdictsTraced, NoLink
<1>2. QED
  BY <1>1, TypeInit, TypeStep, TracedStep, PTL DEF Spec

-----------------------------------------------------------------------------
(* The order of the evidence.                                              *)

LEMMA LatestInit == Init => Latest
BY DEF Init, Latest, OneEach, Counted, Ordered, NoLink

(* Steps that leave the tasks, the evidence in hand and that of the links  *)
(* alone.                                                                  *)
LEMMA LatestStands ==
  ASSUME Latest, UNCHANGED <<completed, count>>, batch' \subseteq batch,
         \A e \in batch : e.case \in Cves /\ e.article \in Articles,
         \A i \in DOMAIN completed : completed[i].article \in Articles,
         \A c \in Cves, a \in Articles : link'[c][a].evidence = link[c][a].evidence
  PROVE  Latest'
BY DEF Latest, OneEach, Counted, Ordered

LEMMA Known ==
  ASSUME TypeOK
  PROVE  /\ \A e \in batch : e.case \in Cves /\ e.article \in Articles /\ e.number \in Nat
         /\ \A i \in DOMAIN completed :
              completed[i].article \in Articles /\ completed[i].number \in Nat
         /\ \A c \in Cves, a \in Articles : link[c][a].evidence \in Nat
         /\ count \in Nat
<1>1. ASSUME NEW i \in DOMAIN completed PROVE completed[i] \in Tasks
  BY <1>1, ElementOfSeq DEF TypeOK
<1>2. QED
  BY <1>1 DEF TypeOK, Tasks, Evidence

LEMMA CompleteLatest ==
  ASSUME TypeOK, Latest, NEW a \in Articles, NEW reported \in SUBSET Cves,
         Complete(a, reported)
  PROVE  Latest'
<1> DEFINE t == [article |-> a, cves |-> reported, number |-> count + 1]
           n == Len(completed)
<1>1. t \in Tasks /\ t.article = a /\ t.number = count + 1
  BY DEF TypeOK, Tasks
<1>2. completed' = Append(completed, t) /\ count' = count + 1 /\ UNCHANGED <<link, batch>>
  BY DEF Complete, stage
<1> HIDE DEF t
<1>3. /\ n \in Nat /\ DOMAIN completed = 1..n /\ DOMAIN completed' = 1..(n + 1)
      /\ \A i \in 1..n : completed'[i] = completed[i]
      /\ completed'[n + 1] = t
  BY <1>1, <1>2, AppendProperties, LenProperties DEF TypeOK
<1>4. \A i \in 1..n : completed[i].article # a
  BY <1>3 DEF Complete, CompletedArticles
<1> HIDE DEF n
<1>5. OneEach'
  BY <1>1, <1>3, <1>4 DEF Latest, OneEach
<1>6. Counted'
  BY <1>1, <1>2, <1>3, Known DEF Latest, Counted
<1>7. Ordered'
  <2>1. ASSUME NEW i \in DOMAIN completed'
        PROVE  /\ \A e \in batch :
                    e.article = completed'[i].article => e.number <= completed'[i].number
               /\ \A c \in Cves :
                    link[c][completed'[i].article].evidence <= completed'[i].number
    <3>1. CASE i \in 1..n
      BY <1>3, <3>1 DEF Latest, Ordered
    <3>2. CASE i = n + 1
      BY <1>1, <1>3, <3>2, Known DEF Latest, Counted
    <3>3. QED
      BY <1>3, <2>1, <3>1, <3>2
  <2>2. QED
    BY <1>2, <2>1 DEF Latest, Ordered
<1>8. QED
  BY <1>5, <1>6, <1>7 DEF Latest

LEMMA ReopenLatest ==
  ASSUME TypeOK, Latest, NEW i \in DOMAIN completed, Reopen(i)
  PROVE  Latest'
<1>1. /\ \A j \in DOMAIN completed' :
           Kept(j, i) \in DOMAIN completed /\ completed'[j] = completed[Kept(j, i)]
      /\ DOMAIN completed \subseteq Nat /\ DOMAIN completed' \subseteq Nat
  <2>1. completed' = RemoveAt(completed, i) /\ completed \in Seq(Tasks)
    BY DEF Reopen, TypeOK
  <2>2. completed' \in Seq(Tasks)
    BY <2>1, Removed
  <2>3. QED
    BY <2>1, <2>2, Removed, LenProperties
<1>2. \A j, k \in Nat : Kept(j, i) = Kept(k, i) => j = k
  BY <1>1 DEF Kept
<1>3. OneEach'
  BY <1>1, <1>2 DEF Latest, OneEach
<1>4. UNCHANGED <<link, batch, count>>
  BY DEF Reopen, stage
<1>5. Counted' /\ Ordered'
  BY <1>1, <1>4 DEF Latest, Counted, Ordered
<1>6. QED
  BY <1>3, <1>5 DEF Latest

LEMMA CollectLatest ==
  ASSUME TypeOK, Latest, Collect
  PROVE  Latest'
<1>1. batch' = Collected /\ UNCHANGED <<completed, link, count>>
  BY DEF Collect
<1>2. \A e \in Collected : /\ e.case \in Cves
                           /\ \E i \in DOMAIN completed : e.article = completed[i].article
                                                        /\ e.number = completed[i].number
  BY CollectedEvidence DEF Evidence
<1>3. \A e \in Collected, i \in DOMAIN completed :
        e.article = completed[i].article => e.number = completed[i].number
  BY <1>2 DEF Latest, OneEach
<1>4. OneEach' /\ Counted'
  BY <1>1, <1>2 DEF Latest, OneEach, Counted
<1>5. Ordered'
  <2>1. \A e \in Collected, i \in DOMAIN completed :
          e.article = completed[i].article => e.number <= completed[i].number
    BY <1>3, Known
  <2>2. \A e \in Collected : link[e.case][e.article].evidence <= e.number
    BY <1>2 DEF Latest, Ordered
  <2>3. \A e, f \in Collected : e.article = f.article => e.number = f.number
    BY <1>2, <1>3
  <2>4. QED
    BY <1>1, <2>1, <2>2, <2>3 DEF Latest, Ordered
<1>6. QED
  BY <1>4, <1>5 DEF Latest

LEMMA AttachedRow ==
  ASSUME TypeOK, NEW e \in batch, Attach(e), NEW c \in Cves, NEW a \in Articles
  PROVE  /\ c = e.case /\ a = e.article =>
              /\ link'[c][a].evidence = e.number
              /\ Linked(c, a) => link'[c][a].first = link[c][a].first
         /\ ~ (c = e.case /\ a = e.article) => link'[c][a] = link[c][a]
<1>1. e.case \in Cves /\ e.article \in Articles
  BY Known
<1>2. link' = [link EXCEPT ![e.case][e.article] = Upserted(@, e)]
  BY DEF Attach
<1>3. CASE c = e.case /\ a = e.article
  <2>1. link'[c][a] = Upserted(link[c][a], e)
    BY <1>2, <1>3 DEF TypeOK
  <2>2. QED
    BY <1>3, <2>1 DEF Upserted, Linked
<1>4. CASE ~ (c = e.case /\ a = e.article)
  BY <1>1, <1>2, <1>4 DEF TypeOK
<1>5. QED
  BY <1>3, <1>4

LEMMA AttachLatest ==
  ASSUME TypeOK, Latest, NEW e \in batch, Attach(e)
  PROVE  Latest'
<1>1. \A c \in Cves, a \in Articles :
        link'[c][a].evidence = IF c = e.case /\ a = e.article THEN e.number
                               ELSE link[c][a].evidence
  BY AttachedRow
<1>2. UNCHANGED <<completed, count>> /\ batch' \subseteq batch
  BY DEF Attach
<1>3. OneEach' /\ Counted'
  BY <1>1, <1>2, Known DEF Latest, OneEach, Counted
<1>4. Ordered'
  <2>1. \A i \in DOMAIN completed, c \in Cves :
          link'[c][completed[i].article].evidence <= completed[i].number
    BY <1>1, Known DEF Latest, Ordered
  <2>2. \A f \in batch : link'[f.case][f.article].evidence <= f.number
    BY <1>1, Known DEF Latest, Ordered
  <2>3. QED
    BY <1>2, <2>1, <2>2 DEF Latest, Ordered
<1>5. QED
  BY <1>3, <1>4 DEF Latest

LEMMA UpdateStateKeeps ==
  ASSUME TypeOK, NEW n, UpdateState(n), NEW c \in Cves, NEW a \in Articles
  PROVE  link'[c][a].evidence = link[c][a].evidence /\ link'[c][a].first = link[c][a].first
BY DEF UpdateState, TypeOK

LEMMA LatestStep == TypeOK /\ Latest /\ [Next]_vars => Latest'
<1> SUFFICES ASSUME TypeOK, Latest, [Next]_vars PROVE Latest'
  OBVIOUS
<1>1. CASE /\ UNCHANGED <<completed, count>> /\ batch' \subseteq batch
           /\ \A c \in Cves, a \in Articles : link'[c][a].evidence = link[c][a].evidence
  BY <1>1, Known, LatestStands
<1>2. CASE UNCHANGED <<completed, link, batch, count>>
  BY <1>1, <1>2
<1>3. CASE StageFails
  BY <1>1, <1>3 DEF StageFails
<1>4. ASSUME NEW n \in Analysts, UpdateState(n) PROVE Latest'
  BY <1>1, <1>4, UpdateStateKeeps DEF UpdateState, stage
<1>5. QED
  BY <1>2, <1>3, <1>4, CompleteLatest, ReopenLatest, CollectLatest, AttachLatest
     DEF Next, vars, stage, StageStep, AnalystStep, TaskStep, Fault, EnsureCase, ReadLink,
         AppendEvent, RequestDies

(* A link keeps its first evidence, and the current one only moves on to   *)
(* that of a later interpretation, whatever is interpreted again, collected *)
(* before a crash or attached twice (runCaseConsolidationStage,            *)
(* upsertCaseArticle).                                                     *)
THEOREM EvidenceMovesForward == Spec => EvidenceForward
<1> DEFINE Forward(c, a) ==
      Linked(c, a) => /\ link'[c][a].first = link[c][a].first
                      /\ link'[c][a].evidence >= link[c][a].evidence
<1>1. TypeOK /\ Latest /\ [Next]_vars =>
        [\A c \in Cves, a \in Articles : Forward(c, a)]_link
  <2> SUFFICES ASSUME TypeOK, Latest, [Next]_vars, link' # link,
                      NEW c \in Cves, NEW a \in Articles
               PROVE  Forward(c, a)
    OBVIOUS
  <2>0. link[c][a].evidence \in Nat
    BY Known
  <2>1. ASSUME NEW e \in batch, Attach(e) PROVE Forward(c, a)
    <3>1. CASE c = e.case /\ a = e.article
      BY <2>0, <2>1, <3>1, AttachedRow, Known DEF Latest, Ordered
    <3>2. CASE ~ (c = e.case /\ a = e.article)
      BY <2>0, <2>1, <3>2, AttachedRow
    <3>3. QED
      BY <3>1, <3>2
  <2>2. ASSUME NEW n \in Analysts, UpdateState(n) PROVE Forward(c, a)
    BY <2>0, <2>2, UpdateStateKeeps
  <2> HIDE DEF Forward
  <2>3. QED
    BY <2>1, <2>2
       DEF Next, vars, stage, StageStep, AnalystStep, TaskStep, Fault, Collect, EnsureCase,
           StageFails, Complete, Reopen, ReadLink, AppendEvent, RequestDies
<1>2. QED
  BY <1>1, TypeInit, TypeStep, LatestInit, LatestStep, PTL DEF Spec, EvidenceForward
=============================================================================
