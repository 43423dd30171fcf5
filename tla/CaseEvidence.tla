---------------------------- MODULE CaseEvidence ----------------------------
(***************************************************************************)
(* The links between CVE cases and articles: how the consolidation stage   *)
(* makes them from completed interpretations, and how analysts put their   *)
(* verdicts on them.                                                       *)
(*                                                                         *)
(* The stage runs under the lock of the pipeline, so there is one at a     *)
(* time; it reads the interpretations once and then writes one row per     *)
(* statement.  A verdict is three statements: the link is read, changed by *)
(* its id, and an event is appended to the review history.  Nothing is in  *)
(* a transaction.  Interpretations are told apart by a number, the order   *)
(* of their completion.                                                    *)
(***************************************************************************)
EXTENDS Naturals, Sequences, SequencesExt

CONSTANTS
  Articles, Cves,
  Analysts,
  Verdicts,            \* the HumanVerdicts that analysts give
  Limit,               \* interpretations one consolidation takes
  MaxInterpretations,  \* bound: interpretations completed
  MaxVerdicts,         \* bound: verdicts given
  MaxFaults,           \* bound: runs and requests that die or throw
  None

ASSUME EvidenceAssumption ==
  /\ Verdicts \subseteq {"human_confirmed", "human_rejected", "human_uncertain"}
  /\ Limit \in Nat \ {0}
  /\ {MaxInterpretations, MaxVerdicts, MaxFaults} \subseteq Nat
  /\ None \notin Articles \cup Cves

VARIABLES
  (* tables *)
  completed,  \* the completed interpretation tasks by completed_at, oldest first
  cases,      \* cve_cases
  link,       \* cve_case_articles: link[c][a]
  history,    \* the verdicts in review_events: history[c][a], oldest first
  (* the consolidation stage *)
  ppc,
  ensuring,   \* CVE ids whose case it has not ensured yet
  batch,      \* evidence it has not attached yet
  (* the analysts' requests *)
  act,
  (* history of the model *)
  untraced,   \* links changed by a request that died before its review event
  (* bounds *)
  count, verdicts, faults

stage == <<ppc, ensuring, batch>>
vars == <<completed, cases, link, history, stage, act, untraced, count, verdicts, faults>>

Links == Cves \X Articles
NoLink == [state |-> "absent", evidence |-> 0, first |-> 0]
NoAct == [step |-> "off", case |-> None, article |-> None, from |-> "absent", to |-> "absent"]
States == {"absent", "mentioned"} \cup Verdicts

Tasks == [article : Articles, cves : SUBSET Cves, number : Nat]
Evidence == [case : Cves, article : Articles, number : Nat]
ReviewEvents == [from : States \ {"absent"}, to : Verdicts]

TypeOK ==
  /\ completed \in Seq(Tasks)
  /\ cases \subseteq Cves
  /\ link \in [Cves -> [Articles -> [state : States, evidence : Nat, first : Nat]]]
  /\ history \in [Cves -> [Articles -> Seq(ReviewEvents)]]
  /\ ppc \in {"idle", "ensure", "attach"}
  /\ ensuring \subseteq Cves
  /\ batch \subseteq Evidence
  /\ act \in [Analysts -> [step : {"off", "update", "append"}, case : Cves \cup {None},
                           article : Articles \cup {None}, from : States, to : States]]
  /\ untraced \subseteq Links
  /\ count \in Nat /\ verdicts \in Nat /\ faults \in Nat

Init ==
  /\ completed = <<>>
  /\ cases = {}
  /\ link = [c \in Cves |-> [a \in Articles |-> NoLink]]
  /\ history = [c \in Cves |-> [a \in Articles |-> <<>>]]
  /\ ppc = "idle" /\ ensuring = {} /\ batch = {}
  /\ act = [n \in Analysts |-> NoAct]
  /\ untraced = {}
  /\ count = 0 /\ verdicts = 0 /\ faults = 0

-----------------------------------------------------------------------------
(* The interpretation tasks.                                               *)

CompletedArticles == {completed[i].article : i \in DOMAIN completed}

(* A task completes, with the CVE ids that its result reports.             *)
Complete(a, reported) ==
  /\ count < MaxInterpretations
  /\ a \notin CompletedArticles
  /\ count' = count + 1
  /\ completed' = Append(completed, [article |-> a, cves |-> reported, number |-> count + 1])
  /\ UNCHANGED <<cases, link, history, stage, act, untraced, verdicts, faults>>

(* The audit of a completed task fails: it is pending again.               *)
Reopen(i) ==
  /\ faults < MaxFaults
  /\ faults' = faults + 1
  /\ completed' = RemoveAt(completed, i)
  /\ UNCHANGED <<cases, link, history, stage, act, untraced, count, verdicts>>

-----------------------------------------------------------------------------
(* The consolidation stage.                                                *)

(* Mutant of Window: the newest Limit.                                     *)
WindowNewest ==
  {completed[i] : i \in {j \in DOMAIN completed : j + Limit > Len(completed)}}

(* listCompletedByName: the oldest Limit.                                  *)
Window == {completed[i] : i \in {j \in DOMAIN completed : j <= Limit}}

Collected ==
  UNION {{[case |-> c, article |-> t.article, number |-> t.number] : c \in t.cves}
           : t \in Window}

(* A run without evidence writes nothing.                                  *)
Collect ==
  /\ ppc = "idle"
  /\ ppc' = IF Collected = {} THEN "idle" ELSE "ensure"
  /\ batch' = Collected
  /\ ensuring' = {e.case : e \in Collected}
  /\ UNCHANGED <<completed, cases, link, history, act, untraced, count, verdicts, faults>>

EnsureCase(c) ==
  /\ ppc = "ensure"
  /\ c \in ensuring
  /\ cases' = cases \cup {c}
  /\ ensuring' = ensuring \ {c}
  /\ ppc' = IF ensuring' = {} THEN "attach" ELSE "ensure"
  /\ UNCHANGED <<completed, link, history, batch, act, untraced, count, verdicts, faults>>

Linked(c, a) == link[c][a].state # "absent"

(* Mutant of Upserted: the first evidence is overwritten.                  *)
UpsertedOver(row, e) == [state |-> "mentioned", evidence |-> e.number, first |-> e.number]

(* upsertCaseArticle, on a conflict: the first evidence is kept, the state *)
(* is the one of new evidence.                                             *)
Upserted(row, e) ==
  [state |-> "mentioned",
   evidence |-> e.number,
   first |-> IF row.state = "absent" THEN e.number ELSE row.first]

Attach(e) ==
  /\ ppc = "attach"
  /\ e \in batch
  /\ link' = [link EXCEPT ![e.case][e.article] = Upserted(@, e)]
  /\ batch' = batch \ {e}
  /\ ppc' = IF batch' = {} THEN "idle" ELSE "attach"
  /\ UNCHANGED <<completed, cases, history, ensuring, act, untraced, count, verdicts, faults>>

(* A statement throws or the process dies: what is written stays.          *)
StageFails ==
  /\ faults < MaxFaults
  /\ faults' = faults + 1
  /\ ppc # "idle"
  /\ ppc' = "idle" /\ ensuring' = {} /\ batch' = {}
  /\ UNCHANGED <<completed, cases, link, history, act, untraced, count, verdicts>>

-----------------------------------------------------------------------------
(* recordHumanVerdict.                                                     *)

(* The case and the link are found and carry another state.                *)
ReadLink(n, c, a, v) ==
  /\ verdicts < MaxVerdicts
  /\ act[n].step = "off"
  /\ c \in cases
  /\ Linked(c, a) /\ link[c][a].state # v
  /\ verdicts' = verdicts + 1
  /\ act' = [act EXCEPT ![n] = [step |-> "update", case |-> c, article |-> a,
                                from |-> link[c][a].state, to |-> v]]
  /\ UNCHANGED <<completed, cases, link, history, stage, untraced, count, faults>>

(* Mutant of UpdateState: only the first verdict on a link is appended.    *)
UpdateStateQuietly(n) ==
  /\ act[n].step = "update"
  /\ link' = [link EXCEPT ![act[n].case][act[n].article].state = act[n].to]
  /\ act' = [act EXCEPT ![n] = IF @.from = "mentioned" THEN [@ EXCEPT !.step = "append"]
                               ELSE NoAct]
  /\ UNCHANGED <<completed, cases, history, stage, untraced, count, verdicts, faults>>

UpdateState(n) ==
  /\ act[n].step = "update"
  /\ link' = [link EXCEPT ![act[n].case][act[n].article].state = act[n].to]
  /\ act' = [act EXCEPT ![n].step = "append"]
  /\ UNCHANGED <<completed, cases, history, stage, untraced, count, verdicts, faults>>

AppendEvent(n) ==
  /\ act[n].step = "append"
  /\ history' = [history EXCEPT ![act[n].case][act[n].article] =
                   Append(@, [from |-> act[n].from, to |-> act[n].to])]
  /\ act' = [act EXCEPT ![n] = NoAct]
  /\ UNCHANGED <<completed, cases, link, stage, untraced, count, verdicts, faults>>

RequestDies(n) ==
  /\ faults < MaxFaults
  /\ faults' = faults + 1
  /\ act[n].step # "off"
  /\ act' = [act EXCEPT ![n] = NoAct]
  /\ untraced' = IF act[n].step = "append"
                 THEN untraced \cup {<<act[n].case, act[n].article>>}
                 ELSE untraced
  /\ UNCHANGED <<completed, cases, link, history, stage, count, verdicts>>

-----------------------------------------------------------------------------
StageStep ==
  \/ Collect
  \/ \E c \in Cves : EnsureCase(c)
  \/ \E e \in batch : Attach(e)

AnalystStep ==
  \E n \in Analysts :
    \/ \E c \in Cves, a \in Articles, v \in Verdicts : ReadLink(n, c, a, v)
    \/ UpdateState(n)
    \/ AppendEvent(n)

TaskStep ==
  \/ \E a \in Articles, reported \in SUBSET Cves : Complete(a, reported)
  \/ \E i \in DOMAIN completed : Reopen(i)

Fault == StageFails \/ \E n \in Analysts : RequestDies(n)

Next == StageStep \/ AnalystStep \/ TaskStep \/ Fault

Spec == Init /\ [][Next]_vars

(* The scheduler starts run after run, and every statement of a run        *)
(* returns.                                                                *)
Fairness == WF_vars(StageStep)

FairSpec == Spec /\ Fairness

-----------------------------------------------------------------------------
(* Properties.                                                             *)

(* A verdict that stands on a link is in the review history, or its        *)
(* request is about to append it, or died before it could: overlapping     *)
(* requests and consolidations lose none.                                  *)
VerdictsTraced ==
  \A c \in Cves, a \in Articles :
    link[c][a].state \in Verdicts =>
      \/ \E i \in DOMAIN history[c][a] : history[c][a][i].to = link[c][a].state
      \/ \E n \in Analysts : /\ act[n].step = "append"
                             /\ act[n].case = c /\ act[n].article = a
                             /\ act[n].to = link[c][a].state
      \/ <<c, a>> \in untraced

(* A link keeps the first evidence it got, and its current evidence is     *)
(* never replaced by that of an older interpretation, whatever a run that  *)
(* died had attached and however tasks are interpreted again meanwhile.    *)
EvidenceForward ==
  [][\A c \in Cves, a \in Articles :
       Linked(c, a) => /\ link'[c][a].first = link[c][a].first
                       /\ link'[c][a].evidence >= link[c][a].evidence]_link

(* Links converge to the interpretations: in the end every CVE id that an  *)
(* interpretation among the oldest Limit reports is linked to its article, *)
(* with that interpretation as evidence.                                   *)
EvidenceConverges ==
  <>[](\A i \in DOMAIN completed : \A c \in completed[i].cves :
         i <= Limit => link[c][completed[i].article].evidence = completed[i].number)

(* Claims of documents and comments that the code does not keep.           *)

(* "Idempotent end-of-batch consolidation": attaching evidence that a link *)
(* carries already leaves the link, an analyst's verdict included, alone.  *)
ConsolidationIdempotent ==
  [][\A c \in Cves, a \in Articles :
       act' = act /\ Linked(c, a) /\ link'[c][a].evidence = link[c][a].evidence
         => link'[c][a] = link[c][a]]_vars

Reports(a, c) == \E i \in DOMAIN completed : completed[i].article = a /\ c \in completed[i].cves

(* "Every CVE the interpretation task reported for an actionable article   *)
(* becomes a case-article link", sooner or later.                          *)
ReportedLinked ==
  \A c \in Cves, a \in Articles : Reports(a, c) ~> Linked(c, a) \/ ~ Reports(a, c)
=============================================================================
