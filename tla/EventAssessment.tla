--------------------------- MODULE EventAssessment ---------------------------
(***************************************************************************)
(* What becomes of an event once it has articles: the classification stage *)
(* rolls the verdict on an article up into its events, the summary stage   *)
(* rewrites the event, and the alert stage decides whether to alert, while *)
(* analysts edit, approve and attach.                                      *)
(*                                                                         *)
(* The stages run one after the other under the lock of the pipeline; an   *)
(* analyst's request may come between any two statements.  Severity,       *)
(* urgency and confidence are abstracted to whether they pass the gate of  *)
(* confirmed alerts, corroboration included.  Times are abstracted to what *)
(* is asked of them: which of two events was seen later, whether the last  *)
(* alert is within the suppression window, which articles were attached    *)
(* after it, and whether the event is young enough for an early warning.   *)
(***************************************************************************)
EXTENDS Naturals, FiniteSets

CONSTANTS
  Articles, Events,
  OldEvent,     \* an event that is there at first, with a summary of its own, or None
  Limit,        \* what a stage lists at most
  Ranks,        \* bound: the ranks that verdicts and summaries give
  Drafts,       \* bound: what drafts and analysts' edits say of an event
  Requests,     \* bound: requests of several statements under way at a time
  MaxTroubles,  \* bound: requests made, calls that fail, runs that die
  None

ASSUME AssessmentAssumption ==
  /\ IsFiniteSet(Articles) /\ None \notin Articles \cup Events
  /\ OldEvent \in Events \cup {None} /\ Limit \in Nat \ {0} /\ {Requests, MaxTroubles} \subseteq Nat
  /\ Ranks \subseteq [severity : 0..1, urgency : 0..1]
  /\ Drafts \subseteq [impact : {"none", "product", "vendor"},
                      rank : [severity : 0..1, urgency : 0..1]]

Analysts == 1..Requests

VARIABLES
  status,   \* processing_status
  event,    \* cyber_events
  link,     \* event_articles: link[e][a]
  later,    \* <<d, e>>: the last_seen_at of d is after that of e
  last,     \* the tier of the last alert sent within the suppression window
  after,    \* after[e]: articles attached to e after that alert
  (* the pipeline *)
  ppc,
  queue,    \* the articles of the event or classification stage
  group,    \* the membership the event stage is writing
  verdict,  \* the classification that is being rolled up
  read,     \* the events it was read with and has not written yet
  listed,   \* events the summary or alert stage has listed, as they were then
  at,       \* the event it is at
  (* the analysts' requests *)
  act,
  (* history of the model *)
  covered,  \* covered[e]: the articles the summary of e was made from
  torn,     \* attachments that died between their two statements
  sent,     \* alerts sent since there was none in the window
  rows,     \* articles attached since then
  emptied,  \* events whose vendors and products an analyst removed
  (* bounds *)
  troubles

tables == <<status, event, link, later, last, after>>
stage == <<ppc, queue, group, verdict, read, listed, at>>
history == <<covered, torn, sent, rows, emptied>>
vars == <<tables, stage, act, history, troubles>>

(* Whether severity and urgency pass the gate, each of its own.            *)
AnyRank == [severity : 0..1, urgency : 0..1]
LowRank == [severity |-> 0, urgency |-> 0]

Grades == [rank : Ranks, confident : BOOLEAN]
Verdicts == {v \in [relevant : BOOLEAN, rank : Ranks, confident : BOOLEAN] :
               v.confident => v.relevant}

(* Whether affected vendors are known, or products only.                   *)
Impacts == {"none", "product", "vendor"}

Fields == [exists : BOOLEAN, counted : BOOLEAN, impact : Impacts,
           rank : AnyRank, confident : BOOLEAN, approved : BOOLEAN,
           summary : {"none", "stale", "current"}]
Tiers == {"none", "early_warning", "confirmed"}

NoEvent == [exists |-> FALSE, counted |-> FALSE, impact |-> "none",
            rank |-> LowRank, confident |-> FALSE, approved |-> FALSE, summary |-> "none"]
NoVerdict == [relevant |-> FALSE, rank |-> LowRank, confident |-> FALSE]
NoGroup == [article |-> None, event |-> None, link |-> "none", step |-> "off"]
NoAt == [event |-> None, step |-> "off", articles |-> {}, tier |-> "none"]
NoAct == [op |-> "none", event |-> None]

Links == {"none", "source", "material"}
Groupings == [article : Articles \cup {None}, event : Events \cup {None},
              link : Links, step : {"off", "count", "mark"}]
RollUps == [article : Articles \cup {None}, of : Verdicts \cup {NoVerdict},
            step : {"off", "read", "write"}]
Places == [event : Events \cup {None}, step : {"off", "save", "create"},
           articles : SUBSET Articles, tier : Tiers]
Acts == [op : {"none", "approve", "attach"}, event : Events \cup {None}]

TypeOK ==
  /\ status \in [Articles -> {"NEW", "EMBEDDED", "GROUPED", "CLASSIFIED"}]
  /\ event \in [Events -> Fields]
  /\ link \in [Events -> [Articles -> Links]]
  /\ later \subseteq Events \X Events
  /\ last \in [Events -> Tiers]
  /\ after \in [Events -> SUBSET Articles]
  /\ ppc \in {"idle", "events", "classify", "summary", "alert"}
  /\ queue \subseteq Articles
  /\ group \in Groupings
  /\ verdict \in RollUps
  /\ read \subseteq [event : Events, rank : AnyRank, confident : BOOLEAN]
  /\ listed \in [Events -> Fields]
  /\ at \in Places
  /\ act \in [Analysts -> Acts]
  /\ covered \in [Events -> SUBSET Articles]
  /\ torn \subseteq Events \X Articles
  /\ sent \in [Events -> Nat] /\ rows \in [Events -> Nat]
  /\ emptied \subseteq Events
  /\ troubles \in Nat

NotListed == [e \in Events |-> NoEvent]
NoRollUp == [article |-> None, of |-> NoVerdict, step |-> "off"]

Init ==
  /\ status = [a \in Articles |-> "NEW"]
  /\ event = [e \in Events |-> IF e = OldEvent
                               THEN [NoEvent EXCEPT !.exists = TRUE, !.counted = TRUE,
                                                    !.impact = "vendor", !.summary = "current"]
                               ELSE NoEvent]
  /\ link = [e \in Events |-> [a \in Articles |-> "none"]]
  /\ later = {}
  /\ last = [e \in Events |-> "none"]
  /\ after = [e \in Events |-> {}]
  /\ ppc = "idle" /\ queue = {} /\ group = NoGroup /\ verdict = NoRollUp /\ read = {}
  /\ listed = NotListed /\ at = NoAt
  /\ act = [n \in Analysts |-> NoAct]
  /\ covered = [e \in Events |-> {}]
  /\ torn = {}
  /\ sent = [e \in Events |-> 0] /\ rows = [e \in Events |-> 0]
  /\ emptied = {}
  /\ troubles = 0

Trouble == troubles < MaxTroubles /\ troubles' = troubles + 1

(* What is listed of the articles in S: the newest of them, whichever      *)
(* these are.                                                              *)
Listings(S) == {T \in SUBSET S : Cardinality(T) <= Limit /\ (T # S => Cardinality(T) = Limit)}

(* Of the events in S, Limit were seen after e.                            *)
Behind(e, S) == Cardinality({d \in S : <<d, e>> \in later}) >= Limit

Newest(S) == {e \in S : ~ Behind(e, S)}

(* The event is seen now.                                                  *)
Seen(e) == later' = {p \in later : p[2] # e} \cup {<<e, d>> : d \in Events \ {e}}

Members(e) == {a \in Articles : link[e][a] # "none"}

-----------------------------------------------------------------------------
(* The event stage.                                                        *)

(* The run comes to its event stage, after earlier stages have embedded    *)
(* the articles in arrived, which had no status that matters here before.  *)
StartRun(arrived) ==
  /\ ppc = "idle"
  /\ ppc' = "events"
  /\ \A a \in arrived : status[a] = "NEW"
  /\ status' = [a \in Articles |-> IF a \in arrived THEN "EMBEDDED" ELSE status[a]]
  /\ queue' \in Listings({a \in Articles : status'[a] = "EMBEDDED"})
  /\ UNCHANGED <<event, link, later, last, after, group, verdict, read, listed, at, act, history,
                 troubles>>

(* The row of event_articles; one that is there keeps its created_at.      *)
PutRow(e, a, kind) ==
  /\ link' = [link EXCEPT ![e][a] = kind]
  /\ IF link[e][a] = "none"
     THEN /\ after' = [after EXCEPT ![e] = @ \cup {a}]
          /\ rows' = [rows EXCEPT ![e] = @ + 1]
     ELSE UNCHANGED <<after, rows>>

(* Mutant of Counted: a material article leaves the summary as it is.      *)
CountedOnly(e, kind) == [event EXCEPT ![e].counted = TRUE]

(* The second statement of attachArticle.                                  *)
Counted(e, kind) ==
  [event EXCEPT ![e].counted = TRUE,
                ![e].summary = IF kind = "material" /\ @ = "current" THEN "stale" ELSE @]

AtNone == group = NoGroup /\ verdict = NoRollUp /\ at = NoAt

(* An event of the article's own, with the impact and rank of its draft.   *)
FoundEvent(a, e, d) ==
  /\ ppc = "events" /\ AtNone
  /\ a \in queue
  /\ ~ event[e].exists
  /\ event' = [event EXCEPT ![e] = [NoEvent EXCEPT !.exists = TRUE, !.impact = d.impact,
                                                     !.rank = d.rank]]
  /\ PutRow(e, a, "source")
  /\ Seen(e)
  /\ group' = [article |-> a, event |-> e, link |-> "source", step |-> "count"]
  /\ UNCHANGED <<status, last, ppc, queue, verdict, read, listed, at, act,
                 covered, torn, sent, emptied, troubles>>

(* The ladder or the comparator puts the article into an event.            *)
AttachArticle(a, e, kind) ==
  /\ ppc = "events" /\ AtNone
  /\ a \in queue
  /\ event[e].exists
  /\ PutRow(e, a, kind)
  /\ group' = [article |-> a, event |-> e, link |-> kind, step |-> "count"]
  /\ UNCHANGED <<status, event, later, last, ppc, queue, verdict, read, listed, at, act,
                 covered, torn, sent, emptied, troubles>>

CountSources ==
  /\ group.step = "count"
  /\ event' = Counted(group.event, group.link)
  /\ Seen(group.event)
  /\ group' = [group EXCEPT !.step = "mark"]
  /\ UNCHANGED <<status, link, last, after, ppc, queue, verdict, read, listed, at, act,
                 history, troubles>>

MarkGrouped ==
  /\ group.step = "mark"
  /\ status' = [status EXCEPT ![group.article] = "GROUPED"]
  /\ queue' = queue \ {group.article}
  /\ group' = NoGroup
  /\ UNCHANGED <<event, link, later, last, after, ppc, verdict, read, listed, at, act,
                 history, troubles>>

StartClassification ==
  /\ ppc = "events" /\ AtNone /\ queue = {}
  /\ ppc' = "classify"
  /\ queue' \in Listings({a \in Articles : status[a] = "GROUPED"})
  /\ UNCHANGED <<tables, group, verdict, read, listed, at, act, history, troubles>>

-----------------------------------------------------------------------------
(* The classification stage.                                               *)

(* classifyCyberArticle and saveClassification.                            *)
SaveClassification(a, v) ==
  /\ ppc = "classify" /\ AtNone
  /\ a \in queue
  /\ status' = [status EXCEPT ![a] = "CLASSIFIED"]
  /\ verdict' = [article |-> a, of |-> v, step |-> "read"]
  /\ queue' = queue \ {a}
  /\ UNCHANGED <<event, link, later, last, after, ppc, group, read, listed, at, act,
                 history, troubles>>

(* listEventsForArticle: what the events say of themselves is read here.   *)
ReadEvents ==
  /\ verdict.step = "read"
  /\ read' = {[event |-> e, rank |-> event[e].rank, confident |-> event[e].confident]
                : e \in {f \in Events : link[f][verdict.article] # "none"}}
  /\ verdict' = [verdict EXCEPT !.step = "write"]
  /\ UNCHANGED <<tables, ppc, queue, group, listed, at, act, history, troubles>>

(* rollUpEventAssessment: severity and urgency each rise to that of the    *)
(* verdict; what is not relevant to cyber security caps the confidence     *)
(* below the gate.                                                         *)
RollUp(g, v) ==
  [rank |-> [f \in {"severity", "urgency"} |-> IF v.rank[f] > g.rank[f] THEN v.rank[f]
                                               ELSE g.rank[f]],
   confident |-> v.relevant /\ (v.confident \/ g.confident)]

UpdateAssessment(r) ==
  /\ verdict.step = "write"
  /\ r \in read
  /\ LET g == RollUp(r, verdict.of) IN
     event' = [event EXCEPT ![r.event].rank = g.rank, ![r.event].confident = g.confident]
  /\ read' = read \ {r}
  /\ UNCHANGED <<status, link, later, last, after, ppc, queue, group, verdict, listed, at, act,
                 history, troubles>>

RolledUp ==
  /\ verdict.step = "write" /\ read = {}
  /\ verdict' = NoRollUp
  /\ UNCHANGED <<tables, ppc, queue, group, read, listed, at, act, history, troubles>>

(* A call throws: the stage goes on to the next article, which is          *)
(* classified again only when its verdict was not saved.                   *)
ClassificationFails ==
  /\ Trouble
  /\ \/ /\ ppc = "classify" /\ AtNone
        /\ \E a \in queue : queue' = queue \ {a}
        /\ UNCHANGED <<verdict, read>>
     \/ /\ verdict # NoRollUp
        /\ verdict' = NoRollUp /\ read' = {}
        /\ UNCHANGED queue
  /\ UNCHANGED <<tables, ppc, group, listed, at, act, history>>

(* The open events that have articles, and those without a summary or with *)
(* one that is stale.                                                      *)
Open == {e \in Events : event[e].counted}
Unsummarized == {e \in Open : event[e].summary # "current"}

(* listEventsNeedingSummary, the newest of them.                           *)
StartSummaries ==
  /\ ppc = "classify" /\ AtNone /\ queue = {}
  /\ ppc' = "summary"
  /\ listed' = [e \in Events |-> IF e \in Newest(Unsummarized) THEN event[e] ELSE NoEvent]
  /\ UNCHANGED <<tables, queue, group, verdict, read, at, act, history, troubles>>

-----------------------------------------------------------------------------
(* The summary stage.                                                      *)

ReadArticles(e) ==
  /\ ppc = "summary" /\ AtNone
  /\ listed[e].exists
  /\ listed' = [listed EXCEPT ![e] = NoEvent]
  /\ at' = [NoAt EXCEPT !.event = e, !.step = "save", !.articles = Members(e)]
  /\ UNCHANGED <<tables, ppc, queue, group, verdict, read, act, history, troubles>>

(* saveLlmSummary: the grades of the summary replace those of the event.   *)
SaveSummary(g) ==
  /\ at.step = "save"
  /\ event' = [event EXCEPT ![at.event].rank = g.rank, ![at.event].confident = g.confident,
                            ![at.event].summary = "current"]
  /\ covered' = [covered EXCEPT ![at.event] = at.articles]
  /\ at' = NoAt
  /\ UNCHANGED <<status, link, later, last, after, ppc, queue, group, verdict, read, listed, act,
                 torn, sent, rows, emptied, troubles>>

SummaryFails ==
  /\ Trouble
  /\ at.step = "save"
  /\ at' = NoAt
  /\ UNCHANGED <<tables, ppc, queue, group, verdict, read, listed, act, history>>

(* listAlertCandidates, the newest events.                                 *)
StartAlerts ==
  /\ ppc = "summary" /\ AtNone /\ listed = NotListed
  /\ ppc' = "alert"
  /\ listed' = [e \in Events |-> IF e \in Newest(Open) THEN event[e] ELSE NoEvent]
  /\ UNCHANGED <<tables, queue, group, verdict, read, at, act, history, troubles>>

-----------------------------------------------------------------------------
(* The alert stage.                                                        *)

(* Mutant of NewMaterial: whatever the time of the last alert.             *)
AnyMaterial(e) == last[e] # "none" /\ \E a \in Members(e) : link[e][a] = "material"

(* hasMaterialUpdateSince the last alert.                                  *)
NewMaterial(e) == last[e] # "none" /\ \E a \in after[e] : link[e][a] = "material"

Gate(f) == f.rank.severity = 1 /\ f.rank.urgency = 1 /\ f.confident

(* Mutant of Decision: an alert in the window suppresses all but upgrades. *)
DecisionSuppressed(e, f, young) ==
  CASE f.impact # "vendor" -> "none"
    [] f.impact = "vendor" /\ last[e] # "none" ->
         IF Gate(f) /\ last[e] = "early_warning" THEN "confirmed" ELSE "none"
    [] f.impact = "vendor" /\ last[e] = "none" ->
         IF Gate(f) THEN "confirmed" ELSE IF young THEN "early_warning" ELSE "none"

(* Mutant of Decision: whatever passes the gate is taken for an upgrade.   *)
DecisionRepeated(e, f, young) ==
  CASE f.impact # "vendor" -> "none"
    [] f.impact = "vendor" /\ NewMaterial(e) -> IF Gate(f) THEN "confirmed" ELSE "early_warning"
    [] f.impact = "vendor" /\ ~ NewMaterial(e) /\ last[e] # "none" ->
         IF Gate(f) THEN "confirmed" ELSE "none"
    [] f.impact = "vendor" /\ last[e] = "none" ->
         IF Gate(f) THEN "confirmed" ELSE IF young THEN "early_warning" ELSE "none"

(* decideAlert, of the event as it was listed: the tier of the alert, or   *)
(* "none" when the alert is suppressed.  Whether the event is young enough *)
(* for an early warning depends on the clock, and is chosen by the caller. *)
Decision(e, f, young) ==
  CASE f.impact # "vendor" -> "none"
    [] f.impact = "vendor" /\ NewMaterial(e) -> IF Gate(f) THEN "confirmed" ELSE "early_warning"
    [] f.impact = "vendor" /\ ~ NewMaterial(e) /\ last[e] # "none" ->
         IF Gate(f) /\ last[e] = "early_warning" THEN "confirmed" ELSE "none"
    [] f.impact = "vendor" /\ last[e] = "none" ->
         IF Gate(f) THEN "confirmed" ELSE IF young THEN "early_warning" ELSE "none"

DecideAlert(e, young) ==
  /\ ppc = "alert" /\ AtNone
  /\ listed[e].exists
  /\ listed' = [listed EXCEPT ![e] = NoEvent]
  /\ at' = [NoAt EXCEPT !.event = e, !.step = "create", !.tier = Decision(e, listed[e], young)]
  /\ UNCHANGED <<tables, ppc, queue, group, verdict, read, act, history, troubles>>

(* createAlert; one that is suppressed is not asked for again.             *)
CreateAlert ==
  /\ at.step = "create"
  /\ at' = NoAt
  /\ IF at.tier = "none" THEN UNCHANGED <<last, after, sent>>
     ELSE /\ last' = [last EXCEPT ![at.event] = at.tier]
          /\ after' = [after EXCEPT ![at.event] = {}]
          /\ sent' = [sent EXCEPT ![at.event] = @ + 1]
  /\ UNCHANGED <<status, event, link, later, ppc, queue, group, verdict, read, listed, act,
                 covered, torn, rows, emptied, troubles>>

FinishRun ==
  /\ ppc = "alert" /\ AtNone /\ listed = NotListed
  /\ ppc' = "idle"
  /\ UNCHANGED <<tables, queue, group, verdict, read, listed, at, act, history, troubles>>

(* The process dies, or a statement that no stage catches throws.          *)
RunDies ==
  /\ Trouble
  /\ ppc # "idle"
  /\ ppc' = "idle" /\ queue' = {} /\ group' = NoGroup /\ verdict' = NoRollUp /\ read' = {}
  /\ listed' = NotListed /\ at' = NoAt
  /\ torn' = IF group.step = "count" THEN torn \cup {<<group.event, group.article>>} ELSE torn
  /\ UNCHANGED <<tables, act, covered, sent, rows, emptied>>

-----------------------------------------------------------------------------
(* Time.                                                                   *)

(* The last alert leaves the suppression window.                           *)
WindowElapses(e) ==
  /\ last[e] # "none"
  /\ last' = [last EXCEPT ![e] = "none"]
  /\ sent' = [sent EXCEPT ![e] = 0]
  /\ rows' = [rows EXCEPT ![e] = 0]
  /\ UNCHANGED <<status, event, link, later, after, stage, act, covered, torn, emptied, troubles>>

-----------------------------------------------------------------------------
(* The analysts.                                                           *)

(* A request takes the first slot that is free.                            *)
Request(n) ==
  /\ Trouble
  /\ act[n] = NoAct /\ \A v \in Analysts : v < n => act[v] # NoAct

(* updateEventFields, one statement.                                       *)
UpdateFields(e, d) ==
  /\ Trouble
  /\ event[e].exists
  /\ event' = [event EXCEPT ![e].impact = d.impact, ![e].rank = d.rank]
  /\ emptied' = IF d.impact # "none" THEN emptied ELSE emptied \cup {e}
  /\ UNCHANGED <<status, link, later, last, after, stage, act, covered, torn, sent, rows>>

(* attachArticleToEvent, whatever link the stage has made.                 *)
AttachAsAnalyst(n, e, a) ==
  /\ Request(n)
  /\ event[e].exists
  /\ PutRow(e, a, "source")
  /\ act' = [act EXCEPT ![n] = [op |-> "attach", event |-> e]]
  /\ UNCHANGED <<status, event, later, last, stage, covered, torn, sent, emptied>>

CountAsAnalyst(n) ==
  /\ act[n].op = "attach"
  /\ event' = Counted(act[n].event, "source")
  /\ Seen(act[n].event)
  /\ act' = [act EXCEPT ![n] = NoAct]
  /\ UNCHANGED <<status, link, last, after, stage, history, troubles>>

(* Mutant of CheckApproval: an event is approved without an impact.        *)
CheckNothing(n, e) ==
  /\ Request(n)
  /\ event[e].exists
  /\ act' = [act EXCEPT ![n] = [op |-> "approve", event |-> e]]
  /\ UNCHANGED <<tables, stage, history>>

(* approveEvent: the check, and then the status.                           *)
CheckApproval(n, e) ==
  /\ Request(n)
  /\ event[e].exists /\ event[e].impact # "none"
  /\ act' = [act EXCEPT ![n] = [op |-> "approve", event |-> e]]
  /\ UNCHANGED <<tables, stage, history>>

Approve(n) ==
  /\ act[n].op = "approve"
  /\ event' = [event EXCEPT ![act[n].event].approved = TRUE]
  /\ act' = [act EXCEPT ![n] = NoAct]
  /\ UNCHANGED <<status, link, later, last, after, stage, history, troubles>>

Unpublish(e) ==
  /\ event[e].approved
  /\ event' = [event EXCEPT ![e].approved = FALSE]
  /\ UNCHANGED <<status, link, later, last, after, stage, act, history, troubles>>

RequestDies(n) ==
  /\ act[n] # NoAct
  /\ act' = [act EXCEPT ![n] = NoAct]
  /\ UNCHANGED <<tables, stage, history, troubles>>

-----------------------------------------------------------------------------
RunStep ==
  \/ \E arrived \in SUBSET Articles : StartRun(arrived)
  \/ \E a \in Articles, e \in Events :
       \/ \E d \in Drafts : FoundEvent(a, e, d)
       \/ \E kind \in {"source", "material"} : AttachArticle(a, e, kind)
  \/ CountSources
  \/ MarkGrouped
  \/ StartClassification
  \/ \E a \in Articles, v \in Verdicts : SaveClassification(a, v)
  \/ ReadEvents
  \/ \E r \in read : UpdateAssessment(r)
  \/ RolledUp
  \/ StartSummaries
  \/ \E e \in Events : ReadArticles(e)
  \/ \E g \in Grades : SaveSummary(g)
  \/ StartAlerts
  \/ \E e \in Events, young \in BOOLEAN : DecideAlert(e, young)
  \/ CreateAlert
  \/ FinishRun

AnalystStep ==
  \/ \E e \in Events :
       \/ \E d \in Drafts : UpdateFields(e, d)
       \/ Unpublish(e)
       \/ \E n \in Analysts :
            \/ \E a \in Articles : AttachAsAnalyst(n, e, a)
            \/ CheckApproval(n, e)
  \/ \E n \in Analysts : CountAsAnalyst(n) \/ Approve(n)

Time == \E e \in Events : WindowElapses(e)

Fault ==
  \/ ClassificationFails
  \/ SummaryFails
  \/ RunDies
  \/ \E n \in Analysts : RequestDies(n)

Next == RunStep \/ AnalystStep \/ Time \/ Fault

Spec == Init /\ [][Next]_vars

(* The scheduler starts run after run, and the calls of a run return.      *)
Fairness == WF_vars(RunStep)

FairSpec == Spec /\ Fairness

(* And time passes.                                                        *)
TimedSpec == FairSpec /\ \A e \in Events : WF_vars(WindowElapses(e))

-----------------------------------------------------------------------------
(* Properties.                                                             *)

(* Alerts do not repeat: within the suppression window of one another an   *)
(* event gets its first alert, an upgrade of it, and for every article     *)
(* attached meanwhile at most a bypass and an upgrade of that, however     *)
(* often the stage runs, dies and is run again.                            *)
AlertsBounded == \A e \in Events : sent[e] <= 2 + 2 * rows[e]

(* The stage implements AlertPolicy: between the decision and the alert    *)
(* articles join the event, events are edited, the window elapses and runs *)
(* die, and still no alert repeats the one before it without news.         *)
Policy == INSTANCE AlertPolicy WITH news <- {e \in Events : after[e] # {}}

ImplementsPolicy == Policy!Spec

(* An event that is approved has an affected vendor or product, unless an  *)
(* analyst has removed them, be it between the check of an approval and    *)
(* its write.                                                              *)
ApprovedWithImpact ==
  \A e \in Events : event[e].approved => event[e].impact # "none" \/ e \in emptied

(* A material update that comes after an alert is alerted, also when the   *)
(* run that attached it dies before its alert stage: within the window of  *)
(* that alert in any case, and once the window has elapsed as long as the  *)
(* event passes the gate.  The stage owes this to the newest events only.  *)
Unalerted(e) ==
  /\ event[e].impact = "vendor" /\ event[e].counted
  /\ \E a \in after[e] : link[e][a] = "material"
  /\ last[e] # "none" \/ Gate(event[e])

MaterialAlerted == \A e \in Events : []<>(Unalerted(e) => Behind(e, Open))

(* Material updates get into the summary of their event: it is made again  *)
(* until it covers them all, whatever fails meanwhile, but for attachments *)
(* that died before they could ask for that, and as long as the event is   *)
(* among the newest that need a summary.                                   *)
MaterialSummarized ==
  \A e \in Events :
    []<>(\/ Behind(e, Unsummarized)
         \/ \A a \in Articles :
              link[e][a] = "material" => a \in covered[e] \/ <<e, a>> \in torn)

-----------------------------------------------------------------------------
(* Claims of documents and comments that the code does not keep.           *)

(* Severity and urgency never downgrade: whatever the classification stage *)
(* writes is the maximum of the event's current value and the verdict's.   *)
(* (An analyst's edit may lower them, and is counted in troubles.)         *)
SeverityPinned ==
  [][\A e \in Events :
       verdict.step = "write" => \A f \in {"severity", "urgency"} :
                                   event'[e].rank[f] < event[e].rank[f] => troubles' # troubles
    ]_vars

(* An approved event has at least one affected vendor or product.          *)
ApprovedHasImpact == \A e \in Events : event[e].approved => event[e].impact # "none"

(* A material update is never suppressed, nor met with silence: it is      *)
(* alerted, within the window of the alert before it or after.             *)
EveryUpdateAlerted == \A e \in Events : []<>(~ Unalerted(e))
=============================================================================
