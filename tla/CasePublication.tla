--------------------------- MODULE CasePublication ---------------------------
(***************************************************************************)
(* How CVE cases get their scores and get in and out of the public         *)
(* catalogue.                                                              *)
(*                                                                         *)
(* Three kinds of actors work on the same rows without a common lock or a  *)
(* transaction: the consolidation stage of the pipeline (initial           *)
(* enrichment of new cases), the maintenance tick (NVD by modification     *)
(* window, then the KEV catalogue, then EPSS) and the analysts.  Each      *)
(* await of the code is a step here.                                       *)
(*                                                                         *)
(* Of a source's value only what publication looks at is kept: "alert" is  *)
(* a CVSS score of 9 or more (nvd) or a listing (kev).  EPSS scores decide *)
(* nothing; of EPSS only its place in the tick is kept.                    *)
(***************************************************************************)
EXTENDS Naturals, FiniteSets, Sequences

CONSTANTS
  Cases,          \* CVE ids
  Analysts,
  OldCases,       \* those that exist at first, with the scores NVD and KEV give
  InitialScores,  \* what NVD may say of a case before anything of it is read
  Limit,          \* interpretations that one run consolidates (runner.ts)
  MaxReports,     \* bound: completed interpretations
  MaxCves,        \* bound: CVE ids that one of them reports
  MaxChanges,     \* bound: changes of the upstream sources
  MaxFaults,      \* bound: runs and ticks that die or throw
  MaxTransients,  \* bound: initial fetches that fail
  MaxActions,     \* bound: actions of analysts
  None

ASSUME ConstantsAssumption ==
  /\ IsFiniteSet(Cases) /\ None \notin Cases
  /\ OldCases \subseteq Cases
  /\ InitialScores \subseteq {"quiet", "alert"}
  /\ Limit \in Nat
  /\ {"pipeline", "maintenance"} \cap Analysts = {}
  /\ {MaxReports, MaxCves, MaxChanges, MaxFaults, MaxTransients, MaxActions} \subseteq Nat

Sources == {"nvd", "kev"}
Actors == {"pipeline", "maintenance"} \cup Analysts

VARIABLES
  (* upstream *)
  world,      \* world[c][s]: what source s says of c now
  mod,        \* lastModified of c's NVD record
  clock,      \* the number of changes so far, which is the time
  aged,       \* the time two minutes ago (NVD_SAFETY_BUFFER_MS)
  (* tables *)
  reports,    \* CVE ids of each completed interpretation, oldest first
  status,     \* cve_cases
  obs,        \* obs[c][s]: the latest terminal row of cve_source_observations
  tried,      \* cases with any row there, failed attempts included
  cursor,     \* cve_refresh_state of nvd
  logged,     \* the latest approval or unapproval of c in review_events
  (* the consolidation stage *)
  ppc, batch, ptodo, fresh,
  fetch,      \* the initial fetch it is at
  (* the maintenance tick *)
  mpc, mtodo,
  recs,       \* the NVD records it has fetched and not gone through yet
  top,        \* maxLastModified
  act,        \* act[a]: the change of publication actor a is at
  (* history of the model *)
  torn,       \* cases whose last change died before its event, or met another
  overtaken,  \* cases whose stored NVD score is one of an initial fetch that
              \* NVD had changed by the time it was stored
  (* bounds *)
  faults, transients, actions

upstream == <<world, mod, clock, aged>>
tables == <<reports, status, obs, tried, cursor, logged>>
pipeline == <<ppc, batch, ptodo, fresh, fetch>>
tick == <<mpc, mtodo, recs, top>>
bounds == <<faults, transients, actions>>
history == <<torn, overtaken>>
vars == <<upstream, tables, pipeline, tick, act, history, bounds>>

Values == {"alert", "quiet"}
NoFetch == [case |-> None, source |-> "nvd", step |-> "off", got |-> "quiet"]
NoAct == [step |-> "off", case |-> None, was |-> "draft", publish |-> FALSE]

TypeOK ==
  /\ world \in [Cases -> [Sources -> Values]]
  /\ mod \in [Cases -> Nat] /\ clock \in Nat /\ aged \in Nat
  /\ cursor \in Nat /\ top \in Nat
  /\ reports \in Seq(SUBSET Cases) /\ tried \subseteq Cases
  /\ status \in [Cases -> {"absent", "draft", "approved"}]
  /\ obs \in [Cases -> [Sources -> Values \cup {"none"}]]
  /\ logged \in [Cases -> {"none", "approval", "unapproval"}]
  /\ ppc \in {"idle", "ensure", "check", "enrich", "sync"}
  /\ batch \subseteq Cases /\ ptodo \subseteq Cases /\ fresh \subseteq Cases
  /\ fetch \in [case : Cases \cup {None}, source : Sources,
                step : {"off", "fetch", "persist", "sync"}, got : Values]
  /\ mpc \in {"idle", "list", "nvd", "kevlist", "catalogue", "kev", "epss", "sync"}
  /\ mtodo \subseteq Cases
  /\ recs \subseteq [case : Cases, value : Values, mod : Nat]
  /\ act \in [Actors -> [step : {"off", "gates", "mark", "log"}, case : Cases \cup {None},
                         was : {"absent", "draft", "approved"}, publish : BOOLEAN]]
  /\ torn \subseteq Cases /\ overtaken \subseteq Cases
  /\ faults \in Nat /\ transients \in Nat /\ actions \in Nat

Gate(seen) == \E s \in Sources : seen[s] = "alert"

Init ==
  /\ \E score \in [Cases -> InitialScores] :
       world = [c \in Cases |-> [s \in Sources |-> IF s = "nvd" THEN score[c] ELSE "quiet"]]
  /\ mod = [c \in Cases |-> 0] /\ clock = 0 /\ aged = 0 /\ cursor = 0
  /\ reports = << >> /\ tried = OldCases
  /\ obs = [c \in Cases |-> IF c \in OldCases THEN world[c] ELSE [s \in Sources |-> "none"]]
  /\ status = [c \in Cases |-> IF c \notin OldCases THEN "absent"
                             ELSE IF Gate(obs[c]) THEN "approved" ELSE "draft"]
  /\ logged = [c \in Cases |-> IF status[c] = "approved" THEN "approval" ELSE "none"]
  /\ ppc = "idle" /\ batch = {} /\ ptodo = {} /\ fresh = {} /\ fetch = NoFetch
  /\ mpc = "idle" /\ mtodo = {} /\ recs = {} /\ top = 0
  /\ act = [a \in Actors |-> NoAct]
  /\ torn = {} /\ overtaken = {}
  /\ faults = 0 /\ transients = 0 /\ actions = 0

Tracked == {c \in Cases : status[c] # "absent"}

-----------------------------------------------------------------------------
(* A change of publication, one statement at a time.  The pipeline and the *)
(* tick come to Mark by way of syncCasePublicationFromCvss, the analysts   *)
(* directly.                                                               *)

SyncCase(a, c) ==
  /\ act[a].step = "off"
  /\ act' = [act EXCEPT ![a] =
               [step |-> "gates", case |-> c, was |-> status[c], publish |-> FALSE]]

(* Mutant of SyncGates: a case is never taken back.                        *)
SyncGatesPublishOnly(a) ==
  LET publish == Gate(obs[act[a].case]) IN
  /\ act[a].step = "gates"
  /\ act' = [act EXCEPT ![a] =
               IF ~ publish \/ @.was = "approved" THEN NoAct
               ELSE [@ EXCEPT !.step = "mark", !.publish = publish]]
  /\ UNCHANGED <<upstream, tables, pipeline, tick, history, bounds>>

SyncGates(a) ==
  LET publish == Gate(obs[act[a].case]) IN
  /\ act[a].step = "gates"
  /\ act' = [act EXCEPT ![a] =
               IF publish = (@.was = "approved") THEN NoAct
               ELSE [@ EXCEPT !.step = "mark", !.publish = publish]]
  /\ UNCHANGED <<upstream, tables, pipeline, tick, history, bounds>>

EventOf(a) == IF act[a].publish THEN "approval" ELSE "unapproval"

(* The event of a change is a second statement: what a change finds        *)
(* between the two of another one, or dies between its own, is torn.       *)
Logging(a, c) == act[a].step = "log" /\ act[a].case = c
Unlogged(a) == {c \in Cases : Logging(a, c)}
Contested(a) == \E b \in Actors \ {a} : Logging(b, act[a].case)

Torn(a) == IF Contested(a) THEN torn \cup {act[a].case} ELSE torn \ {act[a].case}

(* markApproved or markUnpublished, whatever the status is by now.         *)
Mark(a) ==
  /\ act[a].step = "mark"
  /\ status' = [status EXCEPT ![act[a].case] =
                  IF act[a].publish THEN "approved" ELSE "draft"]
  /\ act' = [act EXCEPT ![a].step = "log"]
  /\ torn' = Torn(a)
  /\ UNCHANGED <<upstream, reports, obs, tried, cursor, logged, pipeline, tick, overtaken, bounds>>

(* Mutant of Log: only what is published is put into the history.          *)
LogApprovals(a) ==
  /\ act[a].step = "log"
  /\ logged' = IF act[a].publish THEN [logged EXCEPT ![act[a].case] = "approval"] ELSE logged
  /\ act' = [act EXCEPT ![a] = NoAct]
  /\ UNCHANGED <<upstream, reports, status, obs, tried, cursor, pipeline, tick, history,
                 bounds>>

(* appendReviewEvent.                                                      *)
Log(a) ==
  /\ act[a].step = "log"
  /\ logged' = [logged EXCEPT ![act[a].case] = EventOf(a)]
  /\ act' = [act EXCEPT ![a] = NoAct]
  /\ UNCHANGED <<upstream, reports, status, obs, tried, cursor, pipeline, tick, history,
                 bounds>>

Change(a) == SyncGates(a) \/ Mark(a) \/ Log(a)
Unoccupied(a) == act[a].step = "off"

-----------------------------------------------------------------------------
(* The consolidation stage: ensure every case, find those without any      *)
(* observation, enrich these one by one, then sync every case.             *)

(* listCompletedByName(limit): a completed interpretation never leaves the *)
(* list, so a run looks at the same `limit` oldest ones again and again.   *)
Considered == {c \in Cases : \E i \in DOMAIN reports : i <= Limit /\ c \in reports[i]}

StartConsolidation ==
  /\ ppc = "idle"
  /\ Considered # {}
  /\ ppc' = "ensure"
  /\ batch' = Considered
  /\ ptodo' = Considered
  /\ UNCHANGED <<upstream, tables, fresh, fetch, tick, act, history, bounds>>

EnsureCase(c) ==
  /\ ppc = "ensure"
  /\ c \in ptodo
  /\ ptodo' = ptodo \ {c}
  /\ status' = [status EXCEPT ![c] = IF @ = "absent" THEN "draft" ELSE @]
  /\ UNCHANGED <<upstream, reports, obs, tried, cursor, logged, ppc, batch, fresh,
                 fetch, tick, act, history, bounds>>

(* A case is new if it has no row at all: a failed attempt is a row.       *)
CheckNew(c) ==
  /\ ppc = "check"
  /\ c \in ptodo
  /\ ptodo' = ptodo \ {c}
  /\ fresh' = IF c \in tried THEN fresh ELSE fresh \cup {c}
  /\ UNCHANGED <<upstream, tables, ppc, batch, fetch, tick, act, history, bounds>>

BeginEnrichment(c) ==
  /\ ppc = "enrich"
  /\ fetch.step = "off"
  /\ Unoccupied("pipeline")
  /\ c \in ptodo
  /\ ptodo' = ptodo \ {c}
  /\ fetch' = [NoFetch EXCEPT !.case = c, !.step = "fetch"]
  /\ UNCHANGED <<upstream, tables, ppc, batch, fresh, tick, act, history, bounds>>

FetchInitial ==
  /\ fetch.step = "fetch"
  /\ fetch' = [fetch EXCEPT !.step = "persist", !.got = world[fetch.case][fetch.source]]
  /\ UNCHANGED <<upstream, tables, ppc, batch, ptodo, fresh, tick, act, history, bounds>>

NextFetch ==
  IF fetch.source = "nvd"
  THEN [fetch EXCEPT !.source = "kev", !.step = "fetch", !.got = "quiet"]
  ELSE [fetch EXCEPT !.step = "sync", !.got = "quiet"]

(* persistObservation appends what was fetched unless the latest terminal  *)
(* value is the same, though the tick may have stored a later one.         *)
Overtaken ==
  IF fetch.source # "nvd" THEN overtaken
  ELSE IF fetch.got = world[fetch.case]["nvd"] THEN overtaken \ {fetch.case}
  ELSE overtaken \cup {fetch.case}

PersistInitial ==
  /\ fetch.step = "persist"
  /\ overtaken' = Overtaken
  /\ obs' = [obs EXCEPT ![fetch.case][fetch.source] = fetch.got]
  /\ tried' = tried \cup {fetch.case}
  /\ fetch' = NextFetch
  /\ UNCHANGED <<upstream, reports, status, cursor, logged, ppc, batch, ptodo, fresh,
                 tick, act, torn, bounds>>

(* The adapter reports a failure: it is recorded, and the stage goes on.   *)
FetchFails ==
  /\ transients < MaxTransients
  /\ transients' = transients + 1
  /\ fetch.step = "fetch"
  /\ tried' = tried \cup {fetch.case}
  /\ fetch' = NextFetch
  /\ UNCHANGED <<upstream, reports, status, obs, cursor, logged, ppc, batch, ptodo,
                 fresh, tick, act, history, faults, actions>>

SyncEnriched ==
  /\ fetch.step = "sync"
  /\ SyncCase("pipeline", fetch.case)
  /\ fetch' = NoFetch
  /\ UNCHANGED <<upstream, tables, ppc, batch, ptodo, fresh, tick, history, bounds>>

SyncTouched(c) ==
  /\ ppc = "sync"
  /\ c \in ptodo
  /\ SyncCase("pipeline", c)
  /\ ptodo' = ptodo \ {c}
  /\ UNCHANGED <<upstream, tables, ppc, batch, fresh, fetch, tick, history, bounds>>

(* The loop of one phase is done: on to the next.                          *)
NextPhase ==
  /\ ptodo = {} /\ fetch.step = "off" /\ Unoccupied("pipeline")
  /\ \/ ppc = "ensure" /\ ppc' = "check" /\ ptodo' = batch /\ UNCHANGED <<batch, fresh>>
     \/ ppc = "check" /\ ppc' = "enrich" /\ ptodo' = fresh /\ UNCHANGED <<batch, fresh>>
     \/ ppc = "enrich" /\ ppc' = "sync" /\ ptodo' = batch /\ UNCHANGED <<batch, fresh>>
     \/ ppc = "sync" /\ ppc' = "idle" /\ batch' = {} /\ fresh' = {} /\ UNCHANGED ptodo
  /\ UNCHANGED <<upstream, tables, fetch, tick, act, history, bounds>>

(* A statement throws or the process dies: nothing is undone.              *)
PipelineFails ==
  /\ faults < MaxFaults
  /\ faults' = faults + 1
  /\ ppc # "idle"
  /\ ppc' = "idle" /\ batch' = {} /\ ptodo' = {} /\ fresh' = {} /\ fetch' = NoFetch
  /\ act' = [act EXCEPT !["pipeline"] = NoAct]
  /\ torn' = torn \cup Unlogged("pipeline")
  /\ UNCHANGED <<upstream, tables, tick, overtaken, transients, actions>>

-----------------------------------------------------------------------------
(* The maintenance tick, under a lock of its own.                          *)

(* NVD: every record modified since the cursor and at least two minutes    *)
(* ago, whether there is a case for it or not; the ends are inclusive.     *)
(* Mutant of Modified: the record the cursor is of is left out.            *)
ModifiedAfter == {c \in Cases : cursor < mod[c] /\ mod[c] <= aged}
Modified == {c \in Cases : cursor <= mod[c] /\ mod[c] <= aged}

StartTick ==
  /\ mpc = "idle"
  /\ mpc' = "list"
  /\ recs' = {[case |-> c, value |-> world[c]["nvd"], mod |-> mod[c]] : c \in Modified}
  /\ top' = cursor
  /\ UNCHANGED <<upstream, tables, pipeline, mtodo, act, history, bounds>>

(* listAllCaseCveIds: records of other CVE ids are skipped.                *)
ListTracked ==
  /\ mpc = "list"
  /\ mpc' = "nvd"
  /\ recs' = {rec \in recs : rec.case \in Tracked}
  /\ UNCHANGED <<upstream, tables, pipeline, mtodo, top, act, history, bounds>>

(* persistRefreshObservation.                                              *)
Refresh(c, s, value) ==
  /\ overtaken' = IF s = "nvd" THEN overtaken \ {c} ELSE overtaken
  /\ obs' = [obs EXCEPT ![c][s] = value]
  /\ tried' = tried \cup {c}
  /\ UNCHANGED <<upstream, reports, status, cursor, logged, pipeline, mpc, act, torn,
                 bounds>>

Later(m) == IF m > top THEN m ELSE top

(* Mutant of RefreshNvd: a score that falls is not stored.                 *)
RefreshNvdRises(rec) ==
  /\ mpc = "nvd"
  /\ rec \in recs
  /\ Refresh(rec.case, "nvd",
             IF obs[rec.case]["nvd"] = "alert" THEN "alert" ELSE rec.value)
  /\ recs' = recs \ {rec}
  /\ top' = Later(rec.mod)
  /\ UNCHANGED mtodo

RefreshNvd(rec) ==
  /\ mpc = "nvd"
  /\ rec \in recs
  /\ Refresh(rec.case, "nvd", rec.value)
  /\ recs' = recs \ {rec}
  /\ top' = Later(rec.mod)
  /\ UNCHANGED mtodo

(* Mutant of FinishNvd: the cursor goes to the time of the tick, which is  *)
(* after every change so far.                                              *)
FinishNvdNow ==
  /\ mpc = "nvd"
  /\ recs = {}
  /\ mpc' = "kevlist"
  /\ cursor' = clock + 1
  /\ top' = 0
  /\ UNCHANGED <<upstream, reports, status, obs, tried, logged, pipeline, mtodo, recs,
                 act, history, bounds>>

(* The cursor goes to the latest modification among the tracked records.   *)
FinishNvd ==
  /\ mpc = "nvd"
  /\ recs = {}
  /\ mpc' = "kevlist"
  /\ cursor' = top
  /\ top' = 0
  /\ UNCHANGED <<upstream, reports, status, obs, tried, logged, pipeline, mtodo, recs,
                 act, history, bounds>>

ListForCatalogue ==
  /\ mpc = "kevlist"
  /\ mpc' = "catalogue"
  /\ mtodo' = Tracked
  /\ UNCHANGED <<upstream, tables, pipeline, recs, top, act, history, bounds>>

(* KEV: the tick goes through what the catalogue lists; a case that is not *)
(* listed any more is not looked at.                                       *)
FetchCatalogue ==
  /\ mpc = "catalogue"
  /\ mpc' = "kev"
  /\ mtodo' = {c \in mtodo : world[c]["kev"] = "alert"}
  /\ UNCHANGED <<upstream, tables, pipeline, recs, top, act, history, bounds>>

RefreshKev(c) ==
  /\ mpc = "kev"
  /\ c \in mtodo
  /\ Refresh(c, "kev", "alert")
  /\ mtodo' = mtodo \ {c}
  /\ UNCHANGED <<recs, top>>

FinishKev ==
  /\ mpc = "kev"
  /\ mtodo = {}
  /\ mpc' = "epss"
  /\ UNCHANGED <<upstream, tables, pipeline, mtodo, recs, top, act, history, bounds>>

(* EPSS is refreshed; then syncAllCasePublicationsFromCvss lists the cases. *)
FinishEpss ==
  /\ mpc = "epss"
  /\ mpc' = "sync"
  /\ mtodo' = Tracked
  /\ UNCHANGED <<upstream, tables, pipeline, recs, top, act, history, bounds>>

SyncNextCase(c) ==
  /\ mpc = "sync"
  /\ c \in mtodo
  /\ SyncCase("maintenance", c)
  /\ mtodo' = mtodo \ {c}
  /\ UNCHANGED <<upstream, tables, pipeline, mpc, recs, top, history, bounds>>

FinishTick ==
  /\ mpc = "sync"
  /\ mtodo = {} /\ Unoccupied("maintenance")
  /\ mpc' = "idle"
  /\ UNCHANGED <<upstream, tables, pipeline, mtodo, recs, top, act, history, bounds>>

(* A source cannot be fetched, a statement throws or the process dies: the *)
(* tick ends there, before the sync of the cases, and keeps the cursor.    *)
TickFails ==
  /\ faults < MaxFaults
  /\ faults' = faults + 1
  /\ mpc # "idle"
  /\ mpc' = "idle" /\ mtodo' = {} /\ recs' = {} /\ top' = 0
  /\ act' = [act EXCEPT !["maintenance"] = NoAct]
  /\ torn' = torn \cup Unlogged("maintenance")
  /\ UNCHANGED <<upstream, tables, pipeline, overtaken, transients, actions>>

-----------------------------------------------------------------------------
(* Analysts, the upstream sources and the earlier stages.                  *)

(* approveCase and unpublishCase: the status is read, then changed.        *)
Analyst(a, c) ==
  /\ actions < MaxActions
  /\ actions' = actions + 1
  /\ Unoccupied(a)
  /\ status[c] # "absent"
  /\ act' = [act EXCEPT ![a] = [step |-> "mark", case |-> c, was |-> status[c],
                                publish |-> status[c] = "draft"]]
  /\ UNCHANGED <<upstream, tables, pipeline, tick, history, faults, transients>>

ChangeUpstream(c, s) ==
  /\ clock < MaxChanges
  /\ clock' = clock + 1
  /\ world' = [world EXCEPT ![c][s] = IF @ = "alert" THEN "quiet" ELSE "alert"]
  /\ mod' = IF s = "nvd" THEN [mod EXCEPT ![c] = clock'] ELSE mod
  /\ UNCHANGED <<aged, tables, pipeline, tick, act, history, bounds>>

TimePasses ==
  /\ aged < clock
  /\ aged' = clock
  /\ UNCHANGED <<world, mod, clock, tables, pipeline, tick, act, history, bounds>>

(* An interpretation that reports the CVE ids C is completed.              *)
Report(C) ==
  /\ Len(reports) < MaxReports /\ Cardinality(C) <= MaxCves
  /\ reports' = Append(reports, C)
  /\ UNCHANGED <<upstream, status, obs, tried, cursor, logged, pipeline, tick, act,
                 history, bounds>>

-----------------------------------------------------------------------------
PipelineStep ==
  \/ StartConsolidation
  \/ \E c \in Cases : EnsureCase(c) \/ CheckNew(c) \/ BeginEnrichment(c) \/ SyncTouched(c)
  \/ FetchInitial
  \/ PersistInitial
  \/ SyncEnriched
  \/ NextPhase
  \/ Change("pipeline")

TickStep ==
  \/ StartTick
  \/ ListTracked
  \/ \E rec \in recs : RefreshNvd(rec)
  \/ FinishNvd
  \/ ListForCatalogue
  \/ FetchCatalogue
  \/ \E c \in Cases : RefreshKev(c) \/ SyncNextCase(c)
  \/ FinishKev
  \/ FinishEpss
  \/ FinishTick
  \/ Change("maintenance")

AnalystStep == \E a \in Analysts : Change(a) \/ \E c \in Cases : Analyst(a, c)

Environment ==
  \/ \E C \in SUBSET Cases \ {{}} : Report(C)
  \/ \E c \in Cases, s \in Sources : ChangeUpstream(c, s)
  \/ TimePasses

Fault == FetchFails \/ PipelineFails \/ TickFails

Next == PipelineStep \/ TickStep \/ AnalystStep \/ Environment \/ Fault

Spec == Init /\ [][Next]_vars

(* Both schedulers start their next run a while after the last one ended,  *)
(* whatever its outcome, and inside a run every await returns (an HTTP     *)
(* request is aborted after 15 seconds).                                   *)
Fairness == WF_vars(PipelineStep) /\ WF_vars(TickStep) /\ WF_vars(TimePasses)

FairSpec == Spec /\ Fairness

-----------------------------------------------------------------------------
(* Properties.                                                             *)

(* The incremental window passes no revision by: while the stored score of *)
(* a case differs from NVD's, the record is still inside the window of the *)
(* ticks to come.  Only an initial fetch that NVD overtook before it was   *)
(* stored can leave an old score behind the cursor, and the next record of *)
(* the case that a tick stores heals that.                                 *)
OnlyOvertakenMissed ==
  \A c \in Cases \ overtaken :
    obs[c]["nvd"] \notin {"none", world[c]["nvd"]} => cursor <= mod[c]

(* The review history says of every case whether it is public: the status  *)
(* and the latest approval or unapproval agree once a change is through,   *)
(* whatever its actor had read and whoever came before it.  Only a case    *)
(* whose last change died before its event, or came while another one had  *)
(* not written its own, may disagree, and the next change heals it.        *)
HistoryAgrees ==
  \A c \in Cases \ torn :
    (\A a \in Actors : ~ Logging(a, c)) =>
      (status[c] = "approved" <=> logged[c] = "approval")

(* What NVD says of a case is lost to it: what is stored is something else *)
(* (nothing, after a first fetch that failed; an old score, after one that *)
(* was overtaken) and the cursor is past the record.                       *)
Passed(c) == obs[c]["nvd"] # world[c]["nvd"] /\ cursor > mod[c]

(* A case that NVD or KEV gives an alert for gets into the public          *)
(* catalogue once one of the interpretations a run considers reports it,   *)
(* though its first fetch failed, a tick and the pipeline write its scores *)
(* in any order, or the tick did not know it yet; unless the sources take  *)
(* the alert back first or it is only NVD's and the cursor has passed it.  *)
HighAlertsPublished ==
  \A c \in Cases :
    c \in Considered /\ Gate(world[c])
      ~> \/ status[c] = "approved" \/ ~ Gate(world[c])
         \/ world[c]["kev"] = "quiet" /\ Passed(c)

(* Publication converges to the gates of the stored scores, however the    *)
(* syncs of the pipeline and of the tick, the analysts' changes and faults *)
(* interleave: in the end every case is public exactly if a gate holds.    *)
PublicationConverges ==
  \A c \in Cases : <>[](status[c] = "approved" <=> Gate(obs[c]))

(* A case whose NVD score falls below the threshold leaves the public      *)
(* catalogue: what a tick or a late initial fetch stored is written over,  *)
(* and the next sync takes the case back, unless the cursor has passed the *)
(* record or a KEV listing is stored (which nothing takes back).           *)
ClearedByNvd ==
  \A c \in Cases :
    ~ Gate(world[c])
      ~> \/ status[c] # "approved" \/ Gate(world[c])
         \/ obs[c]["kev"] = "alert" \/ Passed(c)

-----------------------------------------------------------------------------
(* Claims of documents and comments that the code does not keep.           *)

(* "This prevents old CVEs from missing later NVD revisions", in parallel  *)
(* with the pipeline: an old stored score is never behind the cursor.      *)
NothingMissed ==
  \A c \in Cases :
    obs[c]["nvd"] \notin {"none", world[c]["nvd"]} => cursor <= mod[c]

(* KEV is reconciled in full, also for a case that "was previously listed  *)
(* and is no longer": a case that both sources cleared leaves the public   *)
(* catalogue.                                                              *)
ClearedUnpublished ==
  \A c \in Cases : ~ Gate(world[c]) ~> status[c] # "approved" \/ Gate(world[c])

(* A run "starts or resumes enrichment": a case comes to have a score, or  *)
(* the answer that there is none, of NVD.                                  *)
EnrichmentResumed ==
  \A c \in Cases : status[c] # "absent" ~> obs[c]["nvd"] # "none"

(* "Case unexpectedly unpublished: check the latest review_events row": a  *)
(* case that is not public is not one whose latest row is an approval,     *)
(* once no change of it is under way.                                      *)
HistoryTold ==
  \A c \in Cases :
    (\A a \in Actors : ~ Logging(a, c)) /\ logged[c] = "approval" => status[c] = "approved"
=============================================================================
