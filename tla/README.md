# A verification model of the AI event intelligence agent

TLA+ modules, TLC configurations and TLAPS proofs about the program under `src/`
(paths below are relative to that directory). The program ingests security news,
filters it by keywords and by an inventory of monitored products, lets a language
model analyse the articles, gathers what they say of CVE ids into cases, scores the
cases with NVD, CISA KEV and EPSS, and publishes the dangerous ones. In its older
profile it also groups articles into events, which it classifies, summarizes and alerts.

## 1. The system

The default profile `cve-mvp` (`src/pipeline/runner.ts:137`) runs the stages
ingest, filter, extraction, drift check, CVE scan, analysis tasks, case
consolidation one after the other; the profiles `analyst-eval` and `full`
(`runner.ts:174`) go from extraction to entities and digests, and `full` on to
embeddings, deduplication, events, classification, summaries and alerts. Everything
the stages know of each other is in PostgreSQL tables. There are five kinds of
actors, in several processes:

| actor | entry point | excluded by |
|---|---|---|
| pipeline runs | `src/pipeline/scheduled-run.ts`, started by `scheduler.ts` or the CLI | advisory lock 4820017 |
| maintenance ticks | `src/cve/scheduled-maintenance.ts`, started by `maintenance-scheduler.ts` | advisory lock 7311202 |
| analysts | `src/workspace/analysis-task-actions.ts`, `src/workspace/article-requeue.ts`, `src/cve/review.ts`, `src/events/event-editorial.ts` | nothing |
| administrators | `src/workspace/workspace-feed-writes.ts`, `workspace-inventory-writes.ts`, the re-embedding script | an advisory lock for feeds, row locks |
| upstream | feeds, the model, NVD, KEV, EPSS | - |

Few operations open a transaction over more than one statement: moves and new events
of analysts, and the configuration writes. Everywhere else every `await` is a point
where the others can act.

### Inventory

| component | state | operations | what is hard | what makes it correct |
|---|---|---|---|---|
| Analysis task queue (`pipeline/analysis-task-stage.ts`, `db/repositories/analysis-task.repository.ts`, `workspace/analysis-task-actions.ts`, `utils/concurrency.ts`) | rows of `analysis_tasks` | schedule, claim, call, record, audit, retry, complete by hand | two drains of three lanes each; late answers; crashes; failed statements; analysts | a task is in one pair of hands; manual answers are final; the budget of calls; everything settles |
| Runs and scheduler (`pipeline/scheduled-run.ts`, `scheduler.ts`, `runner.ts`) | the advisory lock | start, skip, end, fail | replicas, a run that fails while its workers go on | one run in its phases |
| Consolidation and initial enrichment (`pipeline/case-consolidation-stage.ts`, `cve/cases.ts`) | `cve_cases`, `cve_case_articles`, `cve_source_observations` | ensure, attach, enrich, sync | runs beside maintenance and analysts on the same rows; a window of interpretations | cases have current scores, links their latest evidence |
| Enrichment maintenance (`cve/maintenance.ts`, `cve/enrichment-http.ts`) | `cve_refresh_state` | NVD window, KEV reconciliation, EPSS, sync | half-done ticks, cursor, records changing meanwhile | no revision is passed by |
| Review and publication (`cve/review.ts`) | `cve_cases.status`, `review_events` | approve, pull back, sync, verdicts | concurrent syncs and verdicts, values read before they are written | publication settles on the gates, verdicts leave a trace |
| Article lifecycle (ingest, extraction, `cve/scan.ts`, entities, `pipeline/digest-stage.ts`, `embedding/lifecycle.ts`, `dedup/article-dedup.ts`, `workspace/article-requeue.ts`) | `articles`, `cve_mentions` | one stage per status, re-queue, re-embed | newest-first windows, retries, claims of dead runs, rewinding under a running stage | every article gets on or ends visibly |
| Cheap filter (`pipeline/filter-stage.ts`) | `cheap_filter_*`, `processing_status` | decide, save, set the status | two gates with exceptions, an inventory that changes, two statements | nothing severe is dropped, columns agree |
| Event grouping (`pipeline/event-stage.ts`, `events/grouping-decision.ts`) | `cyber_events`, `event_articles` | found, attach, mark, embed | crashes between statements, analysts at the same event | one event per incident, counts are right |
| Event editorial (`events/event-editorial.ts`) | the same | create, attach, detach, move, edit, approve, unpublish | analysts and stages at the same event, row locks, deadlocks | moves are atomic, approved events have impact |
| Classification, summaries, alerts (`pipeline/classification-stage.ts`, `summary-stage.ts`, `alert-stage.ts`, `alerts/alert-decision.ts`) | `cyber_events`, `alerts` | roll up, summarize, alert | stale reads, suppression window, failed calls | no alert repeats, no material update is lost |
| Configuration writes (`workspace/workspace-feed-writes.ts`, `workspace-inventory-writes.ts`) | `feeds`, `vendor_products`, `vendor_product_aliases` | create, edit, pause, resume | overlapping requests at read committed | a feed and a product stay active, edits do not mix |
| Reads, web UI, portal, evaluation, monitoring, prototype agents, job queue | - | - | - | not modelled, see 7 |

`PROJECT.json` lists every component with its status, and under `hazards` every
place where this code is hard to test.

## 2. Modules

| module | what it is |
|---|---|
| `AnalysisTasks` | the task queue, its runs, drains, lanes, faults and analysts |
| `TaskQueue` | the abstract queue: what the rows promise, without any of these |
| `CasePublication` | scores and publication: consolidation stage, maintenance tick, analysts, upstream |
| `CaseEvidence` | links between cases and articles, verdicts, the window of interpretations |
| `ArticleLifecycle` | an article's way through the stages of the three profiles |
| `CheapFilter` | the decision of the filter as operators, and how it gets into the row |
| `EventGrouping` | the event stage and the analysts' changes of membership |
| `ArticleMembership` | the abstract membership: joins, detachments, atomic moves |
| `EventAssessment` | classification, summaries, alerts, approval |
| `AlertPolicy` | the abstract promise of the alerts: upgrades and news only |
| `WorkspaceConfig` | feeds and monitored products under overlapping requests |
| `AnalysisTasksProofs`, `CasePublicationProofs`, `CaseEvidenceProofs`, `ArticleLifecycleProofs`, `CheapFilterProofs`, `EventGroupingProofs`, `EventAssessmentProofs`, `WorkspaceConfigProofs` | theorems, see 4 |
| `MC*` | the instances for TLC: symmetry sets, the filter's inventory |

The modules meet in a few places. `ArticleLifecycle` brings articles to
`EXTRACTION_SUCCESS`, where `AnalysisTasks` takes them up (`ExtractArticle`), and to
`EMBEDDED`, where `EventGrouping` does (`Embed`). A completed interpretation of
`AnalysisTasks` is `Complete` in `CaseEvidence`, its failed audit `Reopen`; the cases
that `CaseEvidence` links are those that `CasePublication` scores. What
`EventGrouping` attaches, `EventAssessment` classifies and alerts. `WorkspaceConfig`
changes the inventory by which `CheapFilter` judges (`Monitor`). Each module takes what
its neighbours do as actions that may happen at any time, with less discipline than
the neighbour has.

A definition called "Mutant of X" in a module is a deliberately broken variant of
X, kept to show that the properties notice it. No behaviour of `Spec` uses one.

### AnalysisTasks

A task is a pair of an article and one of three names, as the unique key of the
table. `status`, `attempts`, `result` are the columns; `due` abbreviates
`next_attempt_at IS NULL OR next_attempt_at <= now`. A run `r` has a phase `pc[r]`
(`schedule1`, `drain1`, `schedule2`, `drain2`, or `failed` once the stage has
rejected), the articles it listed, and for each task name a drain with `lanes`
workers; `step[r][t]` is where a worker is with a task.

| code | actions |
|---|---|
| `runScheduledPipeline` | `StartRun`, `FinishRun`, `FailRun`, `Crash` |
| `runAnalysisTaskStage` | `StartDrains`, `StartPhase2`, `ScheduleThrows` |
| `scheduleTasksForArticle`, `upsertPending` | `ScheduleArticle` |
| `drainTaskQueue`, claim loop | `ClaimTask`, `FinishClaiming`, `ClaimThrows` |
| its worker: `runner`, `recordSuccess`, `audit.insert` | `CallModel`, `RecordSuccess`, `AuditSuccess` |
| its catch block: `recordFailure`, `audit.insert` | `RecordFailure`, `AuditFails`, `LogError` |
| `runWithConcurrency` | `LaneFree`, `WorkerThrows`, `FinishDrain` |
| `applyAnalysisTaskAction` | `AnalystRetry`, `AnalystComplete` |

Abstractions:

- `ScheduleArticle` is one step for the reads and up to three upserts of an
  article. Upserts only add rows that are absent, and only one run schedules at a
  time, so no other step tells the difference.
- The claim order (`next_attempt_at` first, then id) is any ready task.
- `CallModel` is one invocation of the runner and counts any number of requests up to
  `Requests`: an interpretation makes one per chunk of CVE ids (`cve/prompts.ts:127`,
  `Chunks`), and the client tries each again (`config/llm.ts:8`, `ClientTries`); a chunk
  that fails ends the invocation.
- `unaudited` is a history: the tasks whose completion was taken back because the audit
  row could not be written.
- `ready` counts only analysis-ready articles in the window of `limit`.
- `Limit` is both the listing limit and `maxTasksPerRun`, as the runner passes them.
- `loadArticleForTask` cannot return null: `findByIds` throws for a missing
  article, which is one way of `WorkerThrows`.
- An analyst's check of the status and the guarded update are one step; the
  update decides by its own WHERE clause.
- A slot of `Runs` is one run with its leftovers. A process whose last run left
  workers behind starts the next run in another slot. When the CLI exits with
  workers left, that is `Crash`.
- The CVE ids of an article (`WithCves`) do not change.

### TaskQueue

`Claim`, `Answer`, `GiveUp`, `LetGo`, `Enqueue`, `Reopen`, `AnswerByHand` on a set of
holders per task. The mapping takes `status` and `result` as they are, and as
holders of a task the runs that have it queued, in a call or in the audit of its
answer (`Holders`). A run that records a failure lets go with the update of the
row, since the row may be claimed from then on while the error is still logged.

### CasePublication

`world` and `mod` are what the sources say and when NVD's record changed; time is
the number of changes, and `aged` lags behind it (`NVD_SAFETY_BUFFER_MS`). `reports` are
the completed interpretations, oldest first, each as the cases it reports; a run considers
the oldest `Limit` of them (`Considered`), and `OldCases` are there before the first. The
pipeline has the phases `ensure`, `check`, `enrich`, `sync` with `ptodo` as the rest
of the current loop and `fetch` as the initial fetch in progress; the tick has
`list`, `nvd`, `kevlist`, `catalogue`, `kev`, `epss`, `sync`. `act[a]` is a change of
publication in progress: status read (`gates`), scores read (`mark`), status written
(`log`), event appended. Two histories of the model: `torn` are the cases whose last change
of publication died between its two statements, or was made while another one was
between them, and a change that does neither takes its case out again (`Torn`);
`overtaken` are the cases whose initial fetch NVD had overtaken when it was stored, until a
later record of the case is stored.

| code | actions |
|---|---|
| `collectInterpretedEvidence`, `consolidateArticleCveEvidence` | `StartConsolidation`, `EnsureCase` |
| `runCaseConsolidationStage:75` | `CheckNew`, `SyncTouched`, `NextPhase` |
| `runInitialEnrichment`, `persistObservation` | `BeginEnrichment`, `FetchInitial`, `PersistInitial`, `FetchFails`, `SyncEnriched` |
| `runMaintenanceTick`, NVD | `StartTick`, `ListTracked`, `RefreshNvd`, `FinishNvd` |
| KEV, EPSS | `ListForCatalogue`, `FetchCatalogue`, `RefreshKev`, `FinishKev`, `FinishEpss` |
| `syncAllCasePublicationsFromCvss` | `SyncNextCase`, `FinishTick` |
| `syncCasePublicationFromCvss` | `SyncCase`, `SyncGates`, `Mark`, `Log` |
| `approveCase`, `unpublishCase` | `Analyst`, then `Mark`, `Log` |

Abstractions:

- Of a value only what the gates look at is kept: a CVSS base of 9 or more, a KEV
  listing. `not_found` and lower scores are "quiet".
- The read and the append of `persistObservation` are one step. When the value
  read equals the new one nothing is written, which is the same as writing it then;
  otherwise the step is at the append.
- A source that cannot be fetched, a statement that throws and a dying process all
  end the tick before its sync and keep the cursor; so do they for the pipeline.
- The pages of an NVD window are one fetch. `aged` may lag behind, which covers
  that the end of the window is computed before the fetch.
- The loops over cases go in any order. Interpretations only come; that they are reopened
  and completed again, and the links, are in `CaseEvidence`.
- One pipeline and one tick: consolidation and maintenance are sequential and leave
  no workers behind, so that their locks exclude a second one.
- `first_seen_article_id` and the timestamps of `markEnriched` are left out.

### CaseEvidence

`completed` is the sequence of completed interpretations in the order of
`completed_at`, `link[c][a]` the row of `cve_case_articles`, `history` the verdicts in
`review_events`. The stage has the phases `idle`, `ensure`, `attach`; `act[n]` is an
analyst's verdict between its statements. `untraced` remembers links whose request
died before it appended its event.

| code | actions |
|---|---|
| `listCompletedByName`, `collectInterpretedEvidence` | `Window`, `Collected`, `Collect` |
| `consolidateArticleCveEvidence` | `EnsureCase`, `Attach` with `Upserted` |
| `recordHumanVerdict` | `ReadLink`, `UpdateState`, `AppendEvent` |
| `recordSuccess`, `recordFailure` of the task queue | `Complete`, `Reopen` |
| a run or a request dies | `StageFails`, `RequestDies` |

Abstractions: evidence is the number of the interpretation it comes from; ties of
`completed_at` do not occur; the loops over cases and evidence go in any order.

### ArticleLifecycle

`status`, `text`, `mentions`, `digest`, `vector`, `retries`, `original` are columns of an
article (`original` the id that `markDuplicate` writes into `processing_error`).
`queue` holds what the stage `ppc` has listed and not finished; `flight[a]` is a
statement of the CVE scan or the digest stage in between, and `late[a]` where the digest
workers that a failed run has left behind are with an article: they still take what was
listed, under no lock and beside the next run.

| code | actions |
|---|---|
| `buildCveMvpGraph`, `buildLegacyGraph` | `NextStage` with `StageAfter` |
| the listings of `article.repository.ts` | `Candidates` |
| ingest, filter, extraction, entity stages | `Discover`, `Filter`, `Extract`, `ExtractEntities` |
| `runCveScanStage`, `persistCveMentions` | `DeleteMentions`, `InsertMentions`, `ScanFails` |
| `runArticleDigestStage` | `Claim`, `SaveDigest`, `AuditDigest`, `DigestFails`, with `Claimed`, `Saved`, `Reverted` |
| `runWithConcurrency` in it, once a worker has thrown | `DigestWorkerThrows`, `LateClaim`, `LateSave`, `LateAudit`, `LateFails`, `LateThrows` |
| a stage that throws, a process that dies | `StageThrows`, `ProcessDies` |
| `embedArticles` | `IgnoreShortText`, `SaveEmbedding`, `RecordEmbeddingFailure` |
| `runDedupStage`, `classifyArticleDedup` | `MarkDuplicate`, `KeepUnique` with `TextMatches`, `TitleMatches` |
| event and classification stages | `Group`, `SaveClassification`, `ClassificationFails` |
| `requeueArticleForFilter`, `reembedForModelChange` | `Requeue`, `ChangeModel`, `Reembed` |

Abstractions: what a page, a digest or a classification says is left out; filter,
extraction and ingest decide at will; every article of the model mentions a CVE id;
`published_at` is the number of the article and decides every listing; the look-up of
semantic candidates changes nothing and is left out. The stages after classification
do not touch articles. LLM calls are enabled. Bound: a digest worker throws only while no
other one's leftovers are at work, so that there is one list of leftovers at a time.

### CheapFilter

`decideCheapFilter` is a tree of operators over the signals of an article, its age and
the inventory: `EscapeHatch`, `NegativeDominance`, `CyberContext` (the gates),
`Points` and `Normalized` (the score), `Dropped` and `Band`. A run reads the inventory
once (`StartRun`), and for each article saves the decision (`SaveDecision`) and then
the status (`SetStatus`); `RunDies` may come in between. `Monitor`, `Requeue` and
`TimePasses` are the environment.

Abstractions: keywords are the strongest class that is found, source tiers are
merged into three with the same effect, a product's name or alias in the text is a
mention of the product, and publication dates are the four ages that the score tells
apart. The listing window is left to `ArticleLifecycle`.

### EventGrouping and ArticleMembership

`member[e]` are the committed rows of `event_articles`, `event[e]` the grouping key, the
stored count, and the article whose vector it has. `act[w]` is a change of membership
between its statements; the count of `attachArticle` and `detachArticle` is evaluated
(`CountTo`, `CountFrom`) and stored (`StoreTo`, `StoreFrom`) in two steps, because a
statement that waits for a row lock stores what its subquery read before. A move
keeps the rows it wrote locked and unseen until `Commit`; `WaitsFor` and
`AbortDeadlock` are PostgreSQL's locks and its deadlock detection: one writer of a
circle of moves that wait for each other, of any length, is aborted.

| code | actions |
|---|---|
| `runEventStage` | `StartRun`, `AttachToEvent`, `CreateEvent`, `CopyVector`, `MarkGrouped`, `FinishGrouping` |
| `decideEventGrouping`, `applyComparison` | `Decided`, `Candidates` |
| `sweepMissingEventEmbeddings` | `Sweep`, `FinishRun` |
| `attachArticle`, `detachArticle` of `event.repository.ts` | `Insert`, `CountTo`, `StoreTo`, `Delete`, `CountFrom`, `StoreFrom` |
| editorial operations | `AttachArticle`, `DetachArticle`, `MoveArticle`, `CreateFromArticles`, `Commit` |
| deaths | `RunDies`, `RequestDies` |

`ArticleMembership` knows which events an article is in, which articles are marked and
which ones analysts took out. `Move` is one step there. The mapping takes the committed
rows and the status `GROUPED`.

Abstractions: a grouping key is one of `Keys` or unknown; an article is at distance 0
of its own vector and at any distance of the others; the comparator may answer
anything; `CreateFromArticles` commits as a whole, since all its rows are new.
`torn` remembers events whose count a writer that died left behind, or that two writers
changed at the same time, and `taken` the articles that analysts detached. An article
that is embedded again after it was grouped (`Reembed` of `ArticleLifecycle`) does not
come back to the stage here.

### EventAssessment

`event[e]` has a rank (severity and urgency), a confidence, the impact (vendor, product or
none), approval, and whether its summary is current; `link[e][a]` the relationship;
`later` the order of `last_seen_at`; `last[e]` and `after[e]` the last alert within the
window and what was attached since. The stages list the newest `Limit` of what they ask
for: articles in `Listings`, events in `Newest`, where `Behind(e, S)` says that others push
`e` out.

| code | actions |
|---|---|
| `runEventStage` | `StartRun`, `FoundEvent`, `AttachArticle`, `CountSources`, `MarkGrouped` |
| `runClassificationStage`, `rollUpEventAssessment` | `StartClassification`, `SaveClassification`, `ReadEvents`, `UpdateAssessment` with `RollUp`, `RolledUp`, `ClassificationFails` |
| `runSummaryStage`, `saveLlmSummary` | `StartSummaries`, `ReadArticles`, `SaveSummary`, `SummaryFails` |
| `runAlertStage`, `decideAlert` | `StartAlerts`, `DecideAlert` with `NewMaterial`, `Gate`, `Decision`, `CreateAlert` |
| `updateEventFields`, `approveEvent`, `unpublishEvent`, `attachArticleToEvent` | `UpdateFields`, `CheckApproval`, `Approve`, `Unpublish`, `AttachAsAnalyst`, `CountAsAnalyst` |
| the suppression window | `WindowElapses` |

Abstractions: severity, urgency and confidence are each whether they pass the gate of
confirmed alerts; a roll-up takes the maximum of severity and of urgency separately, and
the gate needs both. The model may answer anything in `Ranks` and drafts anything in
`Drafts`. Material updates are attached by the event stage alone, which runs under the
lock and before the summaries of its run, so that none is attached while a summary is
written; what analysts attach is not material.

`AlertPolicy` knows the tier of the last alert, the number of alerts (`sent`, so that an
alert that repeats the last one is a step and no stutter) and whether articles joined
since. Its `Send` is one step; in the stage a decision and its alert are two, and
articles join, events change and the window elapses in between. The mapping takes `last`
and `sent` as they are and as `news` the events with articles in `after`.

### WorkspaceConfig

`tx[w]` is the request that writer `w` serves: its phase, its row, its arguments and what
it has counted. `feedLock` is the advisory lock of `setFeedActive`, `rowLock[p]` the
open transaction that wrote a product's row.

| code | actions |
|---|---|
| `createFeed`, `setFeedActive` | `CreateFeed`, `InsertFeed`, `ActivateFeed`, `DeactivateFeed`, `LockFeeds`, `ReadFeed`, `CountFeeds`, `PauseFeed` |
| `createProduct` | `CreateProduct`, `InsertProduct`, `CommitProduct` |
| `updateProduct`, `replaceProductAliases` | `UpdateProduct`, `UpdateRow`, `WriteAliases`, `CommitUpdate` |
| `setProductActive` | `SetProductActive`, `CountProducts`, `PauseProduct`, `ResumeProduct` |
| an error in a transaction | `Rollback` |

Abstractions: one vendor, so that product names are unique; criticality, volume, URL
and trust are overwritten whole and left out; the last UPDATE of a transaction and its
COMMIT are one step; two edits that swap the names of two products, which PostgreSQL
resolves by aborting one, are left out.

## 3. Runs

| run | bounds | shows |
|---|---|---|
| `tasks_faults` | 1 article, 2 runs, 3 attempts, 2 chunks of CVE ids, 1 retry, 1 fault | all safety invariants and action properties of the queue, the budget of requests among them, and that it implements `TaskQueue` |
| `tasks_liveness` | 2 articles, window of 1, 2 lanes, 1 run, 2 attempts | the newest articles settle, actionable ones get interpreted, while they are in the window |
| `cases_liveness` | 1 case, 1 change, starting quiet or as an alert, 1 fault, 1 analyst action | `PublicationConverges`, `HistoryAgrees` |
| `cases_alerts` | 2 cases, one of them old, 2 reports in a window of 1, 1 change at any time, 1 failed fetch | `OnlyOvertakenMissed`, `HighAlertsPublished`, `ClearedByNvd` |
| `evidence_safety` | 2 articles, 2 CVE ids, 2 analysts, window of 1, 3 interpretations, 2 verdicts, 1 death | traces of verdicts, evidence moves forward and converges |
| `articles_lifecycle` | 3 articles, two with one text, two with one title; window of 2, 2 retries, 2 troubles, all profiles | duplicates, vectors, mentions; every article settles, or is stranded as section 5 says |
| `filter_cascade` | 1 article with any signals, a quiet and a noisy product of one vendor | severe articles, agreement of the row, monitoring |
| `grouping_safety` | 2 articles, 1 key, 2 analysts, 2 troubles | keys, counts, progress, `ArticleMembership` |
| `assessment_safety` | 2 articles, 2 events, one of them old, windows of 1, 1 analyst, 1 trouble | alerts, approval, `AlertPolicy`; material updates are alerted and summarized while their event is not pushed out |
| `config_safety` | 2 requests, 2 feeds, 2 products, 2 names | feeds, edits |
| `tasks_crash`, `evidence_verdict` | as small as shows it | claims that the code does not keep, see 5 |

Why the bounds are enough. A conflict in the queue needs two holders of one task, so two
runs; a third run is symmetric to one of them. One fault lets a run fail with leftovers
beside the next run. The claims, failures and analysts of different tasks meet only in
the batch, the lanes and the window: `tasks_liveness` has two articles on two lanes, and a
window of one that the newer one takes. Three attempts are needed before a backoff of more
than zero is entered. Two chunks are enough to tell a budget of invocations from one of
requests; tries of the client multiply it in the same way (`Requests`), so that one is
enough for TLC, and `CallsBounded` is about any number of them. In `CasePublication` cases meet only in the window of reports and in
the cursor, so two of them show a cursor that goes past one because of the other, and one
report that keeps another one out; the gates and the history of one case do not depend on
another, which leaves room for an analyst in `cases_liveness`. One change, before or after a fetch or
a listing, is enough for a score to be old; `OnlyOvertakenIsMissed` is about any number of
them. A window of one makes two interpretations compete for it; a window of two makes three
articles compete and lets two digest workers work at once, which leftovers need. Two articles with
one text and an overlap with a title make both tests of duplicates meet; cycles of
duplicates need two. Two analysts and the stage are three writers of one event, enough
for two moves that wait for each other beside a third writer. Events meet
only in the newest-first listings of the assessment: two articles, a founder and an update,
show the races of the statements of one event, and a second event, older than the model, in
windows of one how one pushes the other out. One trouble is an edit, an attachment or an
approval of an analyst, a failed call or a death, each beside a run; `AlertsBounded`,
`ApprovedWithImpact` and `ImplementsPolicy` are theorems for any number of them. The filter treats articles one by one, so one article with every
combination of signals is every article. A count of two active rows that two requests
share is the whole race of the configuration. Every `TypeOK` is a theorem; the run of
the queue checks it as well. `HistoryAgrees` needs two actors at one case and a death:
the pipeline, the tick and an analyst with one fault.

Fairness. A pipeline step is weakly fair in every module, because the scheduler starts
the next run after each end (`setTimeout` after each end whatever its outcome) and
awaits return: `RunStep(r)`, `PipelineStep`, `StageStep`, `RunStep`. So are the digest
workers that a failed run left behind (`LateStep`), the tick
(`TickStep`; HTTP requests are aborted after 15 s), time (`BackoffElapses`,
`TimePasses` of `CasePublication`) and the statements of a request of an analyst
in `EventGrouping` (`Write`), since a transaction that never ended would keep the stage
waiting. Only the claim `EveryUpdateAlerted` also takes it that time passes
(`TimedSpec`). No fairness makes a fault, a new request, a change of the sources or the
extraction of an article happen. Faults are bounded in number, so that a run or tick
succeeds in the end; liveness of the queue is stated for runs without faults, since a
crash really can leave a row behind (`tasks_crash`).

Deadlock is checked in every run.

## 4. Theorems

All hold for every value of the constants that meets the assumptions of the module;
those are the types of the constants and, where something is counted, finiteness.

| module | theorems |
|---|---|
| `AnalysisTasksProofs` | `TypeCorrect`, `LockIsHeld`, `WorkIsExclusive`, `RowsOwned`, `ManualAnswersStay`, `CompletedStays`, `CallsBounded`, `RecordsHold`, `InterpretationsFollow`: every safety property of `tasks_faults` |
| | `QueueImplemented`: the refinement of `TaskQueue` |
| `CasePublicationProofs` | `TypeCorrect`, `OnlyOvertakenIsMissed`, `HistoryStaysTrue` |
| `CaseEvidenceProofs` | `TypeCorrect`, `VerdictsLeaveTraces`, `EvidenceMovesForward` |
| `ArticleLifecycleProofs` | `TypeCorrect`, `DuplicatesLead`, `EmbeddedArticlesHaveVectors` |
| `CheapFilterProofs` | `TypeCorrect`, `SevereStays`, `RowsStayInAgreement`, `MonitoringSafe` |
| `EventGroupingProofs` | `TypeCorrect`, `KeysIdentifyEvents`, `CountsStayExact`, `MembershipImplemented` |
| `EventAssessmentProofs` | `TypeCorrect`, `ApprovedEventsHaveImpact`, `AlertsWithinBudget`, `PolicyImplemented` |
| `WorkspaceConfigProofs` | `TypeCorrect`, `LastFeedStays`, `SavesAreWhole` |

`WorkExclusive` says nothing of the rows, so it is not inductive: a second claim is
excluded because the row is `running`. It is proved together with `WorkerOwnsRow`,
which ties the position of a worker to the status of its row; each of the two needs
the other when a row is claimed, answered, failed or retried. The lock plays no part
in it: exclusion also holds between leftovers and the next run. From the pair follow
that manual answers stay and that the mapped holders of `TaskQueue` are at most one.
`CallsWithinBudget` needs to count calls in progress: the requests for a task are at most
those of so many invocations (`Spent`, a product whose laws are `Spending`), namely of its
attempts and the one that is out, if there is one; and a row that can be claimed has room
for one more in the budget (`BudgetOf`). `ExhaustedOrAnswered` and `InterpretationAfterDisposition` need
that a row that waits for an analyst is out of every run's hands, which is `WorkerOwnsRow`,
and that an interpretation was let in by a disposition that is still actionable or was
taken back for want of an audit row (`RowSound`, `LetIn`, together `Records`).
The type invariant carries `LanesLive` (a working drain has
a lane), which `WorkerThrows` relies on when it counts down.

`OnlyOvertakenMissed` speaks of the stored cursor only. What a tick is about to do is in
`Window`: for a case whose stored score is old and that is not overtaken, either its revision
is later than everything in the tick's hands and than the cursor it will store (`Ahead`), or
the record with the new score is among those the tick still has to store. `Existing` is
needed for `ListTracked`, which drops records of unknown cases: a case with a stored
score exists. NVD may change any record at any time, also between the pipeline's fetch and
its store; the store itself decides whether the case is overtaken (`Overtaken`), and only
then may its score be behind the cursor. That this exception is used is what
`CasesOvertaken.cfg` shows.

`MembershipImplemented` needs to know what a statement of a move finds: `Shape` says
which rows a change has written by its step, `Held` that the rows of two transactions
are disjoint and that a row a move has read stays until it commits, and `Placing` that
the article the stage is at is in an event once the attachment is written, unless an
analyst took it out. Together with the types they are inductive (`Inv`); each writer's
statement is then one abstract step or a stutter. `OneEventPerKey` needs only that the
stage founds an event when no event has the key: the events of analysts have no key, and
the lock keeps a second stage away.

`DuplicatesAnchored` quantifies over sets of duplicates; it is inductive because a new
duplicate points at an article that is present and not one, and leaving the set only
makes anchors. `EmbeddedHasVector` needs that an article listed by a later stage still
has its vector or was `overtaken`. `ApprovedWithImpact` rests on what an approval
between its two statements has checked (`Approvals`).
`LastFeedStays` needs `FeedInv`: a request that is about to pause a feed holds the
advisory lock and there is another active feed. `SavesAreWhole` needs
`SaveInv`: the request between its first write and its COMMIT owns the row, so the aliases
it deleted were all there are. `CheapFilterProofs`
proves the gates by cases and needs `DecisionsSound` (the score of a stored decision fits
its band, and severe metadata are never dropped), since the row outlives the inventory it
was decided by, and `HandStored`, which ties the second statement to the first.

`HistoryAgrees` speaks of cases that no change is at. During a change it takes `History`:
of a case that is not torn one actor at most has its event to write, and what that actor
publishes is what the status is; then its event makes history and status agree.

`VerdictsTraced` needs of a request between its statements that it is about a link it has
read (`ActsKnown`), and of a verdict that stands on a link that consolidation never sets
one. `EvidenceForward` is about numbers of interpretations: `Latest` says that an article
has at most one completed interpretation (`OneEach`), that numbers are given out in
order (`Counted`), and that the evidence the stage holds, or has attached, of an article
is not later than its completed interpretation (`Ordered`). Re-opening a task and
interpreting it again can then only bring a greater number.

`CountExact` holds although two statements of one writer lie between a count and its
store. `Counts` says of every event that is not torn that one writer at a time is changing
it (`Changing`), that what this writer has counted is the number of the members it sees,
its own uncommitted rows included (`Tallied`), and that where the committed count is off
the writer is no transaction; `Busy` ties the writes of the stage to the article it is at.
A second writer, a death and a re-count each put the event into `torn` or out of it.

`AlertsBounded` is about sums over many runs. `Budget` keeps for each event what it may
still be sent without another article (`Spare`): a first alert and its upgrade, or only
the upgrade, or nothing. It needs that an alert on its way without news is an upgrade
(`UpgradeOnly`): the decision lies one step back, and articles may join or the window
elapse since, but neither makes the alert a repetition. `PolicyImplemented` follows from
the same invariant, step by step: a row of `event_articles` is a `Join`, the creation of an
alert a `Send`, every other step but the passing of the window a stutter.

Model-checked only: liveness (`NewestAnalysed`, `ActionableInterpreted`,
`HighAlertsPublished`, `PublicationConverges`, `ClearedByNvd`, `EvidenceConverges`,
`ArticlesSettle`, `MentionsFound`, `ArticlesGrouped`, `MaterialAlerted`,
`MaterialSummarized`), which is out of the prover's reach under fairness. Every other
property of a passing run - invariants, action properties and the three refinements - is
a theorem. The claims of section 5 are false and have counterexamples instead.

## 5. Where the code and its documents disagree

Each of these claims is a definition of its module and has a configuration of its own
under which TLC refutes it. The two that are runs are in `PROJECT.json` with their
quotations; the others are checked by hand, for example
`tlc -config CasesDelisted.cfg MCCasePublication`, and end in a counterexample. Most of
them are the unconditional form of a property of a passing run, which says under what
condition the code keeps it.

| definition, configuration | the code | the claim | what holds |
|---|---|---|---|
| `RunningReclaimed`, run `tasks_crash` | claims take `pending` rows only; `running` rows of a dead run stay | runbook: reclaimed by the next run | `NewestAnalysed` without faults |
| `EveryArticleAnalysed`, `TasksStarved.cfg` | the newest `limit` articles are scheduled, completed ones included; no stage of this profile moves them on, so older ones starve | `docs/plans/cve-mvp-architecture.md:176`: every analysis-ready article is analysed | `NewestAnalysed` |
| `NoWorkOutsideLock`, `TasksLeftovers.cfg` | the first worker that throws ends the run, which unlocks, while the others go on (`concurrency.ts:21`) | `scheduled-run.ts:8`: never concurrently with itself | `WorkExclusive` |
| `InterpretedIsActionable`, `TasksUndecided.cfg` | a disposition that a failed audit took back is decided the other way, and the interpretation it let in stays and is collected (`analysis-task-stage.ts:255`) | `CONTEXT.md:56`: interpretations for actionable articles | `InterpretationAfterDisposition` |
| `NothingMissed`, `CasesOvertaken.cfg` | an old initial fetch is stored after the cursor passed the newer revision (`cases.ts:168`) | runbook: safe in parallel; ADR 0006: no revision is missed | `OnlyOvertakenMissed` |
| `ClearedUnpublished`, `CasesDelisted.cfg` | KEV goes through listed ids only, a delisted case stays public (`maintenance.ts:153`) | `maintenance.ts:22`, ADR 0011 | `ClearedByNvd` |
| `EnrichmentResumed`, `CasesUnresumed.cfg` | a failed first fetch makes a case "not new" (`case-consolidation-stage.ts:78`) | `CONTEXT.md:168`: starts or resumes enrichment | - |
| `HistoryTold`, `CasesUntold.cfg` | a sync takes a case back between the status and the event of an approval: a draft whose latest event is the approval (`review.ts:159`) | runbook: the latest review event explains an unpublished case | `HistoryAgrees` |
| `ConsolidationIdempotent`, run `evidence_verdict` | consolidating an interpretation again sets a decided link back to `mentioned` (`cve-case.repository.ts:285`) | `cve/cases.ts:92`: idempotent | `VerdictsTraced` |
| `ReportedLinked`, `EvidenceStarved.cfg` | the oldest `limit` completed interpretations stay completed, later ones are never collected (`analysis-task.repository.ts:218`) | `case-consolidation-stage.ts:113`: every reported CVE becomes a link | `EvidenceConverges` |
| `DigestEnds`, `ArticlesUndigested.cfg` | when the audit row fails after the digest was saved, the status goes back to `ENTITY_EXTRACTED`; an article with a digest is not listed again | `CONTEXT.md:176`: ends at `DIGESTED` | `ArticlesSettle` |
| `DigestingReclaimed`, `ArticlesStranded.cfg` | a leftover worker saves a digest while the next run claims the article and dies: `DIGESTING` with a digest, never listed | `CONTEXT.md:176`: reclaimed on the next pass | `ArticlesSettle` |
| `EventsWhole`, `GroupingHalf.cfg` | a run that dies after `createEvent` leaves an event without articles (`event-stage.ts:119`) | `docs/engineering-notes/deployment-and-scheduling.md:36`: never a half-written event | `OneEventPerKey`, `ArticlesGrouped` |
| `SeverityPinned`, `AssessmentSoftened.cfg` | the maximum is taken of the event as it was read; what an analyst raised since is written over (`event-assessment.ts:32`) | `event-assessment.ts:9`, `docs/design/limitations.md:13`: never downgraded | - |
| `ApprovedHasImpact`, `AssessmentImpact.cfg` | an edit between the check and the write of an approval (`event-editorial.ts:257`) | `CONTEXT.md:104`, ADR 0002: approval requires impact | `ApprovedWithImpact` |
| `EveryUpdateAlerted`, `AssessmentUnalerted.cfg` | the newest `limit` open events are looked at, which alerted ones never leave; an update whose run died is pushed out (`event.repository.ts:343`) | `alert-decision.ts:14`, `docs/engineering-notes/early-warning-redesign.md:13`: never suppressed, never silence | `MaterialAlerted` |
| `ActiveProductRemains`, `ConfigProducts.cfg` | two requests count two active products each and pause one each (`workspace-inventory-writes.ts:242`) | the comment of `setProductActive`, `docs/design/workspace-config-update-flow.md:68` | - |
| `LastFeedMayPause`, `ConfigZeroFeeds.cfg` | pausing the last active feed is refused (`workspace-feed-writes.ts:105`) | `docs/design/workspace-config-update-flow.md:42`: allowed, with a warning | `ActiveFeedRemains` |

Observations that contradict no document:

- Two syncs of one case append the same review event twice.
- `saveLlmSummary` overwrites severity and urgency with those of the summary, lower ones
  included; the rule of `event-assessment.ts` is about classifications only.
- Overlapping writers of one event may store a count of sources that is not the number of
  its members, until the next of them counts again; `CountExact` says when it is.
- `requeueArticleForFilter` keeps `retry_count`. `findEarlierByContentHash` asks for
  another article, not for an earlier one nor for one that was kept.
- The candidates of deduplication are cut after those in `ENTITY_EXTRACTED` fill the
  limit, so that embedded duplicates may be grouped before they are looked at.
- The CVE scan takes the newest `limit` articles of a status they never leave in this
  profile; older ones are not scanned again after a crash (`MentionsFound` says "among
  the newest").
- An article attached again by an analyst keeps its `created_at`, so a material update
  made this way does not count as new since the last alert. An event without a vendor
  suppresses material updates.
- A classification that fails after `saveClassification` leaves the article classified
  and its events not rolled up.
- A product that is inactive already cannot be paused again while one other is active.
- With a monitored vendor and business talk an article is dropped at the second gate
  which, from a trusted source and with no vendor, would have passed the first; that is
  why `MonitoringNeverHides` leaves out `NegativeDominance`, and noisy products.

What holds nevertheless, and is checked: leftovers never share a task with the next
run; publication settles on the gates although the syncs interleave; analysts cannot be
overwritten in the queue; no key gets two events; no move loses an article; alerts do
not repeat.

## 6. Plan

The components of section 1 that change state are modelled. What is worth doing next, in
this order:

1. A composition of `ArticleLifecycle` with `AnalysisTasks`, to replace `ExtractArticle`
   and `WithCves`.
2. The pages of an NVD window, with a model of the remote list (`enrichment-http.ts:99`).
3. Articles embedded again after they were grouped, in `EventGrouping`: an article whose
   key was unknown then may found or join a second event.

The configurations keep to two actors per role and one or two rows.

## 7. Not modelled

- Text matching, prompts, schemas, embedding distances: pure functions of strings and
  vectors; their outcomes are inputs of the models. HTTP, RSS and HTML parsing are I/O.
- The web UI, the portal, the public pages and the dashboards read what is modelled, or
  call it. Monitoring writes logs.
- The evaluation runners work offline on files and samples. The human-review server
  appends labels to JSONL files, where two overlapping requests may both append, and
  rewrites the files of gold incidents whole. Digest gold labels are one validated upsert.
- The BullMQ queue wraps single stages; retries and delivery are the library's. It takes
  no advisory lock, so a stage may run beside a scheduled run; what leftovers can do to
  the task queue is in `AnalysisTasks`, and to digests in `ArticleLifecycle`; the other
  stages are modelled under the lock.
- The agents under `src/agents` and `src/nodes` are an earlier prototype in memory.
- The import of the monitored inventory from a file, feed health and EPSS values decide
  nothing that is modelled.
