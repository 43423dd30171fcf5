-------------------------- MODULE ArticleLifecycle --------------------------
(***************************************************************************)
(* The life of an article through the stages of the pipeline, in each of   *)
(* its profiles: processing_status, the queues the stages read from it,    *)
(* and what they leave in the row (text, CVE mentions, digest, embedding,  *)
(* duplicate), while analysts send ignored articles back to the filter and *)
(* an operator changes the embedding model.                                *)
(*                                                                         *)
(* The lock of the pipeline lets one run at a time through the stages; a   *)
(* stage lists its articles once, the newest Limit of them, and every      *)
(* statement of it commits by itself.  Only the workers of a digest stage  *)
(* that one of them ended with an error go on without the lock.  Articles  *)
(* are numbered in the order of their publication.                         *)
(***************************************************************************)
EXTENDS Naturals, FiniteSets

CONSTANTS
  Articles,
  Profiles,     \* pipeline profiles
  SameText, SameTitle,  \* articles that share their text, or their title
  Limit,        \* articles one stage takes in one run
  MaxRetries,   \* embeddingMaxRetries
  MaxTroubles,  \* bound: runs that die, calls that fail, requests, model changes
  None

ASSUME LifecycleAssumption ==
  /\ Articles \subseteq Nat /\ IsFiniteSet(Articles) /\ None \notin Nat
  /\ Profiles \subseteq {"cve-mvp", "analyst-eval", "full"}
  /\ {SameText, SameTitle} \subseteq SUBSET Articles
  /\ {Limit, MaxRetries} \subseteq Nat \ {0}
  /\ MaxTroubles \in Nat

VARIABLES
  profile,   \* the profile this scheduler runs
  (* columns of articles, and cve_mentions *)
  status,    \* processing_status
  text,      \* clean_text and content_hash are there
  mentions,  \* the CVE mentions are there
  digest,    \* llm_article_digest is there
  vector,    \* embedding
  retries,   \* retry_count
  original,  \* the article named in the processing_error of a duplicate
  (* the run *)
  ppc,       \* its stage
  queue,     \* articles the stage has not finished
  flight,    \* the statement its work on an article is at
  late,      \* and that of the workers left over from a failed digest stage
  (* history of the model *)
  overtaken, \* articles a change of the model has rewound under a stage
  (* bounds *)
  troubles

row == <<status, text, mentions, digest, vector, retries, original>>
vars == <<profile, row, ppc, queue, flight, late, overtaken, troubles>>

Statuses ==
  {"absent", "NEW", "EXTRACTION_PENDING", "EXTRACTION_PENDING_LOW_PRIORITY",
   "EXTRACTION_FAILED", "EXTRACTION_SUCCESS", "ENTITY_EXTRACTED", "DIGESTING", "DIGESTED",
   "EMBEDDING_PENDING", "EMBEDDED", "GROUPED", "CLASSIFIED", "IGNORED", "DUPLICATE"}

Stages ==
  {"idle", "ingest", "filter", "extraction", "cve_scan", "entities", "digest",
   "embeddings", "dedup", "events", "classification"}

Steps == {"off", "listed", "insert", "llm", "audit"}

TypeOK ==
  /\ profile \in Profiles
  /\ status \in [Articles -> Statuses]
  /\ text \in [Articles -> BOOLEAN]
  /\ mentions \in [Articles -> BOOLEAN]
  /\ digest \in [Articles -> BOOLEAN]
  /\ vector \in [Articles -> {"none", "old", "current"}]
  /\ retries \in [Articles -> Nat]
  /\ original \in [Articles -> Articles \cup {None}]
  /\ ppc \in Stages
  /\ queue \subseteq Articles
  /\ flight \in [Articles -> Steps] /\ late \in [Articles -> Steps]
  /\ overtaken \subseteq Articles
  /\ troubles \in Nat

Init ==
  /\ profile \in Profiles
  /\ status = [a \in Articles |-> "absent"]
  /\ text = [a \in Articles |-> FALSE]
  /\ mentions = [a \in Articles |-> FALSE]
  /\ digest = [a \in Articles |-> FALSE]
  /\ vector = [a \in Articles |-> "none"]
  /\ retries = [a \in Articles |-> 0]
  /\ original = [a \in Articles |-> None]
  /\ ppc = "idle" /\ queue = {} /\ flight = [a \in Articles |-> "off"]
  /\ late = [a \in Articles |-> "off"]
  /\ overtaken = {}
  /\ troubles = 0

Trouble == troubles < MaxTroubles /\ troubles' = troubles + 1

With(S) == {a \in Articles : status[a] \in S}

-----------------------------------------------------------------------------
(* The queues.                                                             *)

FirstOf(S, Before(_, _)) == {a \in S : Cardinality({b \in S : Before(b, a)}) < Limit}

Newest(S) == FirstOf(S, >)

(* Mutant of NeedingDigest: claims of a run that died are not listed.      *)
NeedingDigestUnclaimed == Newest({a \in With({"ENTITY_EXTRACTED"}) : ~ digest[a]})

(* listArticlesNeedingDigest.                                              *)
NeedingDigest == Newest({a \in With({"ENTITY_EXTRACTED", "DIGESTING"}) : ~ digest[a]})

(* listExtractionCandidates: low priority comes last.                      *)
ExtractionCandidates ==
  LET low == With({"EXTRACTION_PENDING_LOW_PRIORITY"})
      Before(b, a) == IF (a \in low) = (b \in low) THEN b > a ELSE a \in low
  IN FirstOf(With({"EXTRACTION_PENDING"}) \cup low, Before)

(* The dedup stage concatenates two lists and cuts the result.             *)
DedupCandidates ==
  LET waiting == Newest(With({"ENTITY_EXTRACTED"}))
      embedded == Newest(With({"EMBEDDED"}))
      Before(b, a) == IF (a \in waiting) = (b \in waiting) THEN b > a ELSE b \in waiting
  IN FirstOf(waiting \cup embedded, Before)

Candidates(s) ==
  CASE s = "ingest" -> With({"absent"})
    [] s = "filter" -> Newest(With({"NEW"}))
    [] s = "extraction" -> ExtractionCandidates
    [] s \in {"cve_scan", "entities"} -> Newest(With({"EXTRACTION_SUCCESS"}))
    [] s = "digest" -> NeedingDigest
    [] s = "embeddings" -> Newest(With({"ENTITY_EXTRACTED", "EMBEDDING_PENDING"}))
    [] s = "dedup" -> DedupCandidates
    [] s = "events" -> Newest(With({"EMBEDDED"}))
    [] s = "classification" -> Newest(With({"GROUPED"}))
    [] s = "idle" -> {}

(* buildCveMvpGraph and buildLegacyGraph, for the stages of articles.      *)
StageAfter(s) ==
  CASE s = "idle" -> "ingest"
    [] s = "ingest" -> "filter"
    [] s = "filter" -> "extraction"
    [] s = "extraction" -> IF profile = "cve-mvp" THEN "cve_scan" ELSE "entities"
    [] s = "cve_scan" -> "idle"
    [] s = "entities" -> "digest"
    [] s = "digest" -> IF profile = "analyst-eval" THEN "idle" ELSE "embeddings"
    [] s = "embeddings" -> "dedup"
    [] s = "dedup" -> "events"
    [] s = "events" -> "classification"
    [] s = "classification" -> "idle"

NextStage ==
  /\ queue = {}
  /\ ppc' = StageAfter(ppc)
  /\ queue' = Candidates(ppc')
  /\ UNCHANGED <<profile, row, flight, late, overtaken, troubles>>

At(s, a) == ppc = s /\ a \in queue

Done(a) == queue' = queue \ {a}

(* The stage at s is done with a, and all it has changed is the status.    *)
Becomes(a, s) ==
  /\ status' = [status EXCEPT ![a] = s]
  /\ Done(a)
  /\ UNCHANGED <<profile, mentions, digest, ppc, flight, late, overtaken>>

-----------------------------------------------------------------------------
(* Ingest, filter, extraction and entities.                                *)

(* ingestRssFeeds: a is in a feed, or not yet.                             *)
Discover(a) ==
  /\ At("ingest", a)
  /\ \E s \in {"NEW", "absent"} : Becomes(a, s)
  /\ UNCHANGED <<text, vector, retries, original, troubles>>

(* The decision of the cheap filter is saved first; it is made again when  *)
(* the run dies before the status.  Only the full profile drops articles.  *)
Filter(a) ==
  /\ At("filter", a)
  /\ \E s \in {"EXTRACTION_PENDING", "EXTRACTION_PENDING_LOW_PRIORITY"}
              \cup (IF profile = "full" THEN {"IGNORED"} ELSE {}) : Becomes(a, s)
  /\ UNCHANGED <<text, vector, retries, original, troubles>>

Extract(a) ==
  /\ At("extraction", a)
  /\ \E s \in {"EXTRACTION_SUCCESS", "EXTRACTION_FAILED"} :
       /\ Becomes(a, s)
       /\ text' = [text EXCEPT ![a] = s = "EXTRACTION_SUCCESS"]
  /\ UNCHANGED <<vector, retries, original, troubles>>

ExtractEntities(a) ==
  /\ At("entities", a)
  /\ Becomes(a, "ENTITY_EXTRACTED")
  /\ UNCHANGED <<text, vector, retries, original, troubles>>

-----------------------------------------------------------------------------
(* The CVE scan, which leaves the status as it is.                         *)

DeleteMentions(a) ==
  /\ At("cve_scan", a) /\ flight[a] = "off"
  /\ mentions' = [mentions EXCEPT ![a] = FALSE]
  /\ flight' = [flight EXCEPT ![a] = "insert"]
  /\ UNCHANGED <<profile, status, text, digest, vector, retries, original, ppc, queue,
                 late, overtaken, troubles>>

(* Mutant of InsertMentions: the deletion comes after it.                  *)
InsertMentionsFirst(a) ==
  /\ At("cve_scan", a) /\ flight[a] = "insert"
  /\ Done(a)
  /\ mentions' = [mentions EXCEPT ![a] = FALSE]
  /\ flight' = [flight EXCEPT ![a] = "off"]
  /\ UNCHANGED <<profile, status, text, digest, vector, retries, original, ppc, late,
                 overtaken, troubles>>

InsertMentions(a) ==
  /\ At("cve_scan", a) /\ flight[a] = "insert"
  /\ Done(a)
  /\ mentions' = [mentions EXCEPT ![a] = TRUE]
  /\ flight' = [flight EXCEPT ![a] = "off"]
  /\ UNCHANGED <<profile, status, text, digest, vector, retries, original, ppc, late,
                 overtaken, troubles>>

(* A statement throws: the status is written as it was read.               *)
ScanFails(a) ==
  /\ At("cve_scan", a)
  /\ Trouble
  /\ Done(a)
  /\ flight' = [flight EXCEPT ![a] = "off"]
  /\ UNCHANGED <<profile, row, ppc, late, overtaken>>

-----------------------------------------------------------------------------
(* The digest stage works on several articles at a time.  What a worker    *)
(* does to the row of its article does not depend on whether the run it    *)
(* belongs to is still there.                                              *)

OtherColumns == <<text, mentions, vector, retries, original>>

(* claimArticleForDigest.                                                  *)
Claimed(a) ==
  /\ status' = [status EXCEPT ![a] = "DIGESTING"]
  /\ UNCHANGED <<profile, OtherColumns, digest, overtaken, troubles>>

(* saveArticleDigest.                                                      *)
Saved(a) ==
  /\ digest' = [digest EXCEPT ![a] = TRUE]
  /\ status' = [status EXCEPT ![a] = IF profile = "analyst-eval" THEN "DIGESTED"
                                     ELSE "ENTITY_EXTRACTED"]
  /\ UNCHANGED <<profile, OtherColumns, overtaken, troubles>>

(* The call, or a statement after it, throws and is caught.                *)
Reverted(a) ==
  /\ Trouble
  /\ status' = [status EXCEPT ![a] = "ENTITY_EXTRACTED"]
  /\ UNCHANGED <<profile, OtherColumns, digest, overtaken>>

(* The claim throws, or a statement of the catch clause: not caught.       *)
Thrown(a, begun) ==
  /\ Trouble
  /\ status' \in {status} \cup
       (IF begun THEN {[status EXCEPT ![a] = "ENTITY_EXTRACTED"]} ELSE {})
  /\ UNCHANGED <<profile, OtherColumns, digest, overtaken>>

Claim(a) ==
  /\ At("digest", a) /\ flight[a] = "off"
  /\ Claimed(a)
  /\ flight' = [flight EXCEPT ![a] = "llm"]
  /\ UNCHANGED <<ppc, queue, late>>

SaveDigest(a) ==
  /\ flight[a] = "llm"
  /\ Saved(a)
  /\ flight' = [flight EXCEPT ![a] = "audit"]
  /\ UNCHANGED <<ppc, queue, late>>

AuditDigest(a) ==
  /\ flight[a] = "audit"
  /\ Done(a)
  /\ flight' = [flight EXCEPT ![a] = "off"]
  /\ UNCHANGED <<profile, row, ppc, late, overtaken, troubles>>

DigestFails(a) ==
  /\ flight[a] \in {"llm", "audit"}
  /\ Reverted(a)
  /\ Done(a)
  /\ flight' = [flight EXCEPT ![a] = "off"]
  /\ UNCHANGED <<ppc, late>>

(* What is left of the work at f when the worker on a is gone: the others  *)
(* finish their articles and take those that nobody has begun, unless      *)
(* there are no others.                                                    *)
Remaining(f, a) ==
  LET rest == [f EXCEPT ![a] = "off"]
      none == [b \in Articles |-> "off"]
  IN {rest} \cup (IF \E b \in Articles : rest[b] \in {"llm", "audit"} THEN {} ELSE {none})

(* runWithConcurrency rejects with the first error and the run ends, but   *)
(* nothing stops its other workers.  Bound: no worker of an earlier run is *)
(* still there.                                                            *)
DigestWorkerThrows(a) ==
  /\ At("digest", a)
  /\ \A b \in Articles : late[b] = "off"
  /\ Thrown(a, flight[a] # "off")
  /\ late' \in Remaining([b \in Articles |-> IF b \in queue /\ flight[b] = "off"
                                            THEN "listed" ELSE flight[b]], a)
  /\ ppc' = "idle" /\ queue' = {} /\ flight' = [b \in Articles |-> "off"]

LateClaim(a) ==
  /\ late[a] = "listed"
  /\ Claimed(a)
  /\ late' = [late EXCEPT ![a] = "llm"]
  /\ UNCHANGED <<ppc, queue, flight>>

LateSave(a) ==
  /\ late[a] = "llm"
  /\ Saved(a)
  /\ late' = [late EXCEPT ![a] = "audit"]
  /\ UNCHANGED <<ppc, queue, flight>>

LateAudit(a) ==
  /\ late[a] = "audit"
  /\ late' = [late EXCEPT ![a] = "off"]
  /\ UNCHANGED <<profile, row, ppc, queue, flight, overtaken, troubles>>

LateFails(a) ==
  /\ late[a] \in {"llm", "audit"}
  /\ Reverted(a)
  /\ late' = [late EXCEPT ![a] = "off"]
  /\ UNCHANGED <<ppc, queue, flight>>

LateThrows(a) ==
  /\ late[a] # "off"
  /\ Thrown(a, late[a] # "listed")
  /\ late' \in Remaining(late, a)
  /\ UNCHANGED <<ppc, queue, flight>>

-----------------------------------------------------------------------------
(* Embeddings.                                                             *)

IgnoreShortText(a) ==
  /\ At("embeddings", a)
  /\ Becomes(a, "IGNORED")
  /\ UNCHANGED <<text, vector, retries, original, troubles>>

SaveEmbedding(a) ==
  /\ At("embeddings", a)
  /\ Becomes(a, "EMBEDDED")
  /\ vector' = [vector EXCEPT ![a] = "current"]
  /\ retries' = [retries EXCEPT ![a] = 0]
  /\ UNCHANGED <<text, original, troubles>>

RecordEmbeddingFailure(a) ==
  /\ At("embeddings", a)
  /\ retries' = [retries EXCEPT ![a] = @ + 1]
  /\ Becomes(a, IF retries[a] + 1 >= MaxRetries THEN "IGNORED" ELSE "EMBEDDING_PENDING")
  /\ UNCHANGED <<text, vector, original, troubles>>

-----------------------------------------------------------------------------
(* Duplicates.                                                             *)

(* Mutant of Present: duplicates are matched as well.                      *)
PresentAtAll == {a \in Articles : status[a] # "absent"}

Present == {a \in Articles : status[a] \notin {"absent", "DUPLICATE"}}

TextMatches(a) ==
  IF a \in SameText THEN {b \in (SameText \cap Present) \ {a} : text[b]} ELSE {}
TitleMatches(a) ==
  IF a \in SameTitle THEN (SameTitle \cap Present) \ {a} ELSE {}

Oldest(S) == {a \in S : \A b \in S : a <= b}

MarkDuplicate(a) ==
  /\ At("dedup", a)
  /\ \E b \in Oldest(IF TextMatches(a) # {} THEN TextMatches(a) ELSE TitleMatches(a)) :
       original' = [original EXCEPT ![a] = b]
  /\ Becomes(a, "DUPLICATE")
  /\ UNCHANGED <<text, vector, retries, troubles>>

(* There is no match, or one by the title that is too long ago.            *)
KeepUnique(a) ==
  /\ At("dedup", a)
  /\ TextMatches(a) = {}
  /\ Done(a)
  /\ UNCHANGED <<profile, row, ppc, flight, late, overtaken, troubles>>

-----------------------------------------------------------------------------
(* Events and classification: see EventGrouping and EventAssessment.       *)

Group(a) ==
  /\ At("events", a)
  /\ Becomes(a, "GROUPED")
  /\ UNCHANGED <<text, vector, retries, original, troubles>>

SaveClassification(a) ==
  /\ At("classification", a)
  /\ Becomes(a, "CLASSIFIED")
  /\ UNCHANGED <<text, vector, retries, original, troubles>>

ClassificationFails(a) ==
  /\ At("classification", a)
  /\ Trouble
  /\ Done(a)
  /\ UNCHANGED <<profile, row, ppc, flight, late, overtaken>>

(* A statement that its stage does not catch throws: the run ends.  (For   *)
(* the digest stage see DigestWorkerThrows.)                               *)
StageThrows ==
  /\ ppc \notin {"idle", "digest"}
  /\ Trouble
  /\ ppc' = "idle" /\ queue' = {} /\ flight' = [a \in Articles |-> "off"]
  /\ UNCHANGED <<profile, row, late, overtaken>>

(* The process dies, and the workers that are left over with it.           *)
ProcessDies ==
  /\ ppc # "idle" \/ \E a \in Articles : late[a] # "off"
  /\ Trouble
  /\ ppc' = "idle" /\ queue' = {} /\ flight' = [a \in Articles |-> "off"]
  /\ late' = [a \in Articles |-> "off"]
  /\ UNCHANGED <<profile, row, overtaken>>

-----------------------------------------------------------------------------
(* Analysts and operators.                                                 *)

(* requeueArticleForFilter: the count of retries stays.                    *)
Requeue(a) ==
  /\ status[a] = "IGNORED"
  /\ Trouble
  /\ status' = [status EXCEPT ![a] = "NEW"]
  /\ UNCHANGED <<profile, text, mentions, digest, vector, retries, original, ppc, queue,
                 flight, late, overtaken>>

(* The scheduler is started again with another embedding model.            *)
ChangeModel ==
  /\ ppc = "idle"
  /\ \E a \in Articles : vector[a] = "current"
  /\ Trouble
  /\ vector' = [a \in Articles |-> IF vector[a] = "current" THEN "old" ELSE vector[a]]
  /\ UNCHANGED <<profile, status, text, mentions, digest, retries, original, ppc, queue,
                 flight, late, overtaken>>

(* Mutant of Rewound: articles that are grouped already are left there.    *)
RewoundUngrouped(s) == IF s = "EMBEDDED" THEN "ENTITY_EXTRACTED" ELSE s

Rewound(s) == IF s \in {"EMBEDDED", "GROUPED", "CLASSIFIED"} THEN "ENTITY_EXTRACTED" ELSE s

(* reembedForModelChange, a script that takes no lock.                     *)
Reembed ==
  LET old == {a \in Articles : vector[a] = "old"} IN
  /\ old # {}
  /\ vector' = [a \in Articles |-> IF a \in old THEN "none" ELSE vector[a]]
  /\ retries' = [a \in Articles |-> IF a \in old THEN 0 ELSE retries[a]]
  /\ status' = [a \in Articles |-> IF a \in old THEN Rewound(status[a]) ELSE status[a]]
  /\ overtaken' = overtaken \cup
       (IF ppc \in {"events", "classification"} THEN queue \cap old ELSE {})
  /\ UNCHANGED <<profile, text, mentions, digest, original, ppc, queue, flight, late, troubles>>

-----------------------------------------------------------------------------
RunStep ==
  \/ NextStage
  \/ \E a \in Articles :
       \/ Discover(a) \/ Filter(a) \/ Extract(a) \/ ExtractEntities(a)
       \/ DeleteMentions(a) \/ InsertMentions(a)
       \/ Claim(a) \/ SaveDigest(a) \/ AuditDigest(a)
       \/ IgnoreShortText(a) \/ SaveEmbedding(a) \/ RecordEmbeddingFailure(a)
       \/ MarkDuplicate(a) \/ KeepUnique(a)
       \/ Group(a) \/ SaveClassification(a)

LateStep == \E a \in Articles : LateClaim(a) \/ LateSave(a) \/ LateAudit(a)

Failure ==
  \/ StageThrows
  \/ ProcessDies
  \/ \E a \in Articles :
       \/ ScanFails(a) \/ DigestFails(a) \/ DigestWorkerThrows(a) \/ ClassificationFails(a)
       \/ LateFails(a) \/ LateThrows(a)

Operator == ChangeModel \/ Reembed \/ \E a \in Articles : Requeue(a)

Next == RunStep \/ LateStep \/ Failure \/ Operator

Spec == Init /\ [][Next]_vars

(* The scheduler starts run after run, and the calls of a run return.      *)
Fairness == WF_vars(RunStep) /\ WF_vars(LateStep)

FairSpec == Spec /\ Fairness

-----------------------------------------------------------------------------
(* Properties.                                                             *)

Duplicates == With({"DUPLICATE"})

(* Every duplicate leads, through the articles it is said to be a          *)
(* duplicate of, to one that is not: no story is lost because its reports  *)
(* are taken for duplicates of one another.                                *)
DuplicatesAnchored ==
  \A S \in SUBSET Duplicates : S # {} => \E a \in S : original[a] \notin S

(* An article past the embedding stage has an embedding, unless the change *)
(* of the model rewound it while a later stage had it in its list: that    *)
(* stage writes its status over the rewound one.                           *)
EmbeddedHasVector ==
  \A a \in Articles :
    status[a] \in {"EMBEDDED", "GROUPED", "CLASSIFIED"} => vector[a] # "none" \/ a \in overtaken

(* Where an article may stay.                                              *)
Settled(a) ==
  \/ status[a] \in {"absent", "EXTRACTION_FAILED", "IGNORED", "DUPLICATE", "GROUPED",
                    "CLASSIFIED", "DIGESTED"}
  \/ profile = "cve-mvp" /\ status[a] = "EXTRACTION_SUCCESS"

(* Its digest is there and its status says that it is still to be written: *)
(* no stage lists it.  A failed audit leaves it like this in analyst-eval, *)
(* a worker left over that claims it again and dies in every profile.      *)
Stranded(a) ==
  digest[a] /\ status[a] \in {"DIGESTING"}
                           \cup (IF profile = "analyst-eval" THEN {"ENTITY_EXTRACTED"} ELSE {})

(* No article is stuck on its way, whichever stage died with it, however   *)
(* often its embedding failed and whatever the newer articles and workers  *)
(* left over from a failed run do; only one that has its digest may be     *)
(* stranded where no stage lists it.                                       *)
ArticlesSettle == []<>(\A a \in Articles : Settled(a) \/ Stranded(a))

(* The mentions that a run which died had deleted are found again, while   *)
(* the article is among the newest Limit.                                  *)
MentionsFound ==
  []<>(profile = "cve-mvp" =>
         \A a \in Newest(With({"EXTRACTION_SUCCESS"})) : mentions[a])

(* Claims of documents and comments that the code does not keep.           *)

(* A digest that succeeds in analyst-eval "ends at DIGESTED".              *)
DigestEnds ==
  []<>(profile = "analyst-eval" =>
         \A a \in Articles : digest[a] => status[a] = "DIGESTED")

(* "Stuck DIGESTING rows (crash) are reclaimed on the next digest pass."   *)
DigestingReclaimed ==
  \A a \in Articles : status[a] = "DIGESTING" ~> status[a] # "DIGESTING"
=============================================================================
