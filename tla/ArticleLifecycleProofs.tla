------------------------ MODULE ArticleLifecycleProofs ------------------------
(* Theorems about ArticleLifecycle, for every finite set of articles, every *)
(* profile and limit, and every number of faults and requests.             *)
EXTENDS ArticleLifecycle, TLAPS

(* The queues list articles that have the status they ask for.             *)
LEMMA NewestFrom == ASSUME NEW S PROVE Newest(S) \subseteq S
BY DEF Newest, FirstOf

LEMMA CandidatesListed ==
  ASSUME NEW s \in Stages
  PROVE  /\ Candidates(s) \subseteq Articles
         /\ s = "events" => Candidates(s) \subseteq With({"EMBEDDED"})
         /\ s = "classification" => Candidates(s) \subseteq With({"GROUPED"})
<1>1. ExtractionCandidates \subseteq Articles
  BY DEF ExtractionCandidates, FirstOf, With
<1>2. DedupCandidates \subseteq Articles
  BY NewestFrom DEF DedupCandidates, FirstOf, With
<1>3. NeedingDigest \subseteq Articles
  BY NewestFrom DEF NeedingDigest, With
<1>4. \A T : With(T) \subseteq Articles
  BY DEF With
<1>5. QED
  BY <1>1, <1>2, <1>3, <1>4, NewestFrom DEF Candidates, Stages

LEMMA AfterStage == ASSUME NEW s \in Stages PROVE StageAfter(s) \in Stages
BY DEF StageAfter, Stages

LEMMA TypeInit == Init => TypeOK
BY LifecycleAssumption DEF Init, TypeOK, Statuses, Stages, Steps

(* What a statement changes beside the row of its article.                 *)
LEMMA DoneTyped == ASSUME TypeOK, NEW a, Done(a) PROVE queue' \subseteq Articles
BY DEF Done, TypeOK

LEMMA BecomesTyped ==
  ASSUME TypeOK, NEW a \in Articles, NEW s \in Statuses, Becomes(a, s)
  PROVE  /\ status' \in [Articles -> Statuses]
         /\ queue' \subseteq Articles
         /\ UNCHANGED <<profile, mentions, digest, ppc, flight, late, overtaken>>
BY DoneTyped DEF Becomes, TypeOK

(* What a worker of the digest stage does to the row of its article.       *)
DigestStep(a) ==
  \/ Claim(a) \/ SaveDigest(a) \/ AuditDigest(a) \/ DigestFails(a) \/ DigestWorkerThrows(a)
  \/ LateClaim(a) \/ LateSave(a) \/ LateAudit(a) \/ LateFails(a) \/ LateThrows(a)

DigestStatuses == {"DIGESTING", "DIGESTED", "ENTITY_EXTRACTED"}

LEMMA DigestRow ==
  ASSUME TypeOK, NEW a \in Articles, DigestStep(a)
  PROVE  /\ \/ status' = status
            \/ \E s \in DigestStatuses : status' = [status EXCEPT ![a] = s]
         /\ digest' \in [Articles -> BOOLEAN]
         /\ troubles' \in Nat
         /\ UNCHANGED <<profile, OtherColumns, overtaken>>
<1> USE DEF OtherColumns, row, DigestStatuses, TypeOK
<1>1. CASE Claim(a) \/ LateClaim(a)
  BY <1>1 DEF Claim, LateClaim, Claimed
<1>2. CASE SaveDigest(a) \/ LateSave(a)
  BY <1>2 DEF SaveDigest, LateSave, Saved
<1>3. CASE AuditDigest(a) \/ LateAudit(a)
  BY <1>3 DEF AuditDigest, LateAudit
<1>4. CASE DigestFails(a) \/ LateFails(a)
  BY <1>4 DEF DigestFails, LateFails, Reverted, Trouble
<1>5. ASSUME NEW b, Thrown(a, b)
      PROVE  /\ \/ status' = status
                \/ \E s \in DigestStatuses : status' = [status EXCEPT ![a] = s]
             /\ digest' = digest /\ troubles' \in Nat
             /\ UNCHANGED <<profile, OtherColumns, overtaken>>
  BY <1>5 DEF Thrown, Trouble
<1>6. CASE DigestWorkerThrows(a) \/ LateThrows(a)
  BY <1>5, <1>6 DEF DigestWorkerThrows, LateThrows
<1>7. QED
  BY <1>1, <1>2, <1>3, <1>4, <1>6 DEF DigestStep

LEMMA RemainingTyped ==
  ASSUME NEW f \in [Articles -> Steps], NEW a \in Articles
  PROVE  Remaining(f, a) \subseteq [Articles -> Steps]
BY DEF Remaining, Steps

LEMMA TypeStep == TypeOK /\ [Next]_vars => TypeOK'
<1> SUFFICES ASSUME TypeOK, [Next]_vars PROVE TypeOK'
  OBVIOUS
<1> USE LifecycleAssumption
<1>1. CASE UNCHANGED vars
  BY <1>1 DEF vars, row, TypeOK
<1>2. CASE NextStage
  <2>1. ppc' \in Stages /\ queue' \subseteq Articles
    BY <1>2, AfterStage, CandidatesListed DEF NextStage, TypeOK
  <2>2. QED
    BY <1>2, <2>1 DEF NextStage, row, TypeOK
<1>3. ASSUME NEW a \in Articles, NEW s \in Statuses, Becomes(a, s),
             UNCHANGED <<text, vector, retries, original, troubles>>
      PROVE  TypeOK'
  BY <1>3, BecomesTyped DEF TypeOK
<1>4. ASSUME NEW a \in Articles, Extract(a)
      PROVE  TypeOK'
  <2>1. PICK s \in Statuses : /\ Becomes(a, s)
                              /\ text' = [text EXCEPT ![a] = s = "EXTRACTION_SUCCESS"]
    BY <1>4 DEF Extract, Statuses
  <2>2. text' \in [Articles -> BOOLEAN]
    BY <2>1 DEF TypeOK
  <2>3. QED
    BY <1>4, <2>1, <2>2, BecomesTyped DEF Extract, TypeOK
<1>5. ASSUME NEW a \in Articles, DeleteMentions(a) \/ InsertMentions(a)
      PROVE  TypeOK'
  <2>1. CASE DeleteMentions(a)
    BY <2>1 DEF DeleteMentions, Steps, TypeOK
  <2>2. CASE InsertMentions(a)
    BY <2>2, DoneTyped DEF InsertMentions, Steps, TypeOK
  <2>3. QED
    BY <1>5, <2>1, <2>2
<1>6. ASSUME NEW a \in Articles, DigestStep(a)
      PROVE  TypeOK'
  <2>1. /\ status' \in [Articles -> Statuses] /\ digest' \in [Articles -> BOOLEAN]
        /\ troubles' \in Nat /\ UNCHANGED <<profile, OtherColumns, overtaken>>
    BY <1>6, DigestRow DEF DigestStatuses, Statuses, TypeOK
  <2>2. ppc' \in Stages /\ queue' \subseteq Articles
    BY <1>6, DoneTyped
       DEF DigestStep, Claim, SaveDigest, AuditDigest, DigestFails, DigestWorkerThrows,
           LateClaim, LateSave, LateAudit, LateFails, LateThrows, TypeOK, Stages
  <2>3. flight' \in [Articles -> Steps] /\ late' \in [Articles -> Steps]
    <3>1. flight \in [Articles -> Steps] /\ late \in [Articles -> Steps]
      BY DEF TypeOK
    <3>2. CASE DigestWorkerThrows(a)
      <4> DEFINE f == [b \in Articles |-> IF b \in queue /\ flight[b] = "off"
                                         THEN "listed" ELSE flight[b]]
      <4>1. f \in [Articles -> Steps]
        BY <3>1 DEF Steps
      <4>2. late' \in Remaining(f, a) /\ flight' = [b \in Articles |-> "off"]
        BY <3>2 DEF DigestWorkerThrows
      <4> HIDE DEF f
      <4>3. QED
        BY <4>1, <4>2, RemainingTyped DEF Steps
    <3>3. CASE LateThrows(a)
      BY <3>1, <3>3, RemainingTyped DEF LateThrows
    <3>4. CASE Claim(a) \/ SaveDigest(a) \/ AuditDigest(a) \/ DigestFails(a)
      BY <3>1, <3>4 DEF Claim, SaveDigest, AuditDigest, DigestFails, Steps
    <3>5. CASE LateClaim(a) \/ LateSave(a) \/ LateAudit(a) \/ LateFails(a)
      BY <3>1, <3>5 DEF LateClaim, LateSave, LateAudit, LateFails, Steps
    <3>6. QED
      BY <1>6, <3>2, <3>3, <3>4, <3>5 DEF DigestStep
  <2>4. QED
    BY <2>1, <2>2, <2>3 DEF OtherColumns, TypeOK
<1>7. ASSUME NEW a \in Articles, SaveEmbedding(a) \/ RecordEmbeddingFailure(a)
       PROVE  TypeOK'
  <2>1. PICK s \in Statuses : Becomes(a, s)
    BY <1>7 DEF SaveEmbedding, RecordEmbeddingFailure, Statuses
  <2>2. vector' \in [Articles -> {"none", "old", "current"}]
    BY <1>7 DEF SaveEmbedding, RecordEmbeddingFailure, TypeOK
  <2>3. retries' \in [Articles -> Nat]
    BY <1>7 DEF SaveEmbedding, RecordEmbeddingFailure, TypeOK
  <2>4. QED
    BY <1>7, <2>1, <2>2, <2>3, BecomesTyped DEF SaveEmbedding, RecordEmbeddingFailure, TypeOK
<1>8. ASSUME NEW a \in Articles, MarkDuplicate(a)
       PROVE  TypeOK'
  <2>1. Becomes(a, "DUPLICATE") /\ "DUPLICATE" \in Statuses
    BY <1>8 DEF MarkDuplicate, Statuses
  <2>2. TextMatches(a) \subseteq Articles /\ TitleMatches(a) \subseteq Articles
    BY DEF TextMatches, TitleMatches, Present
  <2>3. original' \in [Articles -> Articles \cup {None}]
    BY <1>8, <2>2 DEF MarkDuplicate, Oldest, TypeOK
  <2>4. QED
    BY <1>8, <2>1, <2>3, BecomesTyped DEF MarkDuplicate, TypeOK
<1>9. ASSUME NEW a \in Articles, KeepUnique(a)
       PROVE  TypeOK'
  BY <1>9, DoneTyped DEF KeepUnique, row, TypeOK
<1>10. CASE StageThrows \/ ProcessDies
  <2>1. /\ ppc' \in Stages /\ queue' \subseteq Articles /\ troubles' \in Nat
        /\ flight' \in [Articles -> Steps] /\ late' \in [Articles -> Steps]
        /\ UNCHANGED <<profile, row, overtaken>>
    <3>1. CASE StageThrows
      BY <3>1 DEF StageThrows, Trouble, TypeOK, Stages, Steps
    <3>2. CASE ProcessDies
      BY <3>2 DEF ProcessDies, Trouble, TypeOK, Stages, Steps
    <3>3. QED
      BY <1>10, <3>1, <3>2
  <2>2. QED
    BY <2>1 DEF row, TypeOK
<1>11. ASSUME NEW a \in Articles, ScanFails(a) \/ ClassificationFails(a)
      PROVE  TypeOK'
  <2>1. CASE ScanFails(a)
    BY <2>1, DoneTyped DEF ScanFails, Trouble, row, Steps, TypeOK
  <2>2. CASE ClassificationFails(a)
    BY <2>2, DoneTyped DEF ClassificationFails, Trouble, row, TypeOK
  <2>3. QED
    BY <1>11, <2>1, <2>2
<1>12. CASE ChangeModel
  BY <1>12 DEF ChangeModel, Trouble, TypeOK
<1>13. CASE Reembed
  <2>1. \A s \in Statuses : Rewound(s) \in Statuses
    BY DEF Rewound, Statuses
  <2>2. status' \in [Articles -> Statuses]
    BY <1>13, <2>1 DEF Reembed, TypeOK
  <2>3. overtaken' \subseteq Articles
    BY <1>13 DEF Reembed, TypeOK
  <2>4. QED
    BY <1>13, <2>2, <2>3 DEF Reembed, TypeOK
<1>14. ASSUME NEW a \in Articles, Requeue(a)
       PROVE  TypeOK'
  BY <1>14 DEF Requeue, Trouble, TypeOK, Statuses
<1>15. QED
  <2>1. ASSUME NEW a \in Articles,
               \/ Discover(a) \/ Filter(a) \/ ExtractEntities(a)
               \/ IgnoreShortText(a) \/ Group(a) \/ SaveClassification(a)
        PROVE  TypeOK'
    BY <1>3, <2>1
       DEF Discover, Filter, ExtractEntities, IgnoreShortText, Group, SaveClassification,
           Statuses
  <2>2. QED
    BY <1>1, <1>2, <1>4, <1>5, <1>6, <1>10, <1>11, <1>12, <1>13, <1>14, <1>7, <1>8, <1>9, <2>1
       DEF Next, RunStep, LateStep, Failure, Operator, DigestStep

(* Every column, queue and stage keeps its type.                           *)
THEOREM TypeCorrect == Spec => []TypeOK
BY TypeInit, TypeStep, PTL DEF Spec

-----------------------------------------------------------------------------
(* Duplicates.                                                             *)

LEMMA DuplicatesInit == Init => DuplicatesAnchored
BY DEF Init, DuplicatesAnchored, Duplicates, With

(* A step that marks no duplicate leaves the chains of duplicates, or      *)
(* parts of them.                                                          *)
LEMMA DuplicatesKept ==
  DuplicatesAnchored /\ original' = original /\ Duplicates' \subseteq Duplicates
    => DuplicatesAnchored'
BY DEF DuplicatesAnchored

LEMMA DuplicateMarked ==
  ASSUME TypeOK, DuplicatesAnchored, NEW a \in Articles, MarkDuplicate(a)
  PROVE  DuplicatesAnchored'
<1>1. PICK b \in Articles : /\ original' = [original EXCEPT ![a] = b]
                            /\ b # a /\ status[b] # "DUPLICATE"
  BY DEF MarkDuplicate, Oldest, TextMatches, TitleMatches, Present
<1>2. Duplicates' \subseteq Duplicates \cup {a}
  BY DEF MarkDuplicate, Becomes, Duplicates, With, TypeOK
<1>3. b \notin Duplicates
  BY <1>1 DEF Duplicates, With
<1> SUFFICES ASSUME NEW S \in SUBSET Duplicates', S # {}
             PROVE  \E d \in S : original'[d] \notin S
  BY DEF DuplicatesAnchored
<1>4. CASE a \in S
  <2>1. original'[a] = b
    BY <1>1 DEF TypeOK
  <2>2. b \notin S
    BY <1>1, <1>2, <1>3
  <2>3. QED
    BY <1>4, <2>1, <2>2
<1>5. CASE a \notin S
  <2>1. S \in SUBSET Duplicates
    BY <1>2, <1>5
  <2>2. PICK d \in S : original[d] \notin S
    BY <2>1 DEF DuplicatesAnchored
  <2>3. original'[d] = original[d]
    BY <1>1, <1>5, <2>1 DEF TypeOK, Duplicates, With
  <2>4. QED
    BY <2>2, <2>3
<1>6. QED
  BY <1>4, <1>5

LEMMA DuplicatesStep == TypeOK /\ DuplicatesAnchored /\ [Next]_vars => DuplicatesAnchored'
<1> SUFFICES ASSUME TypeOK, DuplicatesAnchored, [Next]_vars PROVE DuplicatesAnchored'
  OBVIOUS
<1>1. CASE UNCHANGED <<status, original>>
  BY <1>1, DuplicatesKept DEF Duplicates, With
<1>2. ASSUME NEW a \in Articles, NEW s \in Statuses \ {"DUPLICATE"},
             status' = [status EXCEPT ![a] = s], UNCHANGED original
      PROVE  DuplicatesAnchored'
  <2>1. Duplicates' \subseteq Duplicates
    BY <1>2 DEF Duplicates, With, TypeOK
  <2>2. QED
    BY <1>2, <2>1, DuplicatesKept
<1>3. CASE Reembed
  <2>1. Duplicates' \subseteq Duplicates
    BY <1>3 DEF Reembed, Rewound, Duplicates, With
  <2>2. QED
    BY <1>3, <2>1, DuplicatesKept DEF Reembed
<1>4. ASSUME NEW a \in Articles, MarkDuplicate(a)
      PROVE  DuplicatesAnchored'
  BY <1>4, DuplicateMarked
<1>5. CASE NextStage \/ StageThrows \/ ProcessDies \/ ChangeModel
  BY <1>1, <1>5 DEF NextStage, StageThrows, ProcessDies, ChangeModel, row
<1>6. ASSUME NEW a \in Articles,
             \/ DeleteMentions(a) \/ InsertMentions(a) \/ KeepUnique(a)
             \/ ScanFails(a) \/ ClassificationFails(a)
      PROVE  DuplicatesAnchored'
  BY <1>1, <1>6
     DEF DeleteMentions, InsertMentions, KeepUnique, ScanFails, ClassificationFails, row
<1>7. ASSUME NEW a \in Articles,
             \/ Discover(a) \/ Filter(a) \/ Extract(a) \/ ExtractEntities(a)
             \/ Requeue(a)
             \/ IgnoreShortText(a) \/ SaveEmbedding(a) \/ RecordEmbeddingFailure(a)
             \/ Group(a) \/ SaveClassification(a)
      PROVE  DuplicatesAnchored'
  BY <1>2, <1>7
     DEF Discover, Filter, Extract, ExtractEntities, Requeue, IgnoreShortText,
          SaveEmbedding, RecordEmbeddingFailure, Group, SaveClassification,
         Becomes, Statuses
<1>8. ASSUME NEW a \in Articles, DigestStep(a)
      PROVE  DuplicatesAnchored'
  <2>1. original' = original
    BY <1>8, DigestRow DEF OtherColumns
  <2>2. Duplicates' \subseteq Duplicates
    BY <1>8, DigestRow DEF Duplicates, With, DigestStatuses, TypeOK
  <2>3. QED
    BY <2>1, <2>2, DuplicatesKept
<1>9. QED
  BY <1>1, <1>3, <1>4, <1>5, <1>6, <1>7, <1>8
     DEF Next, RunStep, LateStep, Failure, Operator, DigestStep, vars, row

(* However articles with the same text or title follow one another through *)
(* the dedup stage, each set of duplicates leads to an article outside it  *)
(* (findEarlierByContentHash, findRecentByTitleHash, markDuplicate).       *)
THEOREM DuplicatesLead == Spec => []DuplicatesAnchored
BY TypeInit, TypeStep, DuplicatesInit, DuplicatesStep, PTL DEF Spec

-----------------------------------------------------------------------------
(* Embeddings.                                                             *)

HasVector(a) == vector[a] # "none" \/ a \in overtaken

(* The stages that follow the embeddings list articles that have one.      *)
Embedded ==
  /\ EmbeddedHasVector
  /\ ppc \in {"events", "classification"} => \A a \in queue : HasVector(a)

LEMMA EmbeddedInit == Init => Embedded
BY DEF Init, Embedded, EmbeddedHasVector

LEMMA EmbeddedStep == TypeOK /\ Embedded /\ [Next]_vars => Embedded'
<1> SUFFICES ASSUME TypeOK, Embedded, [Next]_vars PROVE Embedded'
  OBVIOUS
<1> USE DEF Embedded, EmbeddedHasVector, HasVector
<1>1. CASE UNCHANGED vars
  BY <1>1 DEF vars, row
<1>2. CASE NextStage
  <2>1. /\ ppc' = "events" => queue' \subseteq With({"EMBEDDED"})
        /\ ppc' = "classification" => queue' \subseteq With({"GROUPED"})
    BY <1>2, AfterStage, CandidatesListed DEF NextStage, TypeOK
  <2>2. QED
    BY <1>2, <2>1 DEF NextStage, With, row
<1>3. ASSUME NEW a \in Articles,
             \/ Discover(a) \/ Filter(a) \/ Extract(a) \/ ExtractEntities(a)
             \/ IgnoreShortText(a) \/ Group(a) \/ SaveClassification(a)
      PROVE  Embedded'
  BY <1>3 DEF Discover, Filter, Extract, ExtractEntities, IgnoreShortText, Group,
       SaveClassification, At, Done, Becomes, TypeOK
<1>4. ASSUME NEW a \in Articles,
             DeleteMentions(a) \/ InsertMentions(a)
      PROVE  Embedded'
  BY <1>4 DEF DeleteMentions, InsertMentions, At, Done, row, TypeOK
<1>5. ASSUME NEW a \in Articles, SaveEmbedding(a) \/ RecordEmbeddingFailure(a)
      PROVE  Embedded'
  BY <1>5 DEF SaveEmbedding, RecordEmbeddingFailure, At, Done, Becomes, TypeOK
<1>6. ASSUME NEW a \in Articles, MarkDuplicate(a) \/ KeepUnique(a)
      PROVE  Embedded'
  BY <1>6 DEF MarkDuplicate, KeepUnique, At, Done, Becomes, row, TypeOK
<1>7. CASE StageThrows \/ ProcessDies
  BY <1>7 DEF StageThrows, ProcessDies, row
<1>8. ASSUME NEW a \in Articles, ScanFails(a) \/ ClassificationFails(a)
      PROVE  Embedded'
  BY <1>8 DEF ScanFails, ClassificationFails, At, Done, row, TypeOK
<1>9. CASE ChangeModel
  BY <1>9 DEF ChangeModel, TypeOK
<1>10. CASE Reembed
  BY <1>10 DEF Reembed, Rewound, TypeOK
<1>11. ASSUME NEW a \in Articles, Requeue(a)
       PROVE  Embedded'
  BY <1>11 DEF Requeue, TypeOK
<1>12. ASSUME NEW a \in Articles, DigestStep(a)
       PROVE  Embedded'
  <2>1. /\ vector' = vector /\ overtaken' = overtaken
        /\ \A b \in Articles : status'[b] \in DigestStatuses \/ status'[b] = status[b]
    BY <1>12, DigestRow DEF OtherColumns, TypeOK
  <2>2. ppc' \in {ppc, "idle"} /\ queue' \subseteq queue
    BY <1>12
       DEF DigestStep, Claim, SaveDigest, AuditDigest, DigestFails, DigestWorkerThrows,
           LateClaim, LateSave, LateAudit, LateFails, LateThrows, Done
  <2>3. QED
    BY <2>1, <2>2 DEF DigestStatuses, TypeOK
<1>13. QED
  BY <1>1, <1>2, <1>3, <1>4, <1>5, <1>6, <1>7, <1>8, <1>9, <1>10, <1>11, <1>12
     DEF Next, RunStep, LateStep, Failure, Operator, DigestStep

(* An article past the embedding stage has an embedding, whatever dies and *)
(* however often its embedding failed, unless reembedForModelChange        *)
(* rewound it while a later stage had it in its list.                      *)
THEOREM EmbeddedArticlesHaveVectors == Spec => []EmbeddedHasVector
<1>1. Embedded => EmbeddedHasVector
  BY DEF Embedded
<1>2. QED
  BY <1>1, TypeInit, TypeStep, EmbeddedInit, EmbeddedStep, PTL DEF Spec
=============================================================================
