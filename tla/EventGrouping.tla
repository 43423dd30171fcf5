---------------------------- MODULE EventGrouping ----------------------------
(***************************************************************************)
(* How articles get into events: the event stage of the pipeline, which    *)
(* groups embedded articles one by one, and the editorial operations of    *)
(* the analysts, who attach, detach and move articles and make events of   *)
(* their own at the same time.                                             *)
(*                                                                         *)
(* A membership is written in two statements, the row of event_articles    *)
(* and then the source_count of the event.  A statement reads what is      *)
(* committed when it begins and waits for the rows it writes, so the count *)
(* is evaluated and stored in two steps here.  Only moves and new events   *)
(* of analysts are in a transaction: a move keeps its rows locked, and     *)
(* what it wrote to itself, until it commits.                              *)
(*                                                                         *)
(* Grouping keys and distances are abstracted to what grouping decides by  *)
(* them: a key that identifies the incident, or none, and the article      *)
(* whose vector an event has; an article is at distance 0 of its own       *)
(* vector and at some distance of the others.                              *)
(***************************************************************************)
EXTENDS Naturals, FiniteSets

CONSTANTS
  Articles, Keys,
  Requests,     \* bound: requests of analysts under way at a time
  MaxTroubles,  \* bound: requests made, and runs and requests that die
  None          \* also the grouping key "unknown"

ASSUME GroupingAssumption ==
  /\ Articles \subseteq Nat /\ IsFiniteSet(Articles)
  /\ None \notin Nat \cup Keys
  /\ {Requests, MaxTroubles} \subseteq Nat

(* The ids of events, given in order: the stage creates one per article,   *)
(* and one more when it dies, and an analyst one per request.              *)
Events == 1..(Cardinality(Articles) + MaxTroubles)

Pipeline == 0
Analysts == 1..Requests
Writers == {Pipeline} \cup Analysts

VARIABLES
  key,     \* key[a]: the grouping key of the article's draft
  status,  \* processing_status
  event,   \* cyber_events
  member,  \* member[e]: the committed rows of event_articles
  (* the event stage and the sweep of event embeddings *)
  ppc,
  queue,   \* the candidates it has not grouped yet
  group,   \* the article it is at
  (* one membership change per writer *)
  act,
  (* history of the model *)
  taken,   \* articles that analysts have detached from an event
  torn,    \* events whose count a writer left, or wrote beside another
  (* bounds *)
  troubles

tables == <<key, status, event, member>>
stage == <<ppc, queue, group>>
vars == <<tables, stage, act, taken, torn, troubles>>

NoEvent == [exists |-> FALSE, key |-> None, vector |-> None, count |-> 0]
NoGroup == [article |-> None, event |-> None, step |-> "off"]
NoAct == [op |-> "none", step |-> "off", article |-> None, from |-> None, to |-> None,
          fromCount |-> 0, toCount |-> 0]

Steps == {"off", "delete", "countFrom", "storeFrom", "insert", "countTo", "storeTo", "commit"}

EventRows == [exists : BOOLEAN, key : Keys \cup {None}, vector : Articles \cup {None},
              count : Nat]
Groupings == [article : Articles \cup {None}, event : Events \cup {None},
              step : {"off", "attach", "copy", "mark"}]
Changes == [op : {"none", "attach", "detach", "move"}, step : Steps,
            article : Articles \cup {None}, from : Events \cup {None},
            to : Events \cup {None}, fromCount : Nat, toCount : Nat]

TypeOK ==
  /\ key \in [Articles -> Keys \cup {None}]
  /\ status \in [Articles -> {"ENTITY_EXTRACTED", "EMBEDDED", "GROUPED"}]
  /\ event \in [Events -> EventRows]
  /\ member \in [Events -> SUBSET Articles]
  /\ ppc \in {"idle", "group", "sweep"}
  /\ queue \subseteq Articles
  /\ group \in Groupings
  /\ act \in [Writers -> Changes]
  /\ taken \subseteq Articles /\ torn \subseteq Events
  /\ troubles \in Nat

Init ==
  /\ key = [a \in Articles |-> None]
  /\ status = [a \in Articles |-> "ENTITY_EXTRACTED"]
  /\ event = [e \in Events |-> NoEvent]
  /\ member = [e \in Events |-> {}]
  /\ ppc = "idle" /\ queue = {} /\ group = NoGroup
  /\ act = [w \in Writers |-> NoAct]
  /\ taken = {} /\ torn = {}
  /\ troubles = 0

Existing == {e \in Events : event[e].exists}
NextEvent == {e \in Events \ Existing : \A f \in Events : f < e => f \in Existing}
Free(w) == act[w].step = "off"

-----------------------------------------------------------------------------
(* Locks and visibility.                                                   *)

InMove(w) == act[w].op = "move"

(* The rows of event_articles and cyber_events an open transaction holds.  *)
RowsOf(w) ==
  IF ~ InMove(w) THEN {}
  ELSE {<<e, act[w].article>> : e \in
          (IF act[w].step \notin {"off", "delete"} THEN {act[w].from} ELSE {}) \cup
          (IF act[w].step \in {"countTo", "storeTo", "commit"} THEN {act[w].to} ELSE {})}

EventsOf(w) ==
  IF ~ InMove(w) THEN {}
  ELSE (IF act[w].step \in {"insert", "countTo", "storeTo", "commit"} THEN {act[w].from} ELSE {})
       \cup (IF act[w].step = "commit" THEN {act[w].to} ELSE {})

RowHeld(w, e, a) == \E v \in Writers \ {w} : <<e, a>> \in RowsOf(v)
EventHeld(w, e) == \E v \in Writers \ {w} : e \in EventsOf(v)

(* The members of e as w sees them.                                        *)
Visible(w, e) ==
  IF ~ InMove(w) THEN member[e]
  ELSE (IF e = act[w].from THEN member[e] \ {act[w].article} ELSE member[e])
       \cup (IF e = act[w].to THEN {act[w].article} ELSE {})

(* w has changed a member of e and not stored the count for good.          *)
Writing(w, e) ==
  \/ /\ act[w].from = e
     /\ \/ act[w].step \in {"countFrom", "storeFrom"}
        \/ InMove(w) /\ act[w].step \notin {"off", "delete"}
  \/ act[w].to = e /\ act[w].step \in {"countTo", "storeTo", "commit"}

Overlap(w, e) == IF \E v \in Writers \ {w} : Writing(v, e) THEN {e} ELSE {}

-----------------------------------------------------------------------------
(* The statements of a membership change.                                  *)

(* detachArticle: DELETE.  It throws when there is no row; a transaction   *)
(* is then rolled back.                                                    *)
Delete(w) ==
  LET e == act[w].from  a == act[w].article IN
  /\ act[w].step = "delete"
  /\ ~ RowHeld(w, e, a)
  /\ IF a \in member[e]
     THEN /\ act' = [act EXCEPT ![w].step = "countFrom"]
          /\ IF InMove(w) THEN UNCHANGED <<member, taken>>
             ELSE /\ member' = [member EXCEPT ![e] = @ \ {a}]
                  /\ taken' = taken \cup {a}
          /\ torn' = torn \cup Overlap(w, e)
     ELSE /\ act' = [act EXCEPT ![w] = NoAct]
          /\ UNCHANGED <<member, taken, torn>>
  /\ UNCHANGED <<key, status, event, stage, troubles>>

CountFrom(w) ==
  /\ act[w].step = "countFrom"
  /\ act' = [act EXCEPT ![w].step = "storeFrom",
                        ![w].fromCount = Cardinality(Visible(w, act[w].from))]
  /\ UNCHANGED <<tables, stage, taken, torn, troubles>>

(* Mutant of StoreFrom: detachArticle does not count the sources again.    *)
StoreFromSkipped(w) ==
  LET e == act[w].from IN
  /\ act[w].step = "storeFrom"
  /\ ~ EventHeld(w, e)
  /\ act' = [act EXCEPT ![w] = IF InMove(w) THEN [@ EXCEPT !.step = "insert"] ELSE NoAct]
  /\ UNCHANGED <<tables, stage, taken, torn, troubles>>

StoreFrom(w) ==
  LET e == act[w].from IN
  /\ act[w].step = "storeFrom"
  /\ ~ EventHeld(w, e)
  /\ IF InMove(w)
     THEN /\ act' = [act EXCEPT ![w].step = "insert"]
          /\ UNCHANGED event
     ELSE /\ act' = [act EXCEPT ![w] = NoAct]
          /\ event' = [event EXCEPT ![e].count = act[w].fromCount]
  /\ UNCHANGED <<key, status, member, stage, taken, torn, troubles>>

(* attachArticle: INSERT, or UPDATE of the row that is there.              *)
Insert(w) ==
  LET e == act[w].to  a == act[w].article IN
  /\ act[w].step = "insert"
  /\ ~ RowHeld(w, e, a)
  /\ act' = [act EXCEPT ![w].step = "countTo"]
  /\ member' = IF InMove(w) THEN member ELSE [member EXCEPT ![e] = @ \cup {a}]
  /\ torn' = torn \cup Overlap(w, e)
  /\ UNCHANGED <<key, status, event, stage, taken, troubles>>

CountTo(w) ==
  /\ act[w].step = "countTo"
  /\ act' = [act EXCEPT ![w].step = "storeTo",
                        ![w].toCount = Cardinality(Visible(w, act[w].to))]
  /\ UNCHANGED <<tables, stage, taken, torn, troubles>>

StoreTo(w) ==
  LET e == act[w].to IN
  /\ act[w].step = "storeTo"
  /\ ~ EventHeld(w, e)
  /\ IF InMove(w)
     THEN /\ act' = [act EXCEPT ![w].step = "commit"]
          /\ UNCHANGED event
     ELSE /\ act' = [act EXCEPT ![w] = NoAct]
          /\ event' = [event EXCEPT ![e].count = act[w].toCount]
  /\ UNCHANGED <<key, status, member, stage, taken, torn, troubles>>

(* Mutant of Commit: the move is not in a transaction of its own, and only *)
(* its first half is written.                                              *)
CommitHalf(w) ==
  LET m == act[w] IN
  /\ m.step = "commit"
  /\ member' = [member EXCEPT ![m.from] = @ \ {m.article}]
  /\ event' = [event EXCEPT ![m.from].count = m.fromCount]
  /\ act' = [act EXCEPT ![w] = NoAct]
  /\ UNCHANGED <<key, status, stage, taken, torn, troubles>>

Commit(w) ==
  LET m == act[w] IN
  /\ m.step = "commit"
  /\ member' = [member EXCEPT ![m.from] = @ \ {m.article}, ![m.to] = @ \cup {m.article}]
  /\ event' = [event EXCEPT ![m.from].count = m.fromCount, ![m.to].count = m.toCount]
  /\ act' = [act EXCEPT ![w] = NoAct]
  /\ UNCHANGED <<key, status, stage, taken, torn, troubles>>

(* The rows that the next statement of v waits for, held by w.             *)
WaitsFor(v, w) ==
  \/ act[v].step = "delete" /\ <<act[v].from, act[v].article>> \in RowsOf(w)
  \/ act[v].step = "insert" /\ <<act[v].to, act[v].article>> \in RowsOf(w)
  \/ act[v].step = "storeFrom" /\ act[v].from \in EventsOf(w)
  \/ act[v].step = "storeTo" /\ act[v].to \in EventsOf(w)

(* Moves wait for one another in a circle: PostgreSQL aborts one of them.  *)
AbortDeadlock(w) ==
  /\ InMove(w)
  /\ \E C \in SUBSET Writers : w \in C /\ \A v \in C : \E u \in C : WaitsFor(u, v)
  /\ act' = [act EXCEPT ![w] = NoAct]
  /\ UNCHANGED <<tables, stage, taken, torn, troubles>>

Write(w) ==
  \/ Delete(w) \/ CountFrom(w) \/ StoreFrom(w)
  \/ Insert(w) \/ CountTo(w) \/ StoreTo(w)
  \/ Commit(w) \/ AbortDeadlock(w)

Trouble == troubles < MaxTroubles /\ troubles' = troubles + 1

(* What a writer that dies leaves half-done.                               *)
Halves(w) == IF InMove(w) THEN {} ELSE {e \in Events : Writing(w, e)}

-----------------------------------------------------------------------------
(* The event stage.                                                        *)

(* The scheduler starts a run: the candidates are listed once.             *)
StartRun ==
  /\ ppc = "idle"
  /\ ppc' = "group"
  /\ queue' = {a \in Articles : status[a] = "EMBEDDED"}
  /\ UNCHANGED <<tables, group, act, taken, torn, troubles>>

KeyMatches(a) == {e \in Existing : key[a] # None /\ event[e].key = key[a]}
OwnVector(a) == {e \in Existing : event[e].vector = a}
Embedded == {e \in Existing : event[e].vector # None}

(* Mutant of Decided: only the distance decides.                           *)
DecidedByVector(a) == OwnVector(a) # {}

(* decideEventGrouping and the comparator: the events a may be attached    *)
(* to.  Where neither the key nor distance 0 decides, a new event is       *)
(* possible as well.                                                       *)
Decided(a) == KeyMatches(a) # {} \/ OwnVector(a) # {}

Candidates(a) ==
  IF KeyMatches(a) # {} THEN KeyMatches(a)
  ELSE IF OwnVector(a) # {} THEN OwnVector(a)
  ELSE Embedded

Attaching(a, e) == [NoAct EXCEPT !.op = "attach", !.step = "insert", !.article = a, !.to = e]

AttachToEvent(a, e) ==
  /\ ppc = "group" /\ group = NoGroup
  /\ a \in queue
  /\ e \in Candidates(a)
  /\ group' = [article |-> a, event |-> e, step |-> "attach"]
  /\ act' = [act EXCEPT ![Pipeline] = Attaching(a, e)]
  /\ UNCHANGED <<tables, ppc, queue, taken, torn, troubles>>

CreateEvent(a, e) ==
  /\ ppc = "group" /\ group = NoGroup
  /\ a \in queue
  /\ ~ Decided(a)
  /\ e \in NextEvent
  /\ event' = [event EXCEPT ![e] = [exists |-> TRUE, key |-> key[a], vector |-> None,
                                    count |-> 0]]
  /\ group' = [article |-> a, event |-> e, step |-> "copy"]
  /\ act' = [act EXCEPT ![Pipeline] = Attaching(a, e)]
  /\ UNCHANGED <<key, status, member, ppc, queue, taken, torn, troubles>>

(* copyArticleEmbeddingToEvent; a failure is recorded and the stage goes   *)
(* on without a vector.                                                    *)
CopyVector ==
  /\ group.step = "copy" /\ Free(Pipeline)
  /\ \/ event' = [event EXCEPT ![group.event].vector = group.article]
     \/ UNCHANGED event
  /\ group' = [group EXCEPT !.step = "mark"]
  /\ UNCHANGED <<key, status, member, ppc, queue, act, taken, torn, troubles>>

(* Mutant of MarkGrouped: only the founder of an event is marked.          *)
MarkGroupedFounder ==
  /\ group.step \in {"attach", "mark"} /\ Free(Pipeline)
  /\ status' = IF group.step = "mark" THEN [status EXCEPT ![group.article] = "GROUPED"]
               ELSE status
  /\ queue' = queue \ {group.article}
  /\ group' = NoGroup
  /\ UNCHANGED <<key, event, member, ppc, act, taken, torn, troubles>>

MarkGrouped ==
  /\ group.step \in {"attach", "mark"} /\ Free(Pipeline)
  /\ status' = [status EXCEPT ![group.article] = "GROUPED"]
  /\ queue' = queue \ {group.article}
  /\ group' = NoGroup
  /\ UNCHANGED <<key, event, member, ppc, act, taken, torn, troubles>>

FinishGrouping ==
  /\ ppc = "group" /\ group = NoGroup /\ queue = {}
  /\ ppc' = "sweep"
  /\ UNCHANGED <<tables, queue, group, act, taken, torn, troubles>>

(* sweepMissingEventEmbeddings, for one event: it takes the vector of a    *)
(* member that has one.                                                    *)
Sweep(e) ==
  /\ ppc = "sweep"
  /\ event[e].exists /\ event[e].vector = None /\ event[e].count > 0
  /\ \E a \in member[e] : /\ status[a] # "ENTITY_EXTRACTED"
                          /\ event' = [event EXCEPT ![e].vector = a]
  /\ UNCHANGED <<key, status, member, stage, act, taken, torn, troubles>>

(* Events that could not be embedded are left for the next run.            *)
FinishRun ==
  /\ ppc = "sweep"
  /\ ppc' = "idle"
  /\ UNCHANGED <<tables, queue, group, act, taken, torn, troubles>>

(* A statement throws or the process dies: nothing is undone.              *)
RunDies ==
  /\ Trouble
  /\ ppc # "idle"
  /\ ppc' = "idle" /\ queue' = {} /\ group' = NoGroup
  /\ act' = [act EXCEPT ![Pipeline] = NoAct]
  /\ torn' = torn \cup Halves(Pipeline)
  /\ UNCHANGED <<tables, taken>>

-----------------------------------------------------------------------------
(* The editorial operations.                                               *)

(* A request takes the first slot that is free.                            *)
Request(n) ==
  /\ Trouble
  /\ Free(n) /\ \A v \in Analysts : v < n => ~ Free(v)

Edit(n, m) ==
  /\ Request(n)
  /\ act' = [act EXCEPT ![n] = m]
  /\ UNCHANGED <<tables, stage, taken, torn>>

AttachArticle(n, a, e) ==
  /\ e \in Existing
  /\ Edit(n, Attaching(a, e))

DetachArticle(n, a, e) ==
  /\ a \in member[e]
  /\ Edit(n, [NoAct EXCEPT !.op = "detach", !.step = "delete", !.article = a, !.from = e])

MoveArticle(n, a, e, f) ==
  /\ a \in member[e] /\ f \in Existing \ {e}
  /\ Edit(n, [NoAct EXCEPT !.op = "move", !.step = "delete", !.article = a,
                           !.from = e, !.to = f])

(* createEventFromArticles: nobody else sees or writes the rows of the new *)
(* event before the transaction commits, so it is one step.                *)
CreateFromArticles(n, S, e) ==
  /\ Request(n)
  /\ e \in NextEvent
  /\ event' = [event EXCEPT ![e] = [exists |-> TRUE, key |-> None, vector |-> None,
                                    count |-> Cardinality(S)]]
  /\ member' = [member EXCEPT ![e] = S]
  /\ UNCHANGED <<key, status, stage, act, taken, torn>>

RequestDies(n) ==
  /\ Trouble
  /\ ~ Free(n)
  /\ act' = [act EXCEPT ![n] = NoAct]
  /\ torn' = torn \cup Halves(n)
  /\ UNCHANGED <<tables, stage, taken>>

(* The embedding stage, which runs before the event stage, has embedded an *)
(* article; articles are numbered as they get there.                       *)
Embed(a, k) ==
  /\ ppc = "idle"
  /\ status[a] = "ENTITY_EXTRACTED"
  /\ \A b \in Articles : b < a => status[b] # "ENTITY_EXTRACTED"
  /\ status' = [status EXCEPT ![a] = "EMBEDDED"]
  /\ key' = [key EXCEPT ![a] = k]
  /\ UNCHANGED <<event, member, stage, act, taken, torn, troubles>>

-----------------------------------------------------------------------------
RunStep ==
  \/ StartRun
  \/ \E a \in Articles, e \in Events : AttachToEvent(a, e) \/ CreateEvent(a, e)
  \/ Write(Pipeline)
  \/ CopyVector
  \/ MarkGrouped
  \/ FinishGrouping
  \/ \E e \in Events : Sweep(e)
  \/ FinishRun

AnalystStep ==
  \E n \in Analysts :
    \/ Write(n)
    \/ \E a \in Articles, e \in Events :
         \/ AttachArticle(n, a, e)
         \/ DetachArticle(n, a, e)
         \/ \E f \in Events : MoveArticle(n, a, e, f)
    \/ \E S \in SUBSET Articles \ {{}}, e \in Events : CreateFromArticles(n, S, e)

Fault == RunDies \/ \E n \in Analysts : RequestDies(n)

Next == RunStep \/ AnalystStep \/ Fault \/ \E a \in Articles, k \in Keys \cup {None} : Embed(a, k)

Spec == Init /\ [][Next]_vars

(* The scheduler starts run after run, and the statements of a run and of  *)
(* a request return: PostgreSQL resolves the only circular waits.          *)
Fairness == WF_vars(RunStep) /\ \A n \in Analysts : WF_vars(Write(n))

FairSpec == Spec /\ Fairness

-----------------------------------------------------------------------------
(* Properties.                                                             *)

(* The ladder keeps one event per grouping key: neither a run that died    *)
(* between its statements nor the analysts' own events and moves make a    *)
(* later run found a second one.                                           *)
OneEventPerKey ==
  \A e, f \in Existing : event[e].key # None /\ event[e].key = event[f].key => e = f

(* The stored count of sources, which decides whether an event is          *)
(* summarized and alerted, is the number of its members whenever no change *)
(* is under way, unless a writer died between the two statements of one or *)
(* two writers changed the same event at the same time.                    *)
CountExact ==
  \A e \in Existing :
    event[e].count = Cardinality(member[e]) \/ e \in torn \/ \E w \in Writers : Writing(w, e)

(* No embedded article waits forever to be grouped, whatever dies and      *)
(* however the analysts' transactions keep rows from the stage.            *)
ArticlesGrouped == []<>(\A a \in Articles : status[a] # "EMBEDDED")

(* The stage and the editorial operations implement ArticleMembership: an  *)
(* article is only marked when it is in an event, and a move never leaves  *)
(* it without one, nor in both, for anyone to see.                         *)
Membership ==
  INSTANCE ArticleMembership WITH
    in <- [a \in Articles |-> {e \in Events : a \in member[e]}],
    grouped <- {a \in Articles : status[a] = "GROUPED"}

ImplementsMembership == Membership!Spec

(* Claims of documents and comments that the code does not keep.           *)

(* A run that is killed leaves Postgres in a consistent state, "never a    *)
(* half-written event": between runs, an event that the stage has created  *)
(* has an article.                                                         *)
EventsWhole ==
  ppc = "idle" => \A e \in Existing : member[e] # {} \/ taken # {}
=============================================================================
