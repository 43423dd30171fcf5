---------------------------- MODULE AnalysisTasks ----------------------------
(***************************************************************************)
(* The durable analysis-task queue of the cve-mvp pipeline: the rows of    *)
(* table analysis_tasks, the pipeline runs that schedule, claim and work   *)
(* on them, and the analysts who retry or complete exhausted ones.         *)
(*                                                                         *)
(* A run is one call of runScheduledPipeline.  Its stage is a chain of     *)
(* awaits, so every database statement is a step of its own here, and the  *)
(* steps of two runs, of the two drains of one run, of the workers of one  *)
(* drain and of the analysts interleave freely.                            *)
(*                                                                         *)
(* A worker that throws rejects the stage and so ends the run, but it      *)
(* stops neither the other workers of its drain nor the other drain: they  *)
(* go on in the process after the advisory lock has been released.  Such   *)
(* leftovers stay with their run, whose pc is then "failed".               *)
(***************************************************************************)
EXTENDS Naturals, FiniteSets

CONSTANTS
  Articles,     \* article numbers; a larger number is a later published_at
  WithCves,     \* the articles in which the scan found a CVE id
  Runs,         \* pipeline runs that can be alive at the same time
  Limit,        \* articles listed by one run (and tasks claimed by one drain)
  Lanes,        \* worker loops of one drain: 3 in the code
  MaxAttempts,  \* max_attempts of a row: 5 in the code
  Chunks,       \* chunks of 10 CVE ids that the longest interpretation needs
  ClientTries,  \* requests of the LLM client for one call: 2 in the code
  MaxRetries,   \* bound: analyst retries of one task
  MaxFaults,    \* bound: crashes and failing database statements in all
  None          \* no run, no result

ASSUME ConstantsAssumption ==
  /\ Articles \subseteq Nat /\ IsFiniteSet(Articles)
  /\ WithCves \subseteq Articles
  /\ Limit \in Nat \ {0}
  /\ Lanes \in Nat \ {0}
  /\ {MaxAttempts, Chunks, ClientTries} \subseteq Nat \ {0}
  /\ MaxRetries \in Nat
  /\ MaxFaults \in Nat
  /\ None \notin Runs
  /\ None \notin {"actionable", "dismissed", "text"}

Names == {"summary", "disposition", "interpretation"}
Task == Articles \X Names
NameOf(t) == t[2]

(* What the model returns: a disposition decides about its article (here:  *)
(* actionable or not); the other two tasks return text.                    *)
Results(n) == IF n = "disposition" THEN {"actionable", "dismissed"} ELSE {"text"}

VARIABLES
  extracted,    \* articles in EXTRACTION_SUCCESS with analysis-ready text
  (* columns of analysis_tasks, one row per task *)
  status, attempts, due, result,
  (* the runs *)
  lock,         \* the run that holds the advisory lock
  pc,           \* phase of each run
  ready,        \* the articles the run listed at its start
  todo,         \* those of them still to be scheduled in this phase
  drain,        \* drain[r][n]: state of run r's drain of the tasks named n
  lanes,        \* lanes[r][n]: its live worker loops
  step,         \* step[r][t]: where run r is with task t
  (* history *)
  calls,        \* requests sent to the model for the task
  retries,      \* times an analyst retried the task
  manual,       \* tasks an analyst completed
  unaudited,    \* tasks taken back from completed since no audit was written
  faults        \* crashes and failed statements so far

rows == <<status, attempts, due, result>>
runState == <<lock, pc, ready, todo, drain, lanes, step>>
history == <<calls, retries, manual, unaudited>>
vars == <<extracted, rows, runState, history, faults>>

Statuses == {"absent", "pending", "running", "completed", "needs_attention"}
Phases == {"idle", "schedule1", "drain1", "schedule2", "drain2", "failed"}
Steps == {"none", "queued", "calling", "auditing", "logging"}

TypeOK ==
  /\ extracted \subseteq Articles
  /\ status \in [Task -> Statuses]
  /\ attempts \in [Task -> Nat]
  /\ due \in [Task -> BOOLEAN]
  /\ result \in [Task -> {"actionable", "dismissed", "text", None}]
  /\ lock \in Runs \cup {None}
  /\ pc \in [Runs -> Phases]
  /\ ready \in [Runs -> SUBSET Articles]
  /\ todo \in [Runs -> SUBSET Articles]
  /\ drain \in [Runs -> [Names -> {"off", "claiming", "working"}]]
  /\ lanes \in [Runs -> [Names -> 0 .. Lanes]]
  /\ step \in [Runs -> [Task -> Steps]]
  /\ calls \in [Task -> Nat]
  /\ retries \in [Task -> Nat]
  /\ manual \subseteq Task /\ unaudited \subseteq Task
  /\ faults \in Nat

Init ==
  /\ extracted = {}
  /\ status = [t \in Task |-> "absent"]
  /\ attempts = [t \in Task |-> 0]
  /\ due = [t \in Task |-> TRUE]
  /\ result = [t \in Task |-> None]
  /\ lock = None
  /\ pc = [r \in Runs |-> "idle"]
  /\ ready = [r \in Runs |-> {}]
  /\ todo = [r \in Runs |-> {}]
  /\ drain = [r \in Runs |-> [n \in Names |-> "off"]]
  /\ lanes = [r \in Runs |-> [n \in Names |-> 0]]
  /\ step = [r \in Runs |-> [t \in Task |-> "none"]]
  /\ calls = [t \in Task |-> 0]
  /\ retries = [t \in Task |-> 0]
  /\ manual = {} /\ unaudited = {}
  /\ faults = 0

-----------------------------------------------------------------------------
(* The articles a run looks at, and the rows it adds for one of them.      *)

(* listByProcessingStatuses: newest first, at most Limit.  Nothing in this *)
(* profile moves an article on from EXTRACTION_SUCCESS.                    *)
Newest(S) == {a \in S : Cardinality({b \in S : b > a}) < Limit}

Actionable(a) ==
  /\ status[<<a, "disposition">>] = "completed"
  /\ result[<<a, "disposition">>] = "actionable"

(* Mutant of Wanted: interpretations do not wait for a disposition.        *)
WantedAtOnce(a, n) == n = "interpretation" => a \in WithCves

Wanted(a, n) == n = "interpretation" => a \in WithCves /\ Actionable(a)

(* Mutant of Missing: the second pass schedules no interpretations.        *)
MissingPhase1(a) ==
  {t \in {a} \X (Names \ {"interpretation"}) : status[t] = "absent" /\ Wanted(a, NameOf(t))}

Missing(a) == {t \in {a} \X Names : status[t] = "absent" /\ Wanted(a, NameOf(t))}

(* An article reaches EXTRACTION_SUCCESS: backlog is extracted in batches, *)
(* so an older article can get here after a newer one.                     *)
ExtractArticle(a) ==
  /\ a \notin extracted
  /\ extracted' = extracted \cup {a}
  /\ UNCHANGED <<rows, runState, history, faults>>

(* Mutant of StartRun: the result of pg_try_advisory_lock is ignored.      *)
StartRunAnyway(r) ==
  /\ pc[r] = "idle"
  /\ lock' = r
  /\ pc' = [pc EXCEPT ![r] = "schedule1"]
  /\ ready' = [ready EXCEPT ![r] = Newest(extracted)]
  /\ todo' = [todo EXCEPT ![r] = Newest(extracted)]
  /\ UNCHANGED <<extracted, rows, drain, lanes, step, history, faults>>

(* pg_try_advisory_lock succeeds (a run that finds it taken is skipped and *)
(* changes nothing) and the stage lists its articles.                      *)
StartRun(r) ==
  /\ pc[r] = "idle"
  /\ lock = None
  /\ lock' = r
  /\ pc' = [pc EXCEPT ![r] = "schedule1"]
  /\ ready' = [ready EXCEPT ![r] = Newest(extracted)]
  /\ todo' = [todo EXCEPT ![r] = Newest(extracted)]
  /\ UNCHANGED <<extracted, rows, drain, lanes, step, history, faults>>

(* scheduleTasksForArticle, newest article first.  upsertPending leaves    *)
(* status, attempts and result of an existing row alone, so only missing   *)
(* rows are added: pending, no attempts, due at once.                      *)
ScheduleArticle(r, a) ==
  /\ pc[r] \in {"schedule1", "schedule2"}
  /\ a \in todo[r]
  /\ \A b \in todo[r] : b <= a
  /\ todo' = [todo EXCEPT ![r] = @ \ {a}]
  /\ status' = [t \in Task |-> IF t \in Missing(a) THEN "pending" ELSE status[t]]
  /\ UNCHANGED <<extracted, attempts, due, result, lock, pc, ready, drain, lanes,
                 step, history, faults>>

(* Phase 1 drains summary and disposition side by side, phase 2 drains     *)
(* interpretation.                                                         *)
StartDrains(r) ==
  /\ todo[r] = {}
  /\ \/ /\ pc[r] = "schedule1"
        /\ pc' = [pc EXCEPT ![r] = "drain1"]
        /\ drain' = [drain EXCEPT ![r]["summary"] = "claiming",
                                  ![r]["disposition"] = "claiming"]
     \/ /\ pc[r] = "schedule2"
        /\ pc' = [pc EXCEPT ![r] = "drain2"]
        /\ drain' = [drain EXCEPT ![r]["interpretation"] = "claiming"]
  /\ UNCHANGED <<extracted, rows, lock, ready, todo, lanes, step, history, faults>>

-----------------------------------------------------------------------------
(* drainTaskQueue: claim up to Limit tasks, then work on them in Lanes.    *)

Held(r, n) == {t \in Task : NameOf(t) = n /\ step[r][t] # "none"}
Queued(r, n) == {t \in Held(r, n) : step[r][t] = "queued"}
Busy(r, n) == Held(r, n) \ Queued(r, n)
(* Mutant of Claimable: rows left running are taken up again, whoever has  *)
(* them.                                                                   *)
ClaimableReclaims(n) ==
  {t \in Task : NameOf(t) = n /\ status[t] \in {"pending", "running"} /\ due[t]}

Claimable(n) == {t \in Task : NameOf(t) = n /\ status[t] = "pending" /\ due[t]}

(* claimNextReadyTask: one statement, FOR UPDATE SKIP LOCKED.              *)
ClaimTask(r, t) ==
  LET n == NameOf(t) IN
  /\ drain[r][n] = "claiming"
  /\ Cardinality(Queued(r, n)) < Limit
  /\ t \in Claimable(n)
  /\ status' = [status EXCEPT ![t] = "running"]
  /\ step' = [step EXCEPT ![r][t] = "queued"]
  /\ UNCHANGED <<extracted, attempts, due, result, lock, pc, ready, todo, drain,
                 lanes, history, faults>>

(* The batch is full or no task is ready: runWithConcurrency starts        *)
(* min(Lanes, batch) worker loops, or returns at once for an empty batch.  *)
FinishClaiming(r, n) ==
  LET batch == Cardinality(Queued(r, n)) IN
  /\ drain[r][n] = "claiming"
  /\ batch = Limit \/ Claimable(n) = {}
  /\ drain' = [drain EXCEPT ![r][n] = IF batch = 0 THEN "off" ELSE "working"]
  /\ lanes' = [lanes EXCEPT ![r][n] = IF batch < Lanes THEN batch ELSE Lanes]
  /\ UNCHANGED <<extracted, rows, lock, pc, ready, todo, step, history, faults>>

LaneFree(r, n) ==
  drain[r][n] = "working" /\ Cardinality(Busy(r, n)) < lanes[r][n]

(* The requests that one invocation of a task's runner may send: one for   *)
(* every chunk of CVE ids, one after the other, and each of them again if  *)
(* the client retries it.                                                  *)
Requests(n) == ClientTries * (IF n = "interpretation" THEN Chunks ELSE 1)

(* A lane takes the next task, loads its article and invokes its runner.   *)
(* The requests are counted here at once: nobody reads anything between    *)
(* them.  There are fewer if a chunk is rejected or the run dies.          *)
CallModel(r, t) ==
  /\ step[r][t] = "queued"
  /\ LaneFree(r, NameOf(t))
  /\ step' = [step EXCEPT ![r][t] = "calling"]
  /\ \E k \in 1 .. Requests(NameOf(t)) : calls' = [calls EXCEPT ![t] = @ + k]
  /\ UNCHANGED <<extracted, rows, lock, pc, ready, todo, drain, lanes, retries,
                 manual, unaudited, faults>>

(* The call answers: recordSuccess, by row id and nothing else.            *)
RecordSuccess(r, t, res) ==
  /\ step[r][t] = "calling"
  /\ status' = [status EXCEPT ![t] = "completed"]
  /\ result' = [result EXCEPT ![t] = res]
  /\ attempts' = [attempts EXCEPT ![t] = @ + 1]
  /\ step' = [step EXCEPT ![r][t] = "auditing"]
  /\ UNCHANGED <<extracted, due, lock, pc, ready, todo, drain, lanes, history, faults>>

(* Mutants of FailRow: one attempt too many; a row that is to be retried   *)
(* stays running; a status the table does not know.                        *)
FailRowOneMore(t, attemptsAtClaim) ==
  LET exhausted == attempts[t] + 1 > MaxAttempts IN
  /\ attempts' = [attempts EXCEPT ![t] = @ + 1]
  /\ status' = [status EXCEPT ![t] = IF exhausted THEN "needs_attention" ELSE "pending"]
  /\ due' = [due EXCEPT ![t] = exhausted \/ attemptsAtClaim = 0]
  /\ UNCHANGED result

FailRowStuck(t, attemptsAtClaim) ==
  LET exhausted == attempts[t] + 1 >= MaxAttempts IN
  /\ attempts' = [attempts EXCEPT ![t] = @ + 1]
  /\ status' = [status EXCEPT ![t] = IF exhausted THEN "needs_attention" ELSE @]
  /\ due' = [due EXCEPT ![t] = exhausted \/ attemptsAtClaim = 0]
  /\ UNCHANGED result

FailRowUnknown(t, attemptsAtClaim) ==
  LET exhausted == attempts[t] + 1 >= MaxAttempts IN
  /\ attempts' = [attempts EXCEPT ![t] = @ + 1]
  /\ status' = [status EXCEPT ![t] = IF exhausted THEN "failed" ELSE "pending"]
  /\ due' = [due EXCEPT ![t] = exhausted \/ attemptsAtClaim = 0]
  /\ UNCHANGED result

(* The update of recordFailure, by row id and nothing else.  The backoff   *)
(* is chosen by the attempts the row had when it was claimed; only the     *)
(* first entry of the table is zero seconds.  result is kept.              *)
FailRow(t, attemptsAtClaim) ==
  LET exhausted == attempts[t] + 1 >= MaxAttempts IN
  /\ attempts' = [attempts EXCEPT ![t] = @ + 1]
  /\ status' = [status EXCEPT ![t] = IF exhausted THEN "needs_attention" ELSE "pending"]
  /\ due' = [due EXCEPT ![t] = exhausted \/ attemptsAtClaim = 0]
  /\ UNCHANGED result

(* The call fails, is rejected by its schema, or recordSuccess fails.      *)
RecordFailure(r, t) ==
  /\ step[r][t] = "calling"
  /\ FailRow(t, attempts[t])
  /\ step' = [step EXCEPT ![r][t] = "logging"]
  /\ UNCHANGED <<extracted, lock, pc, ready, todo, drain, lanes, history, faults>>

(* audit.insert of the accepted answer succeeds ...                        *)
AuditSuccess(r, t) ==
  /\ step[r][t] = "auditing"
  /\ step' = [step EXCEPT ![r][t] = "none"]
  /\ UNCHANGED <<extracted, rows, lock, pc, ready, todo, drain, lanes, history, faults>>

(* ... or fails: the same catch block then runs recordFailure on the row   *)
(* that recordSuccess has already completed.                               *)
AuditFails(r, t) ==
  /\ faults < MaxFaults
  /\ step[r][t] = "auditing"
  /\ FailRow(t, attempts[t] - 1)
  /\ step' = [step EXCEPT ![r][t] = "logging"]
  /\ unaudited' = unaudited \cup {t}
  /\ faults' = faults + 1
  /\ UNCHANGED <<extracted, lock, pc, ready, todo, drain, lanes, calls, retries, manual>>

(* audit.insert of the error succeeds.                                     *)
LogError(r, t) ==
  /\ step[r][t] = "logging"
  /\ step' = [step EXCEPT ![r][t] = "none"]
  /\ UNCHANGED <<extracted, rows, lock, pc, ready, todo, drain, lanes, history, faults>>

FinishDrain(r, n) ==
  /\ drain[r][n] = "working"
  /\ Held(r, n) = {}
  /\ drain' = [drain EXCEPT ![r][n] = "off"]
  /\ lanes' = [lanes EXCEPT ![r][n] = 0]
  /\ UNCHANGED <<extracted, rows, lock, pc, ready, todo, step, history, faults>>

-----------------------------------------------------------------------------
(* How a run moves on and ends.                                            *)

DrainsOff(r) == \A n \in Names : drain[r][n] = "off"

(* Phase 2 schedules the same articles again, now that dispositions are    *)
(* there.                                                                  *)
StartPhase2(r) ==
  /\ pc[r] = "drain1"
  /\ DrainsOff(r)
  /\ pc' = [pc EXCEPT ![r] = "schedule2"]
  /\ todo' = [todo EXCEPT ![r] = ready[r]]
  /\ UNCHANGED <<extracted, rows, lock, ready, drain, lanes, step, history, faults>>

(* The run completes and unlocks, or the last leftover of a failed run     *)
(* ends.                                                                   *)
FinishRun(r) ==
  /\ pc[r] \in {"drain2", "failed"}
  /\ DrainsOff(r)
  /\ pc' = [pc EXCEPT ![r] = "idle"]
  /\ lock' = IF lock = r THEN None ELSE lock
  /\ ready' = [ready EXCEPT ![r] = {}]
  /\ todo' = [todo EXCEPT ![r] = {}]
  /\ UNCHANGED <<extracted, rows, drain, lanes, step, history, faults>>

(* The stage rejects: runScheduledPipeline unlocks in its finally block.   *)
FailRun(r) ==
  /\ faults < MaxFaults
  /\ faults' = faults + 1
  /\ pc' = [pc EXCEPT ![r] = "failed"]
  /\ lock' = IF lock = r THEN None ELSE lock
  /\ UNCHANGED <<extracted, rows, ready, todo, history>>

(* Run r forgets the tasks in T: their rows stay as they are.              *)
Forget(r, T) ==
  step' = [step EXCEPT ![r] = [t \in Task |-> IF t \in T THEN "none" ELSE step[r][t]]]

(* A statement of scheduling throws.                                       *)
ScheduleThrows(r) ==
  /\ pc[r] \in {"schedule1", "schedule2"}
  /\ FailRun(r)
  /\ UNCHANGED <<drain, lanes, step>>

(* A claim throws: the drain rejects before it works on what it claimed.   *)
ClaimThrows(r, n) ==
  /\ drain[r][n] = "claiming"
  /\ FailRun(r)
  /\ Forget(r, Held(r, n))
  /\ drain' = [drain EXCEPT ![r][n] = "off"]
  /\ UNCHANGED lanes

(* A lane throws outside the try block or inside the catch block (loading  *)
(* the article, recordFailure, the audit of the error): that lane ends,    *)
(* the others go on; with the last lane the rest of the batch is dropped.  *)
WorkerThrows(r, t) ==
  LET n == NameOf(t)
      last == lanes[r][n] = 1
  IN
  /\ drain[r][n] = "working"
  /\ \/ step[r][t] \in {"calling", "auditing", "logging"}
     \/ step[r][t] = "queued" /\ LaneFree(r, n)
  /\ FailRun(r)
  /\ Forget(r, IF last THEN Held(r, n) ELSE {t})
  /\ lanes' = [lanes EXCEPT ![r][n] = @ - 1]
  /\ drain' = [drain EXCEPT ![r][n] = IF last THEN "off" ELSE "working"]

(* The process dies: its memory is gone and its connection drops the lock. *)
Crash(r) ==
  /\ faults < MaxFaults
  /\ faults' = faults + 1
  /\ pc[r] # "idle"
  /\ pc' = [pc EXCEPT ![r] = "idle"]
  /\ lock' = IF lock = r THEN None ELSE lock
  /\ ready' = [ready EXCEPT ![r] = {}]
  /\ todo' = [todo EXCEPT ![r] = {}]
  /\ drain' = [drain EXCEPT ![r] = [n \in Names |-> "off"]]
  /\ lanes' = [lanes EXCEPT ![r] = [n \in Names |-> 0]]
  /\ Forget(r, Task)
  /\ UNCHANGED <<extracted, rows, history>>

-----------------------------------------------------------------------------
(* Time and analysts.                                                      *)

BackoffElapses(t) ==
  /\ ~due[t]
  /\ due' = [due EXCEPT ![t] = TRUE]
  /\ UNCHANGED <<extracted, status, attempts, result, runState, history, faults>>

(* Mutants of AnalystRetry: without its WHERE status clause, or with       *)
(* completed tasks let in.                                                 *)
AnalystRetryAnyState(t) ==
  /\ retries[t] < MaxRetries
  /\ status[t] # "absent"
  /\ status' = [status EXCEPT ![t] = "pending"]
  /\ due' = [due EXCEPT ![t] = TRUE]
  /\ retries' = [retries EXCEPT ![t] = @ + 1]
  /\ UNCHANGED <<extracted, attempts, result, runState, calls, manual, unaudited,
                 faults>>

AnalystRetryDone(t) ==
  /\ retries[t] < MaxRetries
  /\ status[t] \in {"needs_attention", "completed"}
  /\ status' = [status EXCEPT ![t] = "pending"]
  /\ due' = [due EXCEPT ![t] = TRUE]
  /\ retries' = [retries EXCEPT ![t] = @ + 1]
  /\ UNCHANGED <<extracted, attempts, result, runState, calls, manual, unaudited,
                 faults>>

(* applyAnalysisTaskAction retry: GREATEST(attempts, 0) keeps the count.   *)
AnalystRetry(t) ==
  /\ retries[t] < MaxRetries
  /\ status[t] = "needs_attention"
  /\ status' = [status EXCEPT ![t] = "pending"]
  /\ due' = [due EXCEPT ![t] = TRUE]
  /\ retries' = [retries EXCEPT ![t] = @ + 1]
  /\ UNCHANGED <<extracted, attempts, result, runState, calls, manual, unaudited,
                 faults>>

(* Mutants of AnalystComplete: without its WHERE status clause; without    *)
(* storing the answer.                                                     *)
AnalystCompleteAnyState(t, res) ==
  /\ status[t] # "absent"
  /\ status' = [status EXCEPT ![t] = "completed"]
  /\ result' = [result EXCEPT ![t] = res]
  /\ manual' = manual \cup {t}
  /\ UNCHANGED <<extracted, attempts, due, runState, calls, retries, unaudited,
                 faults>>

AnalystCompleteEmpty(t, res) ==
  /\ status[t] = "needs_attention"
  /\ status' = [status EXCEPT ![t] = "completed"]
  /\ manual' = manual \cup {t}
  /\ UNCHANGED <<extracted, attempts, due, result, runState, calls, retries, unaudited,
                 faults>>

AnalystComplete(t, res) ==
  /\ status[t] = "needs_attention"
  /\ status' = [status EXCEPT ![t] = "completed"]
  /\ result' = [result EXCEPT ![t] = res]
  /\ manual' = manual \cup {t}
  /\ UNCHANGED <<extracted, attempts, due, runState, calls, retries, unaudited,
                 faults>>

-----------------------------------------------------------------------------
WorkOn(r, t) ==
  \/ ClaimTask(r, t)
  \/ CallModel(r, t)
  \/ \E res \in Results(NameOf(t)) : RecordSuccess(r, t, res)
  \/ RecordFailure(r, t)
  \/ AuditSuccess(r, t)
  \/ LogError(r, t)

RunStep(r) ==
  \/ StartRun(r)
  \/ \E a \in Articles : ScheduleArticle(r, a)
  \/ StartDrains(r)
  \/ \E t \in Task : WorkOn(r, t)
  \/ \E n \in Names : FinishClaiming(r, n) \/ FinishDrain(r, n)
  \/ StartPhase2(r)
  \/ FinishRun(r)

Fault(r) ==
  \/ ScheduleThrows(r)
  \/ \E n \in Names : ClaimThrows(r, n)
  \/ \E t \in Task : WorkerThrows(r, t) \/ AuditFails(r, t)
  \/ Crash(r)

Environment ==
  \/ \E a \in Articles : ExtractArticle(a)
  \/ \E t \in Task : BackoffElapses(t) \/ AnalystRetry(t)
  \/ \E t \in Task : \E res \in Results(NameOf(t)) : AnalystComplete(t, res)

Next == Environment \/ \E r \in Runs : RunStep(r) \/ Fault(r)

Spec == Init /\ [][Next]_vars

(* The scheduler starts a run again and again and awaits in a run return;  *)
(* a backoff is a point in time.  Nothing makes an analyst act, and        *)
(* nothing makes a fault happen.                                           *)
Fairness ==
  /\ \A r \in Runs : WF_vars(RunStep(r))
  /\ \A t \in Task : WF_vars(BackoffElapses(t))

FairSpec == Spec /\ Fairness
-----------------------------------------------------------------------------
(* Properties.                                                             *)

Working == {"queued", "calling", "auditing"}
InRun == Phases \ {"idle", "failed"}

(* The advisory lock: a run that is in one of its phases holds it, so no   *)
(* two runs are in their phases together (scheduled-run.ts).               *)
LockHeldInRun == \A r \in Runs : pc[r] \in InRun <=> lock = r

(* No task is worked on twice at once: between its claim and its outcome   *)
(* at most one run has it, also while the leftovers of a failed run work   *)
(* beside the next run without the lock.                                   *)
WorkExclusive ==
  \A r, q \in Runs, t \in Task :
    step[r][t] \in Working /\ step[q][t] \in Working => r = q

(* The row of a task in work is as its worker left it: running until the   *)
(* outcome is written, completed by the model (not by an analyst) while    *)
(* the answer is being audited.  recordSuccess and recordFailure, which    *)
(* update by id alone, rely on it.                                         *)
WorkerOwnsRow ==
  \A r \in Runs, t \in Task :
    /\ step[r][t] \in {"queued", "calling"} => status[t] = "running"
    /\ step[r][t] = "auditing" => status[t] = "completed" /\ t \notin manual

(* The budget of a task: the runner is invoked at most MaxAttempts times,  *)
(* and once more for every time an analyst retries the task (retry keeps   *)
(* the count, so that the first failure after it exhausts the task again); *)
(* the requests to the model are at most those of so many invocations.     *)
CallsWithinBudget ==
  \A t \in Task : calls[t] <= Requests(NameOf(t)) * (MaxAttempts + retries[t])

(* A task that waits for an analyst used its budget and is in no run's     *)
(* hands, so that what the analyst does meets no late answer; a completed  *)
(* task has an answer to show.                                             *)
ExhaustedOrAnswered ==
  \A t \in Task :
    /\ status[t] = "needs_attention" =>
         attempts[t] >= MaxAttempts /\ \A r \in Runs : step[r][t] \notin Working
    /\ status[t] = "completed" => result[t] \in Results(NameOf(t))

(* An interpretation exists only for an article with CVE ids whose         *)
(* disposition lets it in: decided, actionable, and so for good, whatever  *)
(* runs, leftovers and analysts do - unless the decision was taken back    *)
(* because its audit row could not be written.                             *)
InterpretationAfterDisposition ==
  \A a \in Articles :
    status[<<a, "interpretation">>] # "absent" =>
      a \in WithCves /\ (Actionable(a) \/ <<a, "disposition">> \in unaudited)

(* What an analyst completed stays as it is: no worker that was still out  *)
(* with the task overwrites it.                                            *)
ManualAnswerFinal ==
  [][\A t \in manual : status'[t] = "completed" /\ result'[t] = result[t]]_vars

(* Only its own worker takes a task out of completed again, and only       *)
(* because the audit row of its answer could not be written.               *)
CompletedUntilAuditFails ==
  [][\A t \in Task :
       status[t] = "completed" /\ status'[t] # "completed" =>
         \E r \in Runs : step[r][t] = "auditing" /\ step'[r][t] = "logging"]_vars

Settled(t) == status[t] \in {"completed", "needs_attention"}

Analysed(a) == Settled(<<a, "summary">>) /\ Settled(<<a, "disposition">>)
InWindow(a) == a \in Newest(extracted)

(* Every extracted article comes to a summary and to a disposition, or to  *)
(* the analysts' attention, unless newer articles push it out of the       *)
(* window that a run lists: while it is among the newest, the articles     *)
(* that share the window and the claims of a drain do not starve it.       *)
NewestAnalysed == \A a \in Articles : InWindow(a) ~> Analysed(a) \/ ~ InWindow(a)

(* A disposition that lets an article in leads to an interpretation of its *)
(* CVE ids (or to a task in the analysts' hands), unless the article is    *)
(* pushed out of the window before a run schedules it once more.           *)
ActionableInterpreted ==
  \A a \in WithCves :
    Actionable(a) ~> Settled(<<a, "interpretation">>) \/ ~ InWindow(a)

-----------------------------------------------------------------------------
(* The queue implements what TaskQueue promises: a run holds a task from   *)
(* its claim to its outcome.                                               *)
Holders == [t \in Task |-> {r \in Runs : step[r][t] \in Working}]

Queue == INSTANCE TaskQueue WITH
  Workers <- Runs, Answers <- {"actionable", "dismissed", "text"}, holders <- Holders

(* Every behaviour of runs, faults and analysts is one of the promised     *)
(* queue: no step of any of them touches a task that another holds.        *)
ImplementsQueue == Queue!Spec

-----------------------------------------------------------------------------
(* Claims of the documentation that the code does not keep.                *)

(* "Every analysis-ready article reaches completed summary and disposition *)
(* or a visible needs_attention state": also the ones outside the window.  *)
EveryArticleAnalysed == \A a \in Articles : a \in extracted ~> Analysed(a)

(* Only articles whose disposition is actionable get to CVE linking: an    *)
(* interpretation whose article is decided otherwise does not exist.       *)
InterpretedIsActionable ==
  \A a \in Articles :
    /\ status[<<a, "interpretation">>] = "completed"
    /\ status[<<a, "disposition">>] = "completed"
    => Actionable(a)

(* A row in running state that no run has is taken up again.               *)
RunningReclaimed ==
  \A t \in Task :
    (status[t] = "running" /\ \A r \in Runs : step[r][t] = "none")
      ~> status[t] # "running"

(* The pipeline never runs beside itself: work on tasks is only done under *)
(* the lock.                                                               *)
NoWorkOutsideLock ==
  \A r \in Runs, t \in Task : step[r][t] # "none" => lock = r
=============================================================================
