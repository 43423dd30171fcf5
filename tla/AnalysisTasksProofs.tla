------------------------- MODULE AnalysisTasksProofs -------------------------
(***************************************************************************)
(* Theorems about AnalysisTasks, for every set of articles and runs and    *)
(* every value of the bounds.                                              *)
(***************************************************************************)
EXTENDS AnalysisTasks, TLAPS, FiniteSetTheorems

(* A drain that works has a live lane.                                     *)
LanesLive == \A r \in Runs, n \in Names : drain[r][n] = "working" => lanes[r][n] > 0

TypeInv == TypeOK /\ LanesLive

(* The size of a batch is a number, and zero only for the empty batch.     *)
LEMMA BatchSize ==
  ASSUME NEW r \in Runs, NEW n \in Names
  PROVE  Cardinality(Queued(r, n)) \in Nat
<1>1. IsFiniteSet(Names)
  <2>1. Names = ({"summary"} \cup {"disposition"}) \cup {"interpretation"}
    BY DEF Names
  <2>2. QED
    BY <2>1, FS_Singleton, FS_Union
<1>2. IsFiniteSet(Task)
  BY <1>1, FS_Product, ConstantsAssumption DEF Task
<1>3. IsFiniteSet(Queued(r, n))
  BY <1>2, FS_Subset DEF Queued, Held
<1>4. QED
  BY <1>3, FS_CardinalityType

LEMMA TypeInit == Init => TypeInv
BY ConstantsAssumption DEF Init, TypeInv, TypeOK, LanesLive, Statuses, Phases, Steps

LEMMA TypeStep == TypeInv /\ [Next]_vars => TypeInv'
<1> USE ConstantsAssumption DEF TypeInv, TypeOK, LanesLive, Statuses, Phases, Steps,
                                rows, runState, history
<1> SUFFICES ASSUME TypeInv, [Next]_vars PROVE TypeInv'
  OBVIOUS
<1>1. ASSUME NEW a \in Articles, ExtractArticle(a) PROVE TypeInv'
  BY <1>1 DEF ExtractArticle
<1>2. ASSUME NEW t \in Task, BackoffElapses(t) PROVE TypeInv'
  BY <1>2 DEF BackoffElapses
<1>3. ASSUME NEW t \in Task, AnalystRetry(t) PROVE TypeInv'
  BY <1>3 DEF AnalystRetry
<1>4. ASSUME NEW t \in Task, NEW res \in Results(NameOf(t)), AnalystComplete(t, res)
      PROVE  TypeInv'
  BY <1>4 DEF AnalystComplete, Results
<1>5. ASSUME NEW r \in Runs, StartRun(r) PROVE TypeInv'
  BY <1>5 DEF StartRun, Newest
<1>6. ASSUME NEW r \in Runs, NEW a \in Articles, ScheduleArticle(r, a) PROVE TypeInv'
  BY <1>6 DEF ScheduleArticle
<1>7. ASSUME NEW r \in Runs, StartDrains(r) PROVE TypeInv'
  <2>1. /\ {"summary", "disposition", "interpretation"} \subseteq Names
        /\ UNCHANGED <<extracted, status, attempts, due, result, lock, ready, todo,
                       lanes, step, calls, retries, manual, unaudited,
                       faults>>
    BY <1>7 DEF StartDrains, Names
  <2>2. CASE pc[r] = "schedule1"
    <3>1. /\ pc' = [pc EXCEPT ![r] = "drain1"]
          /\ drain' = [drain EXCEPT ![r]["summary"] = "claiming",
                                    ![r]["disposition"] = "claiming"]
      BY <1>7, <2>2 DEF StartDrains
    <3>2. QED
      BY <2>1, <3>1
  <2>3. CASE pc[r] = "schedule2"
    <3>1. /\ pc' = [pc EXCEPT ![r] = "drain2"]
          /\ drain' = [drain EXCEPT ![r]["interpretation"] = "claiming"]
      BY <1>7, <2>3 DEF StartDrains
    <3>2. QED
      BY <2>1, <3>1
  <2>4. QED
    BY <1>7, <2>2, <2>3 DEF StartDrains
<1>8. ASSUME NEW r \in Runs, NEW t \in Task, ClaimTask(r, t) PROVE TypeInv'
  BY <1>8 DEF ClaimTask
<1>9. ASSUME NEW r \in Runs, NEW t \in Task, CallModel(r, t) PROVE TypeInv'
  BY <1>9 DEF CallModel
<1>10. ASSUME NEW r \in Runs, NEW t \in Task, NEW res \in Results(NameOf(t)),
              RecordSuccess(r, t, res)
       PROVE  TypeInv'
  BY <1>10 DEF RecordSuccess, Results
<1>11. ASSUME NEW r \in Runs, NEW t \in Task, RecordFailure(r, t) PROVE TypeInv'
  BY <1>11 DEF RecordFailure, FailRow
<1>12. ASSUME NEW r \in Runs, NEW t \in Task, AuditSuccess(r, t) PROVE TypeInv'
  BY <1>12 DEF AuditSuccess
<1>13. ASSUME NEW r \in Runs, NEW t \in Task, LogError(r, t) PROVE TypeInv'
  BY <1>13 DEF LogError
<1>14. ASSUME NEW r \in Runs, NEW n \in Names, FinishClaiming(r, n) PROVE TypeInv'
  <2>1. Cardinality(Queued(r, n)) \in Nat
    BY BatchSize
  <2>2. QED
    BY <1>14, <2>1 DEF FinishClaiming
<1>15. ASSUME NEW r \in Runs, NEW n \in Names, FinishDrain(r, n) PROVE TypeInv'
  BY <1>15 DEF FinishDrain
<1>16. ASSUME NEW r \in Runs, StartPhase2(r) PROVE TypeInv'
  BY <1>16 DEF StartPhase2
<1>17. ASSUME NEW r \in Runs, FinishRun(r) PROVE TypeInv'
  BY <1>17 DEF FinishRun
<1>18. ASSUME NEW r \in Runs, ScheduleThrows(r) PROVE TypeInv'
  BY <1>18 DEF ScheduleThrows, FailRun
<1>19. ASSUME NEW r \in Runs, NEW n \in Names, ClaimThrows(r, n) PROVE TypeInv'
  BY <1>19 DEF ClaimThrows, FailRun, Forget
<1>20. ASSUME NEW r \in Runs, NEW t \in Task, WorkerThrows(r, t) PROVE TypeInv'
  <2>1. NameOf(t) \in Names
    BY DEF NameOf, Task
  <2>2. QED
    BY <1>20, <2>1 DEF WorkerThrows, FailRun, Forget
<1>21. ASSUME NEW r \in Runs, NEW t \in Task, AuditFails(r, t) PROVE TypeInv'
  BY <1>21 DEF AuditFails, FailRow
<1>22. ASSUME NEW r \in Runs, Crash(r) PROVE TypeInv'
  BY <1>22 DEF Crash, Forget
<1>23. CASE UNCHANGED vars
  BY <1>23 DEF vars
<1>24. QED
  BY <1>1, <1>2, <1>3, <1>4, <1>5, <1>6, <1>7, <1>8, <1>9, <1>10, <1>11, <1>12, <1>13,
     <1>14, <1>15, <1>16, <1>17, <1>18, <1>19, <1>20, <1>21, <1>22, <1>23
     DEF Next, Environment, RunStep, Fault, WorkOn

(* Every variable keeps its type and a working drain its lanes, whatever   *)
(* runs, faults and analysts do (analysis-task-stage.ts, concurrency.ts).  *)
THEOREM TypeCorrect == Spec => [](TypeOK /\ LanesLive)
BY TypeInit, TypeStep, PTL DEF Spec, TypeInv

-----------------------------------------------------------------------------
(* Most steps move a run along without touching a row; the others are the  *)
(* eight below.  The proofs about rows are by cases on these nine.         *)
Quiet ==
  /\ UNCHANGED <<status, attempts, result, calls, retries, manual, unaudited>>
  /\ \A r \in Runs, t \in Task : step'[r][t] \in {step[r][t], "none"}

RowStep ==
  \/ \E r \in Runs, a \in Articles : ScheduleArticle(r, a)
  \/ \E r \in Runs, t \in Task : ClaimTask(r, t) \/ CallModel(r, t)
  \/ \E r \in Runs, t \in Task : \E res \in Results(NameOf(t)) : RecordSuccess(r, t, res)
  \/ \E r \in Runs, t \in Task : RecordFailure(r, t) \/ AuditFails(r, t)
  \/ \E t \in Task : AnalystRetry(t)
  \/ \E t \in Task : \E res \in Results(NameOf(t)) : AnalystComplete(t, res)

LEMMA QuietOrRowStep == TypeInv /\ [Next]_vars => Quiet \/ RowStep
<1> USE DEF TypeInv, TypeOK, rows, runState, history
<1> SUFFICES ASSUME TypeInv, [Next]_vars, ~ RowStep PROVE Quiet
  OBVIOUS
<1>1. ASSUME NEW a \in Articles, ExtractArticle(a) PROVE Quiet
  BY <1>1 DEF ExtractArticle, Quiet
<1>2. ASSUME NEW t \in Task, BackoffElapses(t) PROVE Quiet
  BY <1>2 DEF BackoffElapses, Quiet
<1>3. ASSUME NEW r \in Runs, StartRun(r) \/ StartDrains(r) \/ StartPhase2(r) \/ FinishRun(r)
      PROVE  Quiet
  BY <1>3 DEF StartRun, StartDrains, StartPhase2, FinishRun, Quiet
<1>4. ASSUME NEW r \in Runs, NEW n \in Names, FinishClaiming(r, n) \/ FinishDrain(r, n)
      PROVE  Quiet
  BY <1>4 DEF FinishClaiming, FinishDrain, Quiet
<1>5. ASSUME NEW r \in Runs, NEW t \in Task, AuditSuccess(r, t) \/ LogError(r, t)
      PROVE  Quiet
  <2>1. CASE AuditSuccess(r, t)
    BY <2>1 DEF AuditSuccess, Quiet
  <2>2. CASE LogError(r, t)
    BY <2>2 DEF LogError, Quiet
  <2>3. QED
    BY <1>5, <2>1, <2>2
<1>6. ASSUME NEW r \in Runs, ScheduleThrows(r) PROVE Quiet
  BY <1>6 DEF ScheduleThrows, FailRun, Quiet
<1>7. ASSUME NEW r \in Runs, NEW n \in Names, ClaimThrows(r, n) PROVE Quiet
  BY <1>7 DEF ClaimThrows, FailRun, Forget, Quiet
<1>8. ASSUME NEW r \in Runs, NEW t \in Task, WorkerThrows(r, t) PROVE Quiet
  BY <1>8 DEF WorkerThrows, FailRun, Forget, Quiet
<1>9. ASSUME NEW r \in Runs, Crash(r) PROVE Quiet
  BY <1>9 DEF Crash, Forget, Quiet
<1>10. CASE UNCHANGED vars
  BY <1>10 DEF vars, Quiet
<1>11. QED
  BY <1>1, <1>2, <1>3, <1>4, <1>5, <1>6, <1>7, <1>8, <1>9, <1>10
     DEF Next, Environment, RunStep, Fault, WorkOn, RowStep

-----------------------------------------------------------------------------
(* Who works on a task.  By itself WorkExclusive is not inductive: that a  *)
(* task in work is not claimed again follows from its row, which is then   *)
(* not pending.                                                            *)
ManualCompleted == \A t \in manual : status[t] = "completed"

Ownership == WorkExclusive /\ WorkerOwnsRow /\ ManualCompleted

LEMMA OwnershipInit == Init => Ownership
BY DEF Init, Ownership, WorkExclusive, WorkerOwnsRow, ManualCompleted, Working

LEMMA OwnershipStep == TypeInv /\ Ownership /\ [Next]_vars => Ownership'
<1> USE DEF TypeInv, TypeOK, Ownership, WorkExclusive, WorkerOwnsRow, ManualCompleted,
            Working, rows, runState, history
<1> SUFFICES ASSUME TypeInv, Ownership, Quiet \/ RowStep PROVE Ownership'
  BY QuietOrRowStep
<1>1. CASE Quiet
  BY <1>1 DEF Quiet
<1>2. ASSUME NEW r \in Runs, NEW a \in Articles, ScheduleArticle(r, a) PROVE Ownership'
  BY <1>2 DEF ScheduleArticle, Missing
<1>3. ASSUME NEW r \in Runs, NEW t \in Task, ClaimTask(r, t) PROVE Ownership'
  BY <1>3 DEF ClaimTask, Claimable
<1>4. ASSUME NEW r \in Runs, NEW t \in Task, CallModel(r, t) PROVE Ownership'
  BY <1>4 DEF CallModel
<1>5. ASSUME NEW r \in Runs, NEW t \in Task, NEW res \in Results(NameOf(t)),
             RecordSuccess(r, t, res)
      PROVE  Ownership'
  BY <1>5 DEF RecordSuccess
<1>6. ASSUME NEW r \in Runs, NEW t \in Task, RecordFailure(r, t) PROVE Ownership'
  BY <1>6 DEF RecordFailure, FailRow
<1>7. ASSUME NEW r \in Runs, NEW t \in Task, AuditFails(r, t) PROVE Ownership'
  BY <1>7 DEF AuditFails, FailRow
<1>8. ASSUME NEW t \in Task, AnalystRetry(t) PROVE Ownership'
  BY <1>8 DEF AnalystRetry
<1>9. ASSUME NEW t \in Task, NEW res \in Results(NameOf(t)), AnalystComplete(t, res)
      PROVE  Ownership'
  BY <1>9 DEF AnalystComplete
<1>10. QED
  BY <1>1, <1>2, <1>3, <1>4, <1>5, <1>6, <1>7, <1>8, <1>9 DEF RowStep

(* Between its claim and its outcome a task is in the hands of one run     *)
(* only (claimNextReadyTask of analysis-task.repository.ts).               *)
THEOREM WorkIsExclusive == Spec => []WorkExclusive
<1>1. Ownership => WorkExclusive
  BY DEF Ownership
<1>2. QED
  BY <1>1, TypeInit, TypeStep, OwnershipInit, OwnershipStep, PTL DEF Spec

(* The row of a task in work is as its worker left it, so that             *)
(* recordSuccess and recordFailure, which update by id alone, overwrite    *)
(* nobody else's change, with the advisory lock or after it is released.   *)
THEOREM RowsOwned == Spec => []WorkerOwnsRow
<1>1. Ownership => WorkerOwnsRow
  BY DEF Ownership
<1>2. QED
  BY <1>1, TypeInit, TypeStep, OwnershipInit, OwnershipStep, PTL DEF Spec

(* What an analyst completed is never overwritten: a worker that still     *)
(* was out with the task would have a running row (recordSuccess and       *)
(* recordFailure update by id alone).                                      *)
THEOREM ManualAnswersStay == Spec => ManualAnswerFinal
<1> DEFINE Kept == \A t \in manual : status'[t] = "completed" /\ result'[t] = result[t]
<1>1. TypeInv /\ Ownership /\ [Next]_vars => Kept
  <2> USE DEF TypeInv, TypeOK, Ownership, WorkerOwnsRow, ManualCompleted, Working,
              rows, runState, history
  <2> SUFFICES ASSUME TypeInv, Ownership, Quiet \/ RowStep PROVE Kept
    BY QuietOrRowStep
  <2>1. CASE Quiet
    BY <2>1 DEF Quiet
  <2>2. ASSUME NEW r \in Runs, NEW a \in Articles, ScheduleArticle(r, a) PROVE Kept
    BY <2>2 DEF ScheduleArticle, Missing
  <2>3. ASSUME NEW r \in Runs, NEW t \in Task, ClaimTask(r, t) PROVE Kept
    BY <2>3 DEF ClaimTask, Claimable
  <2>4. ASSUME NEW r \in Runs, NEW t \in Task, CallModel(r, t) PROVE Kept
    BY <2>4 DEF CallModel
  <2>5. ASSUME NEW r \in Runs, NEW t \in Task, NEW res \in Results(NameOf(t)),
               RecordSuccess(r, t, res)
        PROVE  Kept
    BY <2>5 DEF RecordSuccess
  <2>6. ASSUME NEW r \in Runs, NEW t \in Task, RecordFailure(r, t) PROVE Kept
    BY <2>6 DEF RecordFailure, FailRow
  <2>7. ASSUME NEW r \in Runs, NEW t \in Task, AuditFails(r, t) PROVE Kept
    BY <2>7 DEF AuditFails, FailRow
  <2>8. ASSUME NEW t \in Task, AnalystRetry(t) PROVE Kept
    BY <2>8 DEF AnalystRetry
  <2>9. ASSUME NEW t \in Task, NEW res \in Results(NameOf(t)), AnalystComplete(t, res)
        PROVE  Kept
    BY <2>9 DEF AnalystComplete
  <2>10. QED
    BY <2>1, <2>2, <2>3, <2>4, <2>5, <2>6, <2>7, <2>8, <2>9 DEF RowStep
<1>2. QED
  BY <1>1, TypeInit, TypeStep, OwnershipInit, OwnershipStep, PTL DEF Spec, ManualAnswerFinal

(* A completed task is taken back only by the worker whose audit row could *)
(* not be written: failures are otherwise recorded on running rows, and    *)
(* analysts retry exhausted ones (drainTaskQueue's catch block).           *)
THEOREM CompletedStays == Spec => CompletedUntilAuditFails
<1> DEFINE Kept == \A t \in Task :
                     status[t] = "completed" /\ status'[t] # "completed" =>
                       \E r \in Runs : step[r][t] = "auditing" /\ step'[r][t] = "logging"
<1>1. TypeInv /\ Ownership /\ [Next]_vars => Kept
  <2> USE DEF TypeInv, TypeOK, Ownership, WorkerOwnsRow, rows, runState, history
  <2> SUFFICES ASSUME TypeInv, Ownership, Quiet \/ RowStep PROVE Kept
    BY QuietOrRowStep
  <2>1. CASE Quiet
    BY <2>1 DEF Quiet
  <2>2. ASSUME NEW r \in Runs, NEW a \in Articles, ScheduleArticle(r, a) PROVE Kept
    BY <2>2 DEF ScheduleArticle, Missing
  <2>3. ASSUME NEW r \in Runs, NEW t \in Task, ClaimTask(r, t) PROVE Kept
    BY <2>3 DEF ClaimTask, Claimable
  <2>4. ASSUME NEW r \in Runs, NEW t \in Task, CallModel(r, t) PROVE Kept
    BY <2>4 DEF CallModel
  <2>5. ASSUME NEW r \in Runs, NEW t \in Task, NEW res \in Results(NameOf(t)),
               RecordSuccess(r, t, res)
        PROVE  Kept
    BY <2>5 DEF RecordSuccess
  <2>6. ASSUME NEW r \in Runs, NEW t \in Task, RecordFailure(r, t) PROVE Kept
    BY <2>6 DEF RecordFailure, FailRow
  <2>7. ASSUME NEW r \in Runs, NEW t \in Task, AuditFails(r, t) PROVE Kept
    BY <2>7 DEF AuditFails, FailRow
  <2>8. ASSUME NEW t \in Task, AnalystRetry(t) PROVE Kept
    BY <2>8 DEF AnalystRetry
  <2>9. ASSUME NEW t \in Task, NEW res \in Results(NameOf(t)), AnalystComplete(t, res)
        PROVE  Kept
    BY <2>9 DEF AnalystComplete
  <2>10. QED
    BY <2>1, <2>2, <2>3, <2>4, <2>5, <2>6, <2>7, <2>8, <2>9 DEF RowStep
<1>2. QED
  BY <1>1, TypeInit, TypeStep, OwnershipInit, OwnershipStep, PTL
     DEF Spec, CompletedUntilAuditFails

-----------------------------------------------------------------------------
(* The advisory lock.  Only the steps that enter or leave the phases of a  *)
(* run touch it.                                                           *)
LEMMA LockStep == TypeInv /\ LockHeldInRun /\ [Next]_vars => LockHeldInRun'
<1> USE ConstantsAssumption
        DEF TypeInv, TypeOK, LockHeldInRun, InRun, Phases, rows, runState, history
<1> SUFFICES ASSUME TypeInv, LockHeldInRun, [Next]_vars PROVE LockHeldInRun'
  OBVIOUS
<1>1. ASSUME UNCHANGED <<lock, pc>> PROVE LockHeldInRun'
  BY <1>1
<1>2. ASSUME NEW r \in Runs, StartRun(r) PROVE LockHeldInRun'
  BY <1>2 DEF StartRun
<1>3. ASSUME NEW r \in Runs, StartDrains(r) PROVE LockHeldInRun'
  BY <1>3 DEF StartDrains
<1>4. ASSUME NEW r \in Runs, StartPhase2(r) PROVE LockHeldInRun'
  BY <1>4 DEF StartPhase2
<1>5. ASSUME NEW r \in Runs, FinishRun(r) PROVE LockHeldInRun'
  BY <1>5 DEF FinishRun
<1>6. ASSUME NEW r \in Runs, FailRun(r) PROVE LockHeldInRun'
  BY <1>6 DEF FailRun
<1>7. ASSUME NEW r \in Runs, Crash(r) PROVE LockHeldInRun'
  BY <1>7 DEF Crash
<1>8. ASSUME Environment PROVE UNCHANGED <<lock, pc>>
  BY <1>8 DEF Environment, ExtractArticle, BackoffElapses, AnalystRetry, AnalystComplete
<1>9. ASSUME NEW r \in Runs, NEW t \in Task, WorkOn(r, t) \/ AuditFails(r, t)
      PROVE  UNCHANGED <<lock, pc>>
  BY <1>9 DEF WorkOn, ClaimTask, CallModel, RecordSuccess, RecordFailure, AuditSuccess,
              LogError, AuditFails
<1>10. ASSUME NEW r \in Runs, NEW a \in Articles, ScheduleArticle(r, a)
       PROVE  UNCHANGED <<lock, pc>>
  BY <1>10 DEF ScheduleArticle
<1>11. ASSUME NEW r \in Runs, NEW n \in Names, FinishClaiming(r, n) \/ FinishDrain(r, n)
       PROVE  UNCHANGED <<lock, pc>>
  BY <1>11 DEF FinishClaiming, FinishDrain
<1>12. ASSUME NEW r \in Runs,
              \/ ScheduleThrows(r)
              \/ \E n \in Names : ClaimThrows(r, n)
              \/ \E t \in Task : WorkerThrows(r, t)
       PROVE  FailRun(r)
  BY <1>12 DEF ScheduleThrows, ClaimThrows, WorkerThrows
<1>13. CASE UNCHANGED vars
  BY <1>13, <1>1 DEF vars
<1>14. QED
  BY <1>1, <1>2, <1>3, <1>4, <1>5, <1>6, <1>7, <1>8, <1>9, <1>10, <1>11, <1>12, <1>13
     DEF Next, RunStep, Fault

(* A run is in its phases exactly while it holds the advisory lock, so no  *)
(* two runs are, and a run that fails or ends unlocks for none but itself  *)
(* (runScheduledPipeline).                                                 *)
THEOREM LockIsHeld == Spec => []LockHeldInRun
<1>1. Init => LockHeldInRun
  BY ConstantsAssumption DEF Init, LockHeldInRun, InRun, Phases
<1>2. QED
  BY <1>1, TypeInit, TypeStep, LockStep, PTL DEF Spec

-----------------------------------------------------------------------------
(* The retry budget.  The bound on the requests alone is not inductive: it *)
(* needs the attempts the row counted, which lag by one while an           *)
(* invocation is out, and room for one more in whatever can be claimed.    *)
Spent == [t \in Task |-> [k \in Nat |-> Requests(NameOf(t)) * k]]

LEMMA Spending ==
  ASSUME NEW t \in Task
  PROVE  /\ Requests(NameOf(t)) \in Nat
         /\ \A k \in Nat : /\ Spent[t][k] \in Nat
                           /\ Spent[t][k + 1] = Spent[t][k] + Requests(NameOf(t))
         /\ \A j, k \in Nat : j <= k => Spent[t][j] <= Spent[t][k]
<1>1. Requests(NameOf(t)) \in Nat
  BY ConstantsAssumption DEF Requests
<1>2. ASSUME NEW n \in Nat, NEW k \in Nat
      PROVE  n * k \in Nat /\ n * (k + 1) = n * k + n
  OBVIOUS
<1>3. ASSUME NEW n \in Nat, NEW j \in Nat, NEW k \in Nat, j <= k
      PROVE  n * j <= n * k
  <2>1. PICK d \in Nat : k = j + d
    BY <1>3
  <2>2. n * k = n * j + n * d /\ n * d \in Nat /\ n * j \in Nat
    BY <2>1
  <2>3. QED
    BY <2>2
<1>4. QED
  BY <1>1, <1>2, <1>3 DEF Spent

BudgetOf(t) ==
  /\ calls[t] <= Spent[t][MaxAttempts + retries[t]]
  /\ calls[t] <= Spent[t][attempts[t] + 1]
  /\ status[t] # "running" => calls[t] <= Spent[t][attempts[t]]
  /\ status[t] \in {"absent", "pending"} =>
       calls[t] + Requests(NameOf(t)) <= Spent[t][MaxAttempts + retries[t]]
  /\ \A r \in Runs :
       step[r][t] = "queued" =>
         /\ calls[t] <= Spent[t][attempts[t]]
         /\ calls[t] + Requests(NameOf(t)) <= Spent[t][MaxAttempts + retries[t]]

Budget == \A t \in Task : BudgetOf(t)

LEMMA BudgetInit == Init => Budget
<1> SUFFICES ASSUME Init, NEW t \in Task
             PROVE  /\ 0 <= Spent[t][MaxAttempts + 0]
                    /\ 0 <= Spent[t][0 + 1] /\ 0 <= Spent[t][0]
                    /\ 0 + Requests(NameOf(t)) <= Spent[t][MaxAttempts + 0]
  BY DEF Init, Budget, BudgetOf
<1>1. Spent[t][0] = 0 /\ Spent[t][1] = Requests(NameOf(t))
  BY Spending DEF Spent
<1>2. MaxAttempts \in Nat /\ 1 <= MaxAttempts
  BY ConstantsAssumption
<1>3. QED
  BY <1>1, <1>2, Spending

LEMMA BudgetStep == TypeInv /\ Ownership /\ Budget /\ [Next]_vars => Budget'
<1> USE DEF TypeInv, TypeOK, Ownership, WorkerOwnsRow, Working, BudgetOf, rows, runState, history
<1> SUFFICES ASSUME TypeInv, Ownership, Budget, Quiet \/ RowStep, NEW u \in Task
             PROVE  BudgetOf(u)'
  BY QuietOrRowStep DEF Budget
<1>a. /\ attempts[u] \in Nat /\ retries[u] \in Nat /\ calls[u] \in Nat
      /\ MaxAttempts \in Nat /\ 1 <= MaxAttempts
  BY ConstantsAssumption
<1>b. /\ Requests(NameOf(u)) \in Nat
      /\ Spent[u][attempts[u]] \in Nat
      /\ Spent[u][MaxAttempts + retries[u]] \in Nat
      /\ Spent[u][attempts[u] + 1] = Spent[u][attempts[u]] + Requests(NameOf(u))
      /\ Spent[u][attempts[u] + 1 + 1] = Spent[u][attempts[u] + 1] + Requests(NameOf(u))
      /\ Spent[u][MaxAttempts + (retries[u] + 1)]
           = Spent[u][MaxAttempts + retries[u]] + Requests(NameOf(u))
  <2> /\ attempts[u] + 1 \in Nat /\ MaxAttempts + retries[u] \in Nat
      /\ MaxAttempts + (retries[u] + 1) = (MaxAttempts + retries[u]) + 1
    BY <1>a
  <2> QED
    BY <1>a, Spending
<1>c. attempts[u] + 1 < MaxAttempts =>
        Spent[u][attempts[u] + 1 + 1] <= Spent[u][MaxAttempts + retries[u]]
  BY <1>a, Spending
<1>d. BudgetOf(u)
  BY DEF Budget
<1>1. CASE Quiet
  BY <1>1, <1>d DEF Quiet
<1>2. ASSUME NEW r \in Runs, NEW a \in Articles, ScheduleArticle(r, a) PROVE BudgetOf(u)'
  BY <1>2, <1>d DEF ScheduleArticle, Missing
<1>3. ASSUME NEW r \in Runs, NEW t \in Task, ClaimTask(r, t) PROVE BudgetOf(u)'
  BY <1>3, <1>d DEF ClaimTask, Claimable
<1>4. ASSUME NEW r \in Runs, NEW t \in Task, CallModel(r, t) PROVE BudgetOf(u)'
  <2>1. PICK k \in 1 .. Requests(NameOf(t)) : calls' = [calls EXCEPT ![t] = @ + k]
    BY <1>4 DEF CallModel
  <2>2. /\ step[r][t] = "queued" /\ step' = [step EXCEPT ![r][t] = "calling"]
        /\ UNCHANGED <<status, attempts, retries>>
    BY <1>4 DEF CallModel
  <2>3. CASE t = u
    <3>1. calls'[u] = calls[u] + k /\ k \in Nat /\ k <= Requests(NameOf(u))
      BY <2>1, <2>3, <1>b
    <3>2. /\ calls[u] <= Spent[u][attempts[u]]
          /\ calls[u] + Requests(NameOf(u)) <= Spent[u][MaxAttempts + retries[u]]
          /\ status[u] = "running"
      BY <2>2, <2>3, <1>d
    <3>3. \A q \in Runs : step'[q][u] # "queued"
      BY <2>2, <2>3 DEF WorkExclusive
    <3>4. QED
      BY <3>1, <3>2, <3>3, <2>2, <1>a, <1>b
  <2>4. CASE t # u
    BY <2>1, <2>2, <2>4, <1>d
  <2>5. QED
    BY <2>3, <2>4
<1>5. ASSUME NEW r \in Runs, NEW t \in Task, NEW res \in Results(NameOf(t)),
             RecordSuccess(r, t, res)
      PROVE  BudgetOf(u)'
  BY <1>5, <1>a, <1>b, <1>d DEF RecordSuccess, WorkExclusive
<1>6. ASSUME NEW r \in Runs, NEW t \in Task, RecordFailure(r, t) PROVE BudgetOf(u)'
  BY <1>6, <1>a, <1>b, <1>c, <1>d DEF RecordFailure, FailRow, WorkExclusive
<1>7. ASSUME NEW r \in Runs, NEW t \in Task, AuditFails(r, t) PROVE BudgetOf(u)'
  BY <1>7, <1>a, <1>b, <1>c, <1>d DEF AuditFails, FailRow, WorkExclusive
<1>8. ASSUME NEW t \in Task, AnalystRetry(t) PROVE BudgetOf(u)'
  BY <1>8, <1>a, <1>b, <1>d DEF AnalystRetry
<1>9. ASSUME NEW t \in Task, NEW res \in Results(NameOf(t)), AnalystComplete(t, res)
      PROVE  BudgetOf(u)'
  BY <1>9, <1>d DEF AnalystComplete
<1>10. QED
  BY <1>1, <1>2, <1>3, <1>4, <1>5, <1>6, <1>7, <1>8, <1>9 DEF RowStep

(* The requests sent to the model for a task stay within those of its      *)
(* attempts and of the retries of analysts - chunks of CVE ids and the     *)
(* client's own retries included - through crashes, leftovers and failed   *)
(* audits (recordFailure and retry of analysis-task.repository.ts, the     *)
(* loop of generateCveInterpretation).                                     *)
THEOREM CallsBounded == Spec => []CallsWithinBudget
<1>1. Init => TypeInv /\ Ownership /\ Budget
  BY TypeInit, OwnershipInit, BudgetInit
<1>2. TypeInv /\ Ownership /\ Budget /\ [Next]_vars => (TypeInv /\ Ownership /\ Budget)'
  BY TypeStep, OwnershipStep, BudgetStep
<1>3. TypeInv /\ Budget => CallsWithinBudget
  <2> SUFFICES ASSUME TypeInv, Budget, NEW t \in Task
               PROVE  calls[t] <= Requests(NameOf(t)) * (MaxAttempts + retries[t])
    BY DEF CallsWithinBudget
  <2>1. MaxAttempts + retries[t] \in Nat
    BY ConstantsAssumption DEF TypeInv, TypeOK
  <2>2. Spent[t][MaxAttempts + retries[t]] = Requests(NameOf(t)) * (MaxAttempts + retries[t])
    BY <2>1 DEF Spent
  <2>3. QED
    BY <2>2 DEF Budget, BudgetOf
<1>4. QED
  BY <1>1, <1>2, <1>3, PTL DEF Spec

-----------------------------------------------------------------------------
(* What the rows of an article say of each other.                          *)
RowSound(t) ==
  /\ status[t] = "needs_attention" => attempts[t] >= MaxAttempts
  /\ status[t] = "completed" => result[t] \in Results(NameOf(t))

LetIn(a) ==
  status[<<a, "interpretation">>] # "absent" =>
    a \in WithCves /\ (Actionable(a) \/ <<a, "disposition">> \in unaudited)

Records == (\A t \in Task : RowSound(t)) /\ \A a \in Articles : LetIn(a)

LEMMA RecordsStep == TypeInv /\ Ownership /\ Records /\ [Next]_vars => Records'
<1>0. (\E t \in Task : TRUE) <=> (\E a \in Articles : TRUE)
  <2>1. \A a \in Articles : <<a, "summary">> \in Task
    BY DEF Task, Names
  <2>2. \A t \in Task : t[1] \in Articles
    BY DEF Task
  <2>3. QED
    BY <2>1, <2>2
<1> SUFFICES ASSUME TypeInv, Ownership, Records, Quiet \/ RowStep,
                    NEW u \in Task, NEW b \in Articles
             PROVE  RowSound(u)' /\ LetIn(b)'
  BY <1>0, QuietOrRowStep DEF Records
<1> USE DEF TypeInv, TypeOK, Ownership, WorkerOwnsRow, Working, RowSound, LetIn, Actionable,
            rows, runState, history
<1>a. RowSound(u) /\ LetIn(b)
  BY DEF Records
<1>b. /\ <<b, "disposition">> \in Task /\ <<b, "interpretation">> \in Task
      /\ MaxAttempts \in Nat
  BY ConstantsAssumption DEF Task, Names
<1>1. CASE Quiet
  BY <1>1, <1>a, <1>b DEF Quiet
<1>2. ASSUME NEW r \in Runs, NEW a \in Articles, ScheduleArticle(r, a)
      PROVE  RowSound(u)' /\ LetIn(b)'
  <2>1. /\ status' = [t \in Task |-> IF t \in Missing(a) THEN "pending" ELSE status[t]]
        /\ UNCHANGED <<attempts, result, unaudited>>
    BY <1>2 DEF ScheduleArticle
  <2>2. RowSound(u)'
    BY <2>1, <1>a
  <2>3. ASSUME <<b, "interpretation">> \in Missing(a) PROVE b \in WithCves /\ Actionable(b)
    BY <2>3 DEF Missing, Wanted, NameOf
  <2>4. Actionable(b) => Actionable(b)'
    BY <2>1, <1>b DEF Missing
  <2>5. LetIn(b)'
    BY <2>1, <2>3, <2>4, <1>a, <1>b
  <2>6. QED
    BY <2>2, <2>5
<1>3. ASSUME NEW r \in Runs, NEW t \in Task, ClaimTask(r, t)
      PROVE  RowSound(u)' /\ LetIn(b)'
  <2>1. /\ status[t] = "pending" /\ status' = [status EXCEPT ![t] = "running"]
        /\ UNCHANGED <<attempts, result, unaudited>>
    BY <1>3 DEF ClaimTask, Claimable
  <2>2. QED
    BY <2>1, <1>a, <1>b
<1>4. ASSUME NEW r \in Runs, NEW t \in Task, CallModel(r, t)
      PROVE  RowSound(u)' /\ LetIn(b)'
  BY <1>4, <1>a, <1>b DEF CallModel
<1>5. ASSUME NEW r \in Runs, NEW t \in Task, NEW res \in Results(NameOf(t)),
             RecordSuccess(r, t, res)
      PROVE  RowSound(u)' /\ LetIn(b)'
  BY <1>5, <1>a, <1>b DEF RecordSuccess
<1>6. ASSUME NEW r \in Runs, NEW t \in Task, RecordFailure(r, t)
      PROVE  RowSound(u)' /\ LetIn(b)'
  BY <1>6, <1>a, <1>b DEF RecordFailure, FailRow
<1>7. ASSUME NEW r \in Runs, NEW t \in Task, AuditFails(r, t)
      PROVE  RowSound(u)' /\ LetIn(b)'
  BY <1>7, <1>a, <1>b DEF AuditFails, FailRow
<1>8. ASSUME NEW t \in Task, AnalystRetry(t) PROVE RowSound(u)' /\ LetIn(b)'
  BY <1>8, <1>a, <1>b DEF AnalystRetry
<1>9. ASSUME NEW t \in Task, NEW res \in Results(NameOf(t)), AnalystComplete(t, res)
      PROVE  RowSound(u)' /\ LetIn(b)'
  BY <1>9, <1>a, <1>b DEF AnalystComplete
<1>10. QED
  BY <1>1, <1>2, <1>3, <1>4, <1>5, <1>6, <1>7, <1>8, <1>9 DEF RowStep

LEMMA RecordsInit == Init => Records
BY DEF Init, Records, RowSound, LetIn, Task, Names

(* A task in the analysts' hands used its attempts and is in nobody else's *)
(* hands, and a completed one has an answer of its kind (recordFailure,    *)
(* recordSuccess and the analysts' actions).                               *)
THEOREM RecordsHold == Spec => []ExhaustedOrAnswered
<1>1. Ownership /\ Records => ExhaustedOrAnswered
  BY DEF Ownership, WorkerOwnsRow, Working, Records, RowSound, ExhaustedOrAnswered
<1>2. QED
  BY <1>1, RecordsInit, TypeInit, TypeStep, OwnershipInit, OwnershipStep, RecordsStep, PTL
     DEF Spec

(* An interpretation rests on a decision to look at the article, whichever *)
(* run scheduled it and whatever was retried since                         *)
(* (scheduleTasksForArticle).                                              *)
THEOREM InterpretationsFollow == Spec => []InterpretationAfterDisposition
<1>1. Records => InterpretationAfterDisposition
  BY DEF Records, LetIn, InterpretationAfterDisposition
<1>2. QED
  BY <1>1, RecordsInit, TypeInit, TypeStep, OwnershipInit, OwnershipStep, RecordsStep, PTL
     DEF Spec

-----------------------------------------------------------------------------
(* The queue of AnalysisTasks implements TaskQueue: every step of a run,   *)
(* of a fault or of an analyst is a step of the promised queue or leaves   *)
(* it alone.                                                               *)

Promised == Queue!Next \/ UNCHANGED <<status, result, Holders>>

(* A step that touches no row and lets run r drop some tasks.              *)
LEMMA Dropping ==
  ASSUME TypeInv, NEW r \in Runs, UNCHANGED <<status, result>>,
         \A q \in Runs, t \in Task : q # r => step'[q][t] = step[q][t],
         \A t \in Task : step'[r][t] \in {step[r][t], "none"}
  PROVE  Promised
<1> DEFINE T == {t \in Task : step'[r][t] \notin Working}
<1>1. Holders' = [t \in Task |-> IF t \in T THEN Holders[t] \ {r} ELSE Holders[t]]
  BY DEF Holders, Working
<1>2. Queue!LetGo(r, T)
  BY <1>1 DEF Queue!LetGo
<1>3. T \in SUBSET Task
  OBVIOUS
<1>4. QED
  BY <1>2, <1>3 DEF Promised, Queue!Next

(* A step in which nobody takes or leaves a task and no row changes.       *)
LEMMA Standing ==
  ASSUME UNCHANGED <<status, result, step>>
  PROVE  Promised
BY DEF Promised, Holders

LEMMA Claiming ==
  ASSUME TypeInv, Ownership, NEW r \in Runs, NEW t \in Task, ClaimTask(r, t)
  PROVE  Promised
<1> USE DEF TypeInv, TypeOK, Ownership, WorkerOwnsRow, Working, ClaimTask, Claimable
<1>1. status[t] = "pending" /\ \A q \in Runs : step[q][t] \notin Working
  OBVIOUS
<1>2. Holders[t] = {}
  BY <1>1 DEF Holders
<1>3. Holders' = [Holders EXCEPT ![t] = {r}]
  <2>1. \A q \in Runs : step'[q][t] \in Working <=> q = r
    BY <1>1
  <2>2. \A q \in Runs, u \in Task : u # t => step'[q][u] = step[q][u]
    OBVIOUS
  <2> HIDE DEF TypeInv, TypeOK, Ownership, WorkerOwnsRow, Working, ClaimTask, Claimable
  <2>3. ASSUME NEW u \in Task
        PROVE  {q \in Runs : step'[q][u] \in Working} = IF u = t THEN {r} ELSE Holders[u]
    BY <2>1, <2>2 DEF Holders
  <2>4. QED
    BY <2>3 DEF Holders
<1>4. Queue!Claim(r, t)
  BY <1>1, <1>2, <1>3 DEF Queue!Claim
<1>5. QED
  BY <1>4 DEF Promised, Queue!Next

LEMMA Answering ==
  ASSUME TypeInv, Ownership, NEW r \in Runs, NEW t \in Task,
         NEW res \in Results(NameOf(t)), RecordSuccess(r, t, res)
  PROVE  Promised
<1> USE DEF TypeInv, TypeOK, Ownership, WorkExclusive, WorkerOwnsRow, Working,
            RecordSuccess
<1>1. Holders[t] = {r}
  BY DEF Holders
<1>2. Holders' = Holders
  <2>1. \A q \in Runs, u \in Task : step'[q][u] \in Working <=> step[q][u] \in Working
    OBVIOUS
  <2> HIDE DEF TypeInv, TypeOK, Ownership, WorkExclusive, WorkerOwnsRow, Working,
               RecordSuccess
  <2>2. QED
    BY <2>1 DEF Holders
<1>3. res \in {"actionable", "dismissed", "text"}
  BY DEF Results
<1>4. Queue!Answer(r, t, res)
  BY <1>1, <1>2 DEF Queue!Answer
<1>5. QED
  BY <1>3, <1>4 DEF Promised, Queue!Next

LEMMA Failing ==
  ASSUME TypeInv, Ownership, NEW r \in Runs, NEW t \in Task,
         RecordFailure(r, t) \/ AuditFails(r, t)
  PROVE  Promised
<1> USE DEF TypeInv, TypeOK, Ownership, WorkExclusive, WorkerOwnsRow, Working
<1>1. /\ step[r][t] \in {"calling", "auditing"}
      /\ step' = [step EXCEPT ![r][t] = "logging"]
      /\ UNCHANGED result
      /\ \E s \in {"pending", "needs_attention"} : status' = [status EXCEPT ![t] = s]
  <2>1. CASE RecordFailure(r, t)
    BY <2>1 DEF RecordFailure, FailRow
  <2>2. CASE AuditFails(r, t)
    BY <2>2 DEF AuditFails, FailRow
  <2>3. QED
    BY <2>1, <2>2
<1>2. Holders[t] = {r}
  BY <1>1 DEF Holders
<1>3. Holders' = [Holders EXCEPT ![t] = {}]
  <2>1. \A q \in Runs : step'[q][t] \notin Working
    BY <1>1
  <2>2. \A q \in Runs, u \in Task : u # t => step'[q][u] = step[q][u]
    BY <1>1
  <2> HIDE DEF TypeInv, TypeOK, Ownership, WorkExclusive, WorkerOwnsRow, Working
  <2>3. ASSUME NEW u \in Task
        PROVE  {q \in Runs : step'[q][u] \in Working} = IF u = t THEN {} ELSE Holders[u]
    BY <2>1, <2>2 DEF Holders
  <2>4. QED
    BY <2>3 DEF Holders
<1>4. Queue!GiveUp(r, t)
  BY <1>1, <1>2, <1>3 DEF Queue!GiveUp
<1>5. QED
  BY <1>4 DEF Promised, Queue!Next

LEMMA ByAnalysts ==
  ASSUME TypeInv, Ownership, NEW t \in Task,
         AnalystRetry(t) \/ \E res \in Results(NameOf(t)) : AnalystComplete(t, res)
  PROVE  Promised
<1> USE DEF TypeInv, TypeOK, Ownership, WorkerOwnsRow, Working, runState
<1>1. status[t] = "needs_attention" /\ step' = step
  <2>1. CASE AnalystRetry(t)
    BY <2>1 DEF AnalystRetry
  <2>2. ASSUME NEW res \in Results(NameOf(t)), AnalystComplete(t, res)
        PROVE  status[t] = "needs_attention" /\ step' = step
    BY <2>2 DEF AnalystComplete
  <2>3. QED
    BY <2>1, <2>2
<1>2. Holders[t] = {} /\ UNCHANGED Holders
  BY <1>1 DEF Holders
<1>3. CASE AnalystRetry(t)
  <2>1. Queue!Reopen(t)
    BY <1>1, <1>2, <1>3 DEF AnalystRetry, Queue!Reopen
  <2>2. QED
    BY <2>1 DEF Promised, Queue!Next
<1>4. ASSUME NEW res \in Results(NameOf(t)), AnalystComplete(t, res) PROVE Promised
  <2>1. res \in {"actionable", "dismissed", "text"}
    BY DEF Results
  <2>2. Queue!AnswerByHand(t, res)
    BY <1>1, <1>2, <1>4 DEF AnalystComplete, Queue!AnswerByHand
  <2>3. QED
    BY <2>1, <2>2 DEF Promised, Queue!Next
<1>5. QED
  BY <1>3, <1>4

LEMMA StepPromised == TypeInv /\ Ownership /\ [Next]_vars => Promised
<1> USE DEF rows, runState, history
<1> SUFFICES ASSUME TypeInv, Ownership, [Next]_vars PROVE Promised
  OBVIOUS
<1>1. ASSUME NEW a \in Articles, ExtractArticle(a) PROVE Promised
  BY <1>1, Standing DEF ExtractArticle
<1>2. ASSUME NEW t \in Task, BackoffElapses(t) PROVE Promised
  BY <1>2, Standing DEF BackoffElapses
<1>3. ASSUME NEW t \in Task, AnalystRetry(t) PROVE Promised
  BY <1>3, ByAnalysts
<1>4. ASSUME NEW t \in Task, NEW res \in Results(NameOf(t)), AnalystComplete(t, res)
      PROVE  Promised
  BY <1>4, ByAnalysts
<1>5. ASSUME NEW r \in Runs, StartRun(r) \/ StartDrains(r) \/ StartPhase2(r) \/ FinishRun(r)
      PROVE  Promised
  <2>1. UNCHANGED <<status, result, step>>
    BY <1>5 DEF StartRun, StartDrains, StartPhase2, FinishRun
  <2>2. QED
    BY <2>1, Standing
<1>6. ASSUME NEW r \in Runs, NEW a \in Articles, ScheduleArticle(r, a) PROVE Promised
  <2>1. Queue!Enqueue(Missing(a)) /\ Missing(a) \in SUBSET Task
    BY <1>6 DEF ScheduleArticle, Missing, Task, Holders, Queue!Enqueue
  <2>2. QED
    BY <2>1 DEF Promised, Queue!Next
<1>7. ASSUME NEW r \in Runs, NEW t \in Task, ClaimTask(r, t) PROVE Promised
  BY <1>7, Claiming
<1>8. ASSUME NEW r \in Runs, NEW t \in Task, CallModel(r, t) PROVE Promised
  <2>1. Holders' = Holders
    BY <1>8 DEF CallModel, Holders, Working, TypeInv, TypeOK
  <2>2. QED
    BY <1>8, <2>1 DEF CallModel, Promised
<1>9. ASSUME NEW r \in Runs, NEW t \in Task, NEW res \in Results(NameOf(t)),
             RecordSuccess(r, t, res)
      PROVE  Promised
  BY <1>9, Answering
<1>10. ASSUME NEW r \in Runs, NEW t \in Task, RecordFailure(r, t) \/ AuditFails(r, t)
       PROVE  Promised
  BY <1>10, Failing
<1>11. ASSUME NEW r \in Runs, NEW t \in Task, AuditSuccess(r, t) \/ LogError(r, t)
       PROVE  Promised
  <2>1. UNCHANGED <<status, result>> /\ step' = [step EXCEPT ![r][t] = "none"]
    <3>1. CASE AuditSuccess(r, t)
      BY <3>1 DEF AuditSuccess
    <3>2. CASE LogError(r, t)
      BY <3>2 DEF LogError
    <3>3. QED
      BY <1>11, <3>1, <3>2
  <2>2. QED
    BY <2>1, Dropping DEF TypeInv, TypeOK
<1>12. ASSUME NEW r \in Runs, NEW n \in Names, FinishClaiming(r, n) \/ FinishDrain(r, n)
       PROVE  Promised
  <2>1. UNCHANGED <<status, result, step>>
    BY <1>12 DEF FinishClaiming, FinishDrain
  <2>2. QED
    BY <2>1, Standing
<1>13. ASSUME NEW r \in Runs, ScheduleThrows(r) PROVE Promised
  BY <1>13, Standing DEF ScheduleThrows, FailRun
<1>14. ASSUME NEW r \in Runs, NEW T, UNCHANGED <<status, result>>, Forget(r, T)
       PROVE  Promised
  BY <1>14, Dropping DEF Forget, TypeInv, TypeOK
<1>15. ASSUME NEW r \in Runs, NEW n \in Names, ClaimThrows(r, n) PROVE Promised
  BY <1>14, <1>15 DEF ClaimThrows, FailRun
<1>16. ASSUME NEW r \in Runs, NEW t \in Task, WorkerThrows(r, t) PROVE Promised
  BY <1>14, <1>16 DEF WorkerThrows, FailRun
<1>17. ASSUME NEW r \in Runs, Crash(r) PROVE Promised
  BY <1>14, <1>17 DEF Crash
<1>18. CASE UNCHANGED vars
  BY <1>18, Standing DEF vars
<1>19. QED
  BY <1>1, <1>2, <1>3, <1>4, <1>5, <1>6, <1>7, <1>8, <1>9, <1>10, <1>11, <1>12, <1>13,
     <1>15, <1>16, <1>17, <1>18
     DEF Next, Environment, RunStep, Fault, WorkOn

(* The pipeline's task queue, with its batches, lanes, lock, backoff and   *)
(* faults, is the promised queue (ImplementsQueue): the claim and the two  *)
(* writes by id (analysis-task.repository.ts) only ever touch a task that  *)
(* nobody else holds.                                                      *)
THEOREM QueueImplemented == Spec => ImplementsQueue
<1>1. Init => Queue!Init
  BY DEF Init, Queue!Init, Holders, Working
<1>2. Init => TypeInv /\ Ownership
  BY TypeInit, OwnershipInit
<1>3. TypeInv /\ Ownership /\ [Next]_vars => (TypeInv /\ Ownership)'
  BY TypeStep, OwnershipStep
<1>4. TypeInv /\ Ownership /\ [Next]_vars => [Queue!Next]_(Queue!vars)
  BY StepPromised DEF Promised, Queue!vars
<1>5. QED
  BY <1>1, <1>2, <1>3, <1>4, PTL DEF Spec, ImplementsQueue, Queue!Spec
=============================================================================
