------------------------------ MODULE TaskQueue ------------------------------
(***************************************************************************)
(* What table analysis_tasks promises to those who work with it, without   *)
(* runs, batches, lanes, locks or backoff: a pending task can be claimed   *)
(* by one worker, only its holder decides what becomes of it, and only     *)
(* people act on a task that exhausted its attempts.  A holder can         *)
(* disappear; the promise says nothing of what happens to its tasks, as    *)
(* the code does nothing about them.                                       *)
(***************************************************************************)
CONSTANTS Task, Workers, Answers, None

VARIABLES
  status,    \* status of each task
  result,    \* its answer
  holders    \* the workers that hold it between claim and outcome

vars == <<status, result, holders>>

Init ==
  /\ status = [t \in Task |-> "absent"]
  /\ result = [t \in Task |-> None]
  /\ holders = [t \in Task |-> {}]

Enqueue(T) ==
  /\ \A t \in T : status[t] = "absent"
  /\ status' = [t \in Task |-> IF t \in T THEN "pending" ELSE status[t]]
  /\ UNCHANGED <<result, holders>>

Claim(w, t) ==
  /\ status[t] = "pending"
  /\ holders[t] = {}
  /\ status' = [status EXCEPT ![t] = "running"]
  /\ holders' = [holders EXCEPT ![t] = {w}]
  /\ UNCHANGED result

Answer(w, t, res) ==
  /\ status[t] = "running"
  /\ holders[t] = {w}
  /\ status' = [status EXCEPT ![t] = "completed"]
  /\ result' = [result EXCEPT ![t] = res]
  /\ UNCHANGED holders

(* The holder gives up: a failed call, or an answer it could not audit.    *)
GiveUp(w, t) ==
  /\ holders[t] = {w}
  /\ \E s \in {"pending", "needs_attention"} : status' = [status EXCEPT ![t] = s]
  /\ holders' = [holders EXCEPT ![t] = {}]
  /\ UNCHANGED result

(* Worker w lets go of the tasks in T, which stay as they are: an answer   *)
(* is on record, or the worker is gone.                                    *)
LetGo(w, T) ==
  /\ UNCHANGED <<status, result>>
  /\ holders' = [t \in Task |-> IF t \in T THEN holders[t] \ {w} ELSE holders[t]]

Reopen(t) ==
  /\ status[t] = "needs_attention"
  /\ holders[t] = {}
  /\ status' = [status EXCEPT ![t] = "pending"]
  /\ UNCHANGED <<result, holders>>

AnswerByHand(t, res) ==
  /\ status[t] = "needs_attention"
  /\ holders[t] = {}
  /\ status' = [status EXCEPT ![t] = "completed"]
  /\ result' = [result EXCEPT ![t] = res]
  /\ UNCHANGED holders

Next ==
  \/ \E T \in SUBSET Task : Enqueue(T)
  \/ \E w \in Workers, T \in SUBSET Task : LetGo(w, T)
  \/ \E w \in Workers, t \in Task : Claim(w, t) \/ GiveUp(w, t)
  \/ \E w \in Workers, t \in Task, res \in Answers : Answer(w, t, res)
  \/ \E t \in Task : Reopen(t)
  \/ \E t \in Task, res \in Answers : AnswerByHand(t, res)

Spec == Init /\ [][Next]_vars
=============================================================================
