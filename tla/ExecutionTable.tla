---------------------------- MODULE ExecutionTable ----------------------------
(***************************************************************************)
(* The executions and execution_attempts tables as the rest of the system  *)
(* sees them: each call of the repository takes effect in one step.        *)
(* StoreTransactions shows that the transactions behind the calls do.      *)
(*                                                                         *)
(* Rows are never deleted.  The status is written without looking at the   *)
(* one it replaces.                                                        *)
(***************************************************************************)
EXTENDS Naturals

CONSTANTS
    Executions,     \* executions, one for each idempotency key
    Workers,
    NoWorker,       \* selected_worker_id is NULL
    MaxAttempts     \* bound: attempt numbers of one execution

ASSUME NoSelectedWorkerAssumption == NoWorker \notin Workers
ASSUME MaxAttemptsAssumption == MaxAttempts \in Nat

VARIABLES
    execution,      \* the row of an execution, NoExecution before it is inserted
    attempts,       \* attempts[e][n]: the row (e, n), NoAttempt before it is inserted
    writer          \* history: the attempt that wrote an execution's status last, 0 if none

tableVars == <<execution, attempts, writer>>

Outcomes == {"succeeded", "failed"}

(* ExecutionStatus::can_transition_to.  Nothing but its test calls it.     *)
Transitions ==
    {<<"scheduled", "queued">>, <<"scheduled", "skipped">>, <<"queued", "leased">>,
     <<"queued", "skipped">>, <<"leased", "running">>, <<"leased", "queued">>,
     <<"cancel_requested", "canceled">>, <<"cancel_requested", "timed_out">>,
     <<"retry_wait", "queued">>, <<"retry_wait", "failed">>}
    \cup {"running"} \X {"succeeded", "failed", "timed_out", "cancel_requested"}
    \cup {"failed", "timed_out"} \X {"retry_wait"}

AttemptNos == 1 .. MaxAttempts

NoExecution == [status |-> "absent", attempt_count |-> 0, selected_worker_id |-> NoWorker]
NoAttempt == [worker_id |-> NoWorker, status |-> "absent"]

Execution == [status: {"scheduled", "running"} \cup Outcomes,
              attempt_count: 0 .. MaxAttempts,
              selected_worker_id: Workers \cup {NoWorker}]
Attempt == [worker_id: Workers, status: {"running"} \cup Outcomes]

Exists(e) == execution[e] # NoExecution
Attempted(e, n) == attempts[e][n] # NoAttempt

Greatest(a, b) == IF a >= b THEN a ELSE b

(* COALESCE(MAX(attempt_no), 0) over the attempts of an execution. *)
Numbers(e) == {n \in AttemptNos : Attempted(e, n)}
Newest(e) == CHOOSE n \in Numbers(e) \cup {0} : \A m \in Numbers(e) : m <= n

(* The caller's number is a hint: Redis may have forgotten its counter. *)
MutantNextNumber(e, hint) == hint
NextNumber(e, hint) == Greatest(hint, Newest(e) + 1)

TableInit ==
    /\ execution = [e \in Executions |-> NoExecution]
    /\ attempts = [e \in Executions |-> [n \in AttemptNos |-> NoAttempt]]
    /\ writer = [e \in Executions |-> 0]

(* create_or_get_execution, for a key that is not there yet.  For one that *)
(* is, it reads the row and changes nothing.                               *)
MutantCreateExecution(e) ==
    /\ ~Exists(e)
    /\ execution' = [execution EXCEPT ![e] = [NoExecution EXCEPT !.status = "queued"]]
    /\ UNCHANGED <<attempts, writer>>

CreateExecution(e) ==
    /\ ~Exists(e)
    /\ execution' = [execution EXCEPT ![e] = [NoExecution EXCEPT !.status = "scheduled"]]
    /\ UNCHANGED <<attempts, writer>>

(* The rows create_attempt writes for attempt n of worker w. *)
MutantWriteAttempt(e, n, w) ==
    /\ attempts' = [attempts EXCEPT ![e][n] = [worker_id |-> w, status |-> "running"]]
    /\ execution' = [execution EXCEPT
                       ![e] = [status |-> "running",
                               attempt_count |-> @.attempt_count + 1,
                               selected_worker_id |-> w]]
    /\ writer' = [writer EXCEPT ![e] = n]

WriteAttempt(e, n, w) ==
    /\ attempts' = [attempts EXCEPT ![e][n] = [worker_id |-> w, status |-> "running"]]
    /\ execution' = [execution EXCEPT
                       ![e] = [status |-> "running",
                               attempt_count |-> Greatest(@.attempt_count, n),
                               selected_worker_id |-> w]]
    /\ writer' = [writer EXCEPT ![e] = n]

(* create_attempt *)
CreateAttempt(e, hint, w) ==
    /\ Exists(e)
    /\ NextNumber(e, hint) <= MaxAttempts
    /\ WriteAttempt(e, NextNumber(e, hint), w)

(* finish_attempt: the attempt's row and the execution's get the outcome,  *)
(* whichever attempt it is.  Its caller created the attempt and finishes   *)
(* it once.                                                                *)
FinishAttempt(e, n, outcome) ==
    /\ attempts[e][n].status = "running"
    /\ attempts' = [attempts EXCEPT ![e][n].status = outcome]
    /\ execution' = [execution EXCEPT ![e].status = outcome]
    /\ writer' = [writer EXCEPT ![e] = n]

TableNext ==
    \E e \in Executions :
        \/ CreateExecution(e)
        \/ \E hint \in AttemptNos, w \in Workers : CreateAttempt(e, hint, w)
        \/ \E n \in AttemptNos, outcome \in Outcomes : FinishAttempt(e, n, outcome)

TableSpec == TableInit /\ [][TableNext]_tableVars

-----------------------------------------------------------------------------
TableTypeOK ==
    /\ execution \in [Executions -> Execution \cup {NoExecution}]
    /\ attempts \in [Executions -> [AttemptNos -> Attempt \cup {NoAttempt}]]
    /\ \A e \in Executions : \A n \in AttemptNos : Attempted(e, n) => Exists(e)
    /\ writer \in [Executions -> 0 .. MaxAttempts]

(* attempt_count and selected_worker_id describe the newest attempt, also  *)
(* when numbers were skipped because the caller's hint ran ahead.          *)
CountsNewestAttempt ==
    \A e \in Executions :
        LET n == execution[e].attempt_count
        IN  /\ n = Newest(e)
            /\ n > 0 => execution[e].selected_worker_id = attempts[e][n].worker_id
            /\ n = 0 <=> execution[e].status \in {"absent", "scheduled"}

(* The status of an execution is that of the attempt that wrote it last,   *)
(* and this is the newest attempt, or an older one that has ended:         *)
(* finish_attempt does not look which attempt it is, so the end of an old  *)
(* attempt may stand over the newest one, running or ended.  What cannot   *)
(* be is a status that is no attempt's, or "running" when the newest is    *)
(* not.                                                                    *)
StatusHasAttempt ==
    \A e \in Executions :
        LET n == writer[e]
            newest == execution[e].attempt_count
        IN  /\ n > 0 => execution[e].status = attempts[e][n].status
            /\ n # newest => 0 < n /\ n < newest /\ attempts[e][n].status \in Outcomes

(* The two together, for the pages that show executions and attempts. *)
TablesAgree == CountsNewestAttempt /\ StatusHasAttempt

(* An attempt that is added is newer than all there are, and the rows      *)
(* there are keep their workers: no attempt is overwritten by another.     *)
AttemptsAppended ==
    [][\A e \in Executions : \A n \in AttemptNos :
         IF Attempted(e, n)
         THEN attempts'[e][n].worker_id = attempts[e][n].worker_id
         ELSE attempts'[e][n] # NoAttempt => Newest(e) < n]_tableVars
===============================================================================
