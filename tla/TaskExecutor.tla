----------------------------- MODULE TaskExecutor -----------------------------
(***************************************************************************)
(* What every executor promises the worker that awaits it, and the state   *)
(* all of them share: the token of the execution, the answer, whether the  *)
(* task was answered from outside, and whether its purpose was served.     *)
(* The promise is small on purpose: the worker writes one outcome of an    *)
(* attempt and believes it.                                                *)
(***************************************************************************)
VARIABLES
    cancelled,  \* the token is cancelled; it is never taken back
    result,     \* what execute returned, or "dropped" when nobody awaits it
    heard,      \* the task's own request, command or click was answered
    done        \* what the task is for has happened outside

executorVars == <<cancelled, result, heard, done>>

Results == {"succeeded", "failed", "cancelled", "error", "dropped"}

Finished == result # "none"

ExecutorInit ==
    /\ cancelled = FALSE
    /\ result = "none"
    /\ heard = FALSE
    /\ done = FALSE

Cancel ==
    /\ ~cancelled
    /\ cancelled' = TRUE
    /\ UNCHANGED <<result, heard, done>>

Return(r) ==
    /\ ~Finished
    /\ result' = r
    /\ UNCHANGED <<cancelled, heard, done>>

(* The purpose may be served by this step, if "now" says so. *)
MayServe(now) == done' \in IF now THEN {done, TRUE} ELSE {done}

(* A success was answered from outside, and an executor that judges the    *)
(* answer only calls it a success when the purpose was served.  Nothing is *)
(* called cancelled that was not.                                          *)
Answer(judges, r) ==
    /\ r = "succeeded" => heard /\ (judges => done)
    /\ r = "cancelled" => cancelled
    /\ Return(r)

(* The outside acts for the task until it is answered, and longer only     *)
(* when nobody awaits the answer.                                          *)
Act ==
    /\ result \in {"none", "dropped"}
    /\ heard' \in {heard, TRUE}
    /\ MayServe(TRUE)
    /\ UNCHANGED <<cancelled, result>>

(* A last act may be what a failure reports: the reply to it was lost. *)
ActAndFail ==
    /\ ~Finished
    /\ done' = TRUE
    /\ result' \in {"failed", "error"}
    /\ UNCHANGED <<cancelled, heard>>

ExecutorNext(judges) ==
    \/ Cancel
    \/ Act
    \/ ActAndFail
    \/ \E r \in Results : Answer(judges, r)
===============================================================================
