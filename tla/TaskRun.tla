------------------------------- MODULE TaskRun -------------------------------
(***************************************************************************)
(* One run of a task on a worker: execute_job_with_lease picks the         *)
(* executor the job and the worker's settings call for and awaits it.  The *)
(* token may be cancelled at any time, and the worker may stop and drop    *)
(* what it awaits.                                                         *)
(***************************************************************************)
EXTENDS ShellRun, HttpRun, CheckinRun, HeadlessRun

CONSTANT Jobs       \* jobs, each with what the worker's settings say of it

Absent == "absent"

Job == [task_type: {"http", "shell", "builtin"},
        enable_shell_executor: BOOLEAN,     \* the worker's setting
        allowed: BOOLEAN,                   \* its list has the command
        builtin: STRING, name: STRING,      \* fields of the job's config
        job_name: STRING]

ASSUME JobsAssumption == Jobs \subseteq Job

VARIABLES job, dispatched

jobVars == <<job, dispatched>>
vars == <<executorVars, shellVars, httpVars, checkin, headlessVars, jobVars>>

Init ==
    /\ ExecutorInit
    /\ ShellInit
    /\ HttpInit
    /\ CheckinInit
    /\ HeadlessInit
    /\ job \in Jobs
    /\ dispatched = FALSE

-----------------------------------------------------------------------------
(* execute_job_with_lease *)

BuiltinName ==
    IF job.builtin # Absent THEN job.builtin
    ELSE IF job.name # Absent THEN job.name ELSE job.job_name

RunsHere ==
    CASE job.task_type = "http" -> TRUE
      [] job.task_type = "shell" -> job.enable_shell_executor
      [] job.task_type = "builtin" ->
            BuiltinName \in {"bugutv_checkin", "bugutv_headless_checkin"}

Runs(type, name) ==
    /\ RunsHere
    /\ job.task_type = type
    /\ type = "builtin" => BuiltinName = name

Dispatch ==
    /\ ~dispatched /\ ~Finished
    /\ dispatched' = TRUE
    /\ IF RunsHere THEN UNCHANGED executorVars ELSE Return("error")
    /\ http' = IF Runs("http", "") THEN "send" ELSE http
    /\ shell' = IF Runs("shell", "") THEN "spawn" ELSE shell
    /\ checkin' = IF Runs("builtin", "bugutv_checkin") THEN 1 ELSE checkin
    /\ driver' = IF Runs("builtin", "bugutv_headless_checkin") THEN "start" ELSE driver
    /\ UNCHANGED <<job, outcome, exit, live, started, stream, expected, chunks,
                   step, titles, verdict, watcher, browser>>

(* The worker stops: the executor's future is dropped. *)
Drop ==
    /\ dispatched
    /\ Return("dropped")
    /\ \/ ShellDropped /\ UNCHANGED <<httpVars, checkin, headlessVars>>
       \/ HttpDropped /\ UNCHANGED <<shellVars, checkin, headlessVars>>
       \/ CheckinDropped /\ UNCHANGED <<shellVars, httpVars, headlessVars>>
       \/ HeadlessDropped /\ UNCHANGED <<shellVars, httpVars, checkin>>
    /\ UNCHANGED jobVars

-----------------------------------------------------------------------------
InShell(A) == A /\ UNCHANGED <<httpVars, checkin, headlessVars, jobVars>>
InHttp(A) == A /\ UNCHANGED <<shellVars, checkin, headlessVars, jobVars>>
InCheckin(A) == A /\ UNCHANGED <<shellVars, httpVars, headlessVars, jobVars>>
InHeadless(A) == A /\ UNCHANGED <<shellVars, httpVars, checkin, jobVars>>

Next ==
    \/ Cancel /\ UNCHANGED <<shellVars, httpVars, checkin, headlessVars, jobVars>>
    \/ Dispatch
    \/ Drop
    \/ InShell(ExecuteStep(job.allowed) \/ ProcessStep \/ \E s \in Streams : ReaderStep(s))
    \/ InHttp(HttpStep)
    \/ InCheckin(SiteStep \/ CancelCheckin)
    \/ InHeadless(DriverStep \/ CallEnds \/ WatcherStep \/ BrowserDies)

Spec == Init /\ [][Next]_vars

(* The worker's threads run, its timers fire, a killed browser's driver is *)
(* told.  No process has to end, no site to answer, no page to load.       *)
Fairness ==
    /\ WF_vars(Dispatch)
    /\ WF_vars(InShell(ExecuteStep(job.allowed)))
    /\ \A s \in Streams : WF_vars(InShell(ReaderStep(s)))
    /\ WF_vars(InHttp(HttpStep))
    /\ WF_vars(InCheckin(CancelCheckin))
    /\ WF_vars(InHeadless(DriverStep))
    /\ WF_vars(InHeadless(CallEndsWithoutBrowser))
    /\ WF_vars(InHeadless(WatcherStep))

FairSpec == Spec /\ Fairness

-----------------------------------------------------------------------------
TypeOK ==
    /\ cancelled \in BOOLEAN
    /\ result \in Results \cup {"none"}
    /\ heard \in BOOLEAN
    /\ done \in BOOLEAN
    /\ ShellTypeOK
    /\ HttpTypeOK
    /\ CheckinTypeOK
    /\ HeadlessTypeOK
    /\ job \in Jobs
    /\ dispatched \in BOOLEAN

(* When the worker is given an answer nothing of the task is left on its   *)
(* machine: no process of the command's group, no reader, no browser, no   *)
(* watcher.  (What left the group, or was dropped, is out of its hands.)   *)
NothingLeftBehind ==
    result \in {"succeeded", "failed", "cancelled", "error"} =>
        /\ live \cap Group = {}
        /\ \A s \in Streams : stream[s].reader # "reading"
        /\ watcher \in {"none", "gone"}
        /\ browser \in {"none", "reaped"}

(* A request or a command ends by its time limit, whatever the outside     *)
(* does, and every task ends after a cancel.  A check-in that nobody       *)
(* cancels may wait for its site for ever: its requests have no limit.     *)
EndsInTime == (job.task_type \in {"http", "shell"} \/ cancelled) ~> Finished

(* The executors keep the promise, whenever the task is cancelled, dropped *)
(* or cut off.  A request that is called succeeded had an expected status, *)
(* a command that is had exited with 0.  A check-in that is called         *)
(* succeeded was answered by the site, and no more: a refusal and an       *)
(* unknown outcome are answers, which the check-ins log and do not judge.  *)
Judges == job.task_type # "builtin"

RefinesTaskExecutor == ExecutorInit /\ [][ExecutorNext(Judges)]_executorVars
===============================================================================
