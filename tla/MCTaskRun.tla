------------------------------ MODULE MCTaskRun ------------------------------
(* TaskRun for TLC: a job for each executor, and jobs that are refused. *)
EXTENDS TaskRun

HttpJob == [task_type |-> "http", enable_shell_executor |-> FALSE, allowed |-> FALSE,
            builtin |-> Absent, name |-> Absent, job_name |-> "job"]
ShellJob == [HttpJob EXCEPT !.task_type = "shell", !.enable_shell_executor = TRUE, !.allowed = TRUE]
BuiltinJob == [HttpJob EXCEPT !.task_type = "builtin"]

MCJobs == {HttpJob,
           ShellJob,
           [ShellJob EXCEPT !.allowed = FALSE],
           [ShellJob EXCEPT !.enable_shell_executor = FALSE],
           [BuiltinJob EXCEPT !.builtin = "bugutv_checkin", !.name = "job"],
           [BuiltinJob EXCEPT !.name = "bugutv_headless_checkin"],
           BuiltinJob}
===============================================================================
