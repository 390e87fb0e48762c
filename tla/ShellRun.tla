------------------------------- MODULE ShellRun -------------------------------
(***************************************************************************)
(* ShellExecutor::execute: a command in a process group of its own, two    *)
(* tasks that read its output, a wait that the command's end, the time     *)
(* limit or a cancel ends, and the clearing up.  The command may start     *)
(* another process in its group and one that leaves the group (setsid),    *)
(* and all of them hold the write ends of both pipes.                      *)
(***************************************************************************)
EXTENDS TaskExecutor, Naturals

CONSTANTS
    Limit,          \* what is kept of an output
    Capacity,       \* what a pipe holds before a write blocks
    MaxWritten      \* bound: what is written to one stream

ASSUME ShellAssumption == Limit \in Nat /\ Capacity \in Nat /\ MaxWritten \in Nat

VARIABLES
    shell,      \* where execute is
    outcome,    \* what ended the wait
    exit,       \* how the command ended
    live,       \* processes that run
    started,    \* processes that were started
    stream      \* the pipes and the tasks that read them

shellVars == <<shell, outcome, exit, live, started, stream>>

Streams == {"stdout", "stderr"}
Group == {"command", "member"}
Processes == Group \cup {"escaped"}

Min2(m, n) == IF m < n THEN m ELSE n

UnreadStream == [written |-> 0, piped |-> 0, stored |-> 0, reader |-> "off"]

ShellInit ==
    /\ shell = "off"
    /\ outcome = "none"
    /\ exit = "none"
    /\ live = {}
    /\ started = {}
    /\ stream = [s \in Streams |-> UnreadStream]

-----------------------------------------------------------------------------
(* The processes *)

(* SIGKILL reaches every process of a set, and cannot be ignored. *)
Kill(processes) ==
    /\ live' = live \ processes
    /\ exit' = IF "command" \in live \cap processes THEN "signal" ELSE exit

Fork(p) ==
    /\ live \cap Group # {}
    /\ p \notin started \cup {"command"}
    /\ live' = live \cup {p}
    /\ started' = started \cup {p}
    /\ UNCHANGED <<executorVars, shell, outcome, exit, stream>>

Write(s) ==
    /\ live # {}
    /\ stream[s].reader # "aborted"
    /\ stream[s].piped < Capacity
    /\ stream[s].written < MaxWritten
    /\ stream' = [stream EXCEPT ![s].piped = @ + 1, ![s].written = @ + 1]
    /\ UNCHANGED <<executorVars, shell, outcome, exit, live, started>>

ProcessEnds(p) ==
    /\ p \in live
    /\ live' = live \ {p}
    /\ exit' \in IF p = "command" THEN {"zero", "nonzero"} ELSE {exit}
    /\ heard' = (heard \/ p = "command")
    /\ done' = (done \/ (p = "command" /\ exit' = "zero"))
    /\ UNCHANGED <<cancelled, result, shell, outcome, started, stream>>

-----------------------------------------------------------------------------
(* The readers: they read to the end, and keep no more than the limit. *)

MutantKept(stored, read) == stored + read

Kept(stored, read) == Min2(Limit, stored + read)

MutantRead(s) ==
    /\ stream[s].reader = "reading"
    /\ stream[s].stored < Limit
    /\ \E n \in 1 .. stream[s].piped :
         stream' = [stream EXCEPT ![s].piped = @ - n, ![s].stored = Kept(@, n)]
    /\ UNCHANGED <<executorVars, shell, outcome, exit, live, started>>

Read(s) ==
    /\ stream[s].reader = "reading"
    /\ \E n \in 1 .. stream[s].piped :
         stream' = [stream EXCEPT ![s].piped = @ - n, ![s].stored = Kept(@, n)]
    /\ UNCHANGED <<executorVars, shell, outcome, exit, live, started>>

(* The pipe ends when nobody can write to it any more. *)
EndOfFile(s) ==
    /\ stream[s].reader = "reading"
    /\ stream[s].piped = 0
    /\ live = {}
    /\ stream' = [stream EXCEPT ![s].reader = "ended"]
    /\ UNCHANGED <<executorVars, shell, outcome, exit, live, started>>

ReaderStep(s) == Read(s) \/ EndOfFile(s)

-----------------------------------------------------------------------------
(* execute *)

(* The policy allows the command: it and its readers are started. *)
Spawn(allowed) ==
    /\ shell = "spawn"
    /\ allowed
    /\ shell' = "wait"
    /\ live' = {"command"}
    /\ started' = {"command"}
    /\ stream' = [s \in Streams |-> [UnreadStream EXCEPT !.reader = "reading"]]
    /\ UNCHANGED <<executorVars, outcome, exit>>

(* A config that cannot be read, a command that is not allowed, or not     *)
(* there.                                                                  *)
SpawnFails ==
    /\ shell = "spawn"
    /\ shell' = "ended"
    /\ Return("error")
    /\ UNCHANGED <<outcome, exit, live, started, stream>>

CommandExited ==
    /\ shell = "wait"
    /\ "command" \notin live
    /\ outcome' = "exited"
    /\ shell' = "sweep"
    /\ UNCHANGED <<executorVars, exit, live, started, stream>>

(* kill_child_tree; select! may take a branch while others are ready too. *)
Interrupt(why) ==
    /\ shell = "wait"
    /\ outcome' = why
    /\ Kill(Group)
    /\ shell' = "reap"
    /\ UNCHANGED <<executorVars, started, stream>>

TimeOut == Interrupt("timed out")
CancelShell == cancelled /\ Interrupt("cancelled")

Reap ==
    /\ shell = "reap"
    /\ "command" \notin live
    /\ shell' = "sweep"
    /\ UNCHANGED <<executorVars, outcome, exit, live, started, stream>>

(* However the wait ended, the rest of the group is killed. *)
MutantSweep ==
    /\ shell = "sweep"
    /\ shell' = "stdout"
    /\ UNCHANGED <<executorVars, outcome, exit, live, started, stream>>

Sweep ==
    /\ shell = "sweep"
    /\ Kill(Group)
    /\ shell' = "stdout"
    /\ UNCHANGED <<executorVars, outcome, started, stream>>

(* join_summary, for stdout and then for stderr. *)
AfterJoin(s) == IF s = "stdout" THEN "stderr" ELSE "return"

Join(s) ==
    /\ shell = s
    /\ stream[s].reader = "ended"
    /\ shell' = AfterJoin(s)
    /\ UNCHANGED <<executorVars, outcome, exit, live, started, stream>>

(* A second passes.  A reader whose pipe nobody holds is done by then.     *)
GiveUpReader(s) ==
    /\ shell = s
    /\ stream[s].reader = "reading"
    /\ live # {}
    /\ stream' = [stream EXCEPT ![s].reader = "aborted", ![s].piped = 0, ![s].stored = 0]
    /\ shell' = AfterJoin(s)
    /\ UNCHANGED <<executorVars, outcome, exit, live, started>>

MutantShellResult ==
    CASE outcome = "cancelled" -> "cancelled"
      [] outcome = "exited" -> "succeeded"
      [] OTHER -> "failed"

ShellResult ==
    CASE outcome = "cancelled" -> "cancelled"
      [] outcome = "exited" /\ exit = "zero" -> "succeeded"
      [] OTHER -> "failed"

ShellReturns ==
    /\ shell = "return"
    /\ shell' = "ended"
    /\ Return(ShellResult)
    /\ UNCHANGED <<outcome, exit, live, started, stream>>

(* kill_on_drop kills the command and no other process; the readers go on. *)
ShellDropped ==
    /\ shell \notin {"off", "ended"}
    /\ shell' = "ended"
    /\ Kill({"command"})
    /\ UNCHANGED <<outcome, started, stream>>

ExecuteStep(allowed) ==
    \/ Spawn(allowed) \/ SpawnFails
    \/ CommandExited \/ TimeOut \/ CancelShell \/ Reap \/ Sweep
    \/ \E s \in Streams : Join(s) \/ GiveUpReader(s)
    \/ ShellReturns

ProcessStep ==
    \/ \E p \in Processes : Fork(p) \/ ProcessEnds(p)
    \/ \E s \in Streams : Write(s)

-----------------------------------------------------------------------------
ShellTypeOK ==
    /\ shell \in {"off", "spawn", "wait", "reap", "sweep", "return", "ended"} \cup Streams
    /\ outcome \in {"none", "exited", "timed out", "cancelled"}
    /\ exit \in {"none", "zero", "nonzero", "signal"}
    /\ live \subseteq started /\ started \subseteq Processes
    /\ stream \in [Streams -> [written: 0 .. MaxWritten, piped: 0 .. Capacity, stored: 0 .. Limit,
                               reader: {"off", "reading", "ended", "aborted"}]]

(* An answer's summary of a stream is the beginning of all that was        *)
(* written to it; it is empty only when a process that left the group held *)
(* the pipe longer than the reader was waited for.                         *)
SummaryComplete ==
    shell = "ended" /\ result \in {"succeeded", "failed", "cancelled"} =>
        \A s \in Streams :
            \/ stream[s].stored = Min2(Limit, stream[s].written)
            \/ stream[s].reader = "aborted" /\ "escaped" \in started

(* A full pipe empties again, also beyond the limit of what is kept: no    *)
(* process of the task waits for ever in a write.                          *)
WriterNotBlocked ==
    \A s \in Streams : stream[s].piped = Capacity ~> stream[s].piped < Capacity
===============================================================================
