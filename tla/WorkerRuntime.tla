---------------------------- MODULE WorkerRuntime ----------------------------
(***************************************************************************)
(* The loop of a worker process: connect to Redis, then tick.  A tick      *)
(* sends a heartbeat, asks for an item and, given one, runs its execution  *)
(* to the end before the loop goes on.  What the calls of a tick do to     *)
(* Redis and PostgreSQL is not said here; TaskCenter joins these steps to  *)
(* the steps of the queue and of the tables.                               *)
(***************************************************************************)
EXTENDS Naturals

CONSTANTS
    Workers,
    Executions,
    NoTask,         \* the worker has no execution in hand
    Outcomes        \* what a task run ends with

VARIABLE worker     \* where the process of a worker is, and what it has in hand

Places == {"down", "stopped", "starting", "waiting", "beat", "claim",
           "load", "begin", "run", "finish", "reconnect", "backoff"}

(* From the claim to the end of finish_attempt. *)
Executing == {"load", "begin", "run", "finish"}

Process == [at: Places,
            execution_id: Executions \cup {NoTask},
            attempt_no: Nat,
            outcome: Outcomes \cup {"none"},
            fatal: BOOLEAN]     \* the executor returned an error

EmptyHanded(place) ==
    [at |-> place, execution_id |-> NoTask, attempt_no |-> 0, outcome |-> "none", fatal |-> FALSE]

At(w, place) == worker[w].at = place
Alive(w) == worker[w].at \notin {"down", "stopped"}
Go(w, place) == worker' = [worker EXCEPT ![w].at = place]
GoEmptyHanded(w, place) == worker' = [worker EXCEPT ![w] = EmptyHanded(place)]

RuntimeInit == worker = [w \in Workers |-> EmptyHanded("starting")]

(* connect_until_ready_or_shutdown tries until Redis answers. *)
Connected(w) == At(w, "starting") /\ Go(w, "waiting")

BeginTick(w) == At(w, "waiting") /\ Go(w, "beat")

(* The worker has capacity whenever a tick begins: a tick ends with the    *)
(* execution it claimed, so the set of active executions is empty.         *)
Beat(w) == At(w, "beat") /\ Go(w, "claim")

ClaimedNothing(w) == At(w, "claim") /\ Go(w, "waiting")

(* record_claim, with the attempt number of the lease. *)
Claimed(w, e, attempt_no) ==
    /\ At(w, "claim")
    /\ worker' = [worker EXCEPT ![w].at = "load", ![w].execution_id = e,
                                ![w].attempt_no = attempt_no]

MutantLoaded(w) == At(w, "load") /\ GoEmptyHanded(w, "waiting")
Loaded(w) == At(w, "load") /\ Go(w, "begin")

(* The task cannot be run here: an error before there is an attempt. *)
Refused(w) == At(w, "load") /\ GoEmptyHanded(w, "down")

(* create_attempt gives the attempt its number. *)
MutantBegan(w, attempt_no) == At(w, "begin") /\ Go(w, "run")

Began(w, attempt_no) ==
    /\ At(w, "begin")
    /\ worker' = [worker EXCEPT ![w].at = "run", ![w].attempt_no = attempt_no]

(* The executor returns an output or an error; an error is a failure too. *)
Ran(w, outcome, fatal) ==
    /\ At(w, "run")
    /\ fatal => outcome = "failed"
    /\ worker' = [worker EXCEPT ![w].at = "finish", ![w].outcome = outcome, ![w].fatal = fatal]

(* finish_attempt is done: the tick ends, and after an executor's error so *)
(* does the process, for classify_tick_error knows only errors of Redis.   *)
MutantFinished(w) == At(w, "finish") /\ Go(w, IF worker[w].fatal THEN "down" ELSE "waiting")

Finished(w) ==
    /\ At(w, "finish")
    /\ GoEmptyHanded(w, IF worker[w].fatal THEN "down" ELSE "waiting")

(* A call to Redis fails in the tick. *)
RedisError(w) ==
    /\ At(w, "beat") \/ At(w, "claim")
    /\ \E place \in {"reconnect", "backoff", "down"} : GoEmptyHanded(w, place)

(* Connected or not, the loop backs off and tries again. *)
Reconnect(w) == At(w, "reconnect") /\ Go(w, "backoff")

MutantEndBackoff(w) == At(w, "backoff") /\ Go(w, "reconnect")
EndBackoff(w) == At(w, "backoff") /\ Go(w, "waiting")

(* A call to PostgreSQL fails: the process exits. *)
StoreError(w) ==
    /\ worker[w].at \in {"load", "begin", "finish"}
    /\ GoEmptyHanded(w, "down")

Die(w) == Alive(w) /\ GoEmptyHanded(w, "down")

(* The signal is looked at wherever the loop waits, the middle of a tick   *)
(* included: the tick is dropped where it stands.                          *)
Shutdown(w) == Alive(w) /\ GoEmptyHanded(w, "stopped")

(* The container starts a process that exited or died, and an operator one *)
(* that was stopped.                                                       *)
Restart(w) == At(w, "down") /\ Go(w, "starting")
StartAgain(w) == At(w, "stopped") /\ Go(w, "starting")
===============================================================================
