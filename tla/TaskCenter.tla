----------------------------- MODULE TaskCenter -----------------------------
(***************************************************************************)
(* The system put together: what the scheduler enqueues, the pool of items *)
(* and leases that DispatchQueue implements (WorkPool), the tables that    *)
(* StoreTransactions implements (ExecutionTable), and the worker processes *)
(* (WorkerRuntime).  A step joins a worker's step to what its call does to *)
(* the pool or to the tables.  A call may take effect and its answer be    *)
(* lost; a worker may die, or be stopped, between any two calls.           *)
(***************************************************************************)
EXTENDS ExecutionTable, FiniteSets

CONSTANTS
    NoTask,
    MaxEnqueues,    \* bound: how often the scheduler enqueues one execution
    Eligible,       \* pairs of a worker and an execution it has the labels for
    Disabled,       \* pairs of a worker and an execution its settings refuse
    MaxFailures     \* bound: failed calls, deaths and stops

ASSUME EligibleAssumption == Eligible \subseteq Workers \X Executions
ASSUME NoTaskAssumption == NoTask \notin Executions
ASSUME BoundsAssumption == MaxEnqueues \in Nat /\ MaxFailures \in Nat

VARIABLES
    waiting, holder, numbered,  \* the pool and the leases (WorkPool)
    counter,                    \* the attempt counters of Redis
    worker,                     \* the processes (WorkerRuntime)
    failures,                   \* how many of them there have been
    interrupted,                \* history: what workers had in hand when they failed
    expiries                    \* history: leases of an execution that ran out

poolVars == <<waiting, holder, numbered, counter, expiries>>
processVars == <<worker, failures, interrupted>>
vars == <<tableVars, poolVars, processVars>>

Entitled(w, it) == <<w, it.execution_id>> \in Eligible

Pool == INSTANCE WorkPool
Runtime == INSTANCE WorkerRuntime

At(w, place) == Runtime!At(w, place)
InHand(w) == {worker[w].execution_id} \ {NoTask}

Init ==
    /\ TableInit
    /\ Pool!Init
    /\ counter = [e \in Executions |-> 0]
    /\ expiries = [e \in Executions |-> 0]
    /\ Runtime!RuntimeInit
    /\ failures = 0
    /\ interrupted = {}

(* A process goes on with its tick, or is interrupted with what it has in  *)
(* hand: an execution with the number of its attempt, 0 if there is none.  *)
GoesOn == UNCHANGED <<failures, interrupted>>

Interrupts(work) ==
    /\ failures < MaxFailures
    /\ failures' = failures + 1
    /\ interrupted' = interrupted \cup work

Work(w) ==
    {<<e, IF worker[w].at \in {"run", "finish"} THEN worker[w].attempt_no ELSE 0>> : e \in InHand(w)}

-----------------------------------------------------------------------------
(* The scheduler: SchedulerTick says when it enqueues an execution again. *)
Schedule(e) ==
    /\ CreateExecution(e)
    /\ UNCHANGED <<poolVars, processVars>>

Enqueue(e) ==
    /\ Exists(e)
    /\ numbered[e] < MaxEnqueues
    /\ Pool!Submit([execution_id |-> e, selected_worker_id |-> NoWorker, no |-> numbered[e] + 1])
    /\ UNCHANGED <<tableVars, counter, expiries, processVars>>

(* TTLs *)
ExpireLease(e) ==
    /\ Pool!Release(e)
    /\ expiries' = [expiries EXCEPT ![e] = @ + 1]
    /\ UNCHANGED <<tableVars, counter, processVars>>

ExpireCounter(e) ==
    /\ counter[e] > 0
    /\ holder[e] = NoWorker
    /\ counter' = [counter EXCEPT ![e] = 0]
    /\ UNCHANGED <<tableVars, waiting, holder, numbered, expiries, processVars>>

-----------------------------------------------------------------------------
(* A worker's tick *)

(* Steps of the loop that touch nothing else. *)
LoopStep(w) ==
    /\ \/ Runtime!Connected(w) \/ Runtime!BeginTick(w) \/ Runtime!Beat(w)
       \/ Runtime!Reconnect(w) \/ Runtime!EndBackoff(w) \/ Runtime!Restart(w)
    /\ GoesOn
    /\ UNCHANGED <<tableVars, poolVars>>

StartAgain(w) ==
    /\ Runtime!StartAgain(w)
    /\ GoesOn
    /\ UNCHANGED <<tableVars, poolVars>>

(* The claim script gives the worker an item and its execution's lease. *)
MutantTakeItem(w, it) ==
    /\ it \in waiting
    /\ Entitled(w, it)
    /\ waiting' = waiting \ {it}
    /\ holder' = [holder EXCEPT ![it.execution_id] = w]
    /\ counter' = [counter EXCEPT ![it.execution_id] = @ + 1]
    /\ UNCHANGED <<numbered, expiries>>

TakeItem(w, it) ==
    /\ Pool!Take(w, it)
    /\ counter' = [counter EXCEPT ![it.execution_id] = @ + 1]
    /\ UNCHANGED expiries

Claim(w, it) ==
    /\ TakeItem(w, it)
    /\ Runtime!Claimed(w, it.execution_id, counter[it.execution_id] + 1)
    /\ GoesOn
    /\ UNCHANGED tableVars

(* On its way the script discards items whose execution is leased. *)
Discard(w, it) ==
    /\ At(w, "claim")
    /\ Entitled(w, it)
    /\ Pool!Discard(it)
    /\ UNCHANGED <<tableVars, counter, expiries, processVars>>

ClaimNothing(w) ==
    /\ \A it \in waiting : ~Entitled(w, it)
    /\ Runtime!ClaimedNothing(w)
    /\ GoesOn
    /\ UNCHANGED <<tableVars, poolVars>>

(* get_execution and the job; a shell job stops here on a worker without   *)
(* the shell executor.                                                     *)
Load(w) ==
    /\ <<w, worker[w].execution_id>> \notin Disabled
    /\ Runtime!Loaded(w)
    /\ GoesOn
    /\ UNCHANGED <<tableVars, poolVars>>

Refuse(w) ==
    /\ <<w, worker[w].execution_id>> \in Disabled
    /\ Runtime!Refused(w)
    /\ interrupted' = interrupted \cup Work(w)
    /\ UNCHANGED <<failures, tableVars, poolVars>>

(* create_attempt, with the number of the lease as a hint. *)
AddAttempt(w) ==
    /\ worker[w].execution_id # NoTask
    /\ CreateAttempt(worker[w].execution_id, worker[w].attempt_no, w)

BeginAttempt(w) ==
    /\ AddAttempt(w)
    /\ Runtime!Began(w, NextNumber(worker[w].execution_id, worker[w].attempt_no))
    /\ GoesOn
    /\ UNCHANGED poolVars

Run(w, outcome, fatal) ==
    /\ Runtime!Ran(w, outcome, fatal)
    /\ GoesOn
    /\ UNCHANGED <<tableVars, poolVars>>

(* finish_attempt *)
EndAttempt(w) ==
    /\ At(w, "finish")
    /\ FinishAttempt(worker[w].execution_id, worker[w].attempt_no, worker[w].outcome)

FinishRun(w) ==
    /\ EndAttempt(w)
    /\ Runtime!Finished(w)
    /\ GoesOn
    /\ UNCHANGED poolVars

-----------------------------------------------------------------------------
(* Failures *)

RedisFails(w) ==
    /\ Runtime!RedisError(w)
    /\ Interrupts({})
    /\ UNCHANGED <<tableVars, poolVars>>

ClaimReplyLost(w, it) ==
    /\ At(w, "claim")
    /\ TakeItem(w, it)
    /\ Runtime!RedisError(w)
    /\ Interrupts({<<it.execution_id, 0>>})
    /\ UNCHANGED tableVars

StoreFails(w) ==
    /\ Runtime!StoreError(w)
    /\ Interrupts(Work(w))
    /\ UNCHANGED <<tableVars, poolVars>>

BeginReplyLost(w) ==
    /\ At(w, "begin")
    /\ AddAttempt(w)
    /\ Runtime!StoreError(w)
    /\ Interrupts({<<worker[w].execution_id,
                     NextNumber(worker[w].execution_id, worker[w].attempt_no)>>})
    /\ UNCHANGED poolVars

FinishReplyLost(w) ==
    /\ EndAttempt(w)
    /\ Runtime!StoreError(w)
    /\ Interrupts(Work(w))
    /\ UNCHANGED poolVars

Halt(w) ==
    /\ Runtime!Die(w) \/ Runtime!Shutdown(w)
    /\ Interrupts(Work(w))
    /\ UNCHANGED <<tableVars, poolVars>>

-----------------------------------------------------------------------------
TickStep(w) ==
    \/ LoopStep(w) \/ ClaimNothing(w)
    \/ \E it \in waiting : Claim(w, it) \/ Discard(w, it)
    \/ Load(w) \/ Refuse(w) \/ BeginAttempt(w) \/ FinishRun(w)
    \/ \E outcome \in Outcomes, fatal \in BOOLEAN : Run(w, outcome, fatal)

FailureStep(w) ==
    \/ RedisFails(w) \/ StoreFails(w) \/ Halt(w)
    \/ BeginReplyLost(w) \/ FinishReplyLost(w)
    \/ \E it \in waiting : ClaimReplyLost(w, it)

Next ==
    \/ \E e \in Executions : Schedule(e) \/ Enqueue(e) \/ ExpireLease(e) \/ ExpireCounter(e)
    \/ \E w \in Workers : TickStep(w) \/ StartAgain(w) \/ FailureStep(w)

Spec == Init /\ [][Next]_vars

(* A process runs, Redis and PostgreSQL answer it, its tasks end, and its  *)
(* container is restarted when it is down (Restart is a LoopStep).  A      *)
(* worker that asks again and again is given an item in the end.  Nothing  *)
(* makes an operator start a stopped worker.                               *)
Fairness ==
    \A w \in Workers :
        /\ WF_vars(TickStep(w))
        /\ SF_vars(\E it \in waiting : Claim(w, it))

FairSpec == Spec /\ Fairness

-----------------------------------------------------------------------------
TypeOK ==
    /\ TableTypeOK
    /\ waiting \subseteq Pool!Items
    /\ holder \in [Executions -> Workers \cup {NoWorker}]
    /\ numbered \in [Executions -> 0 .. MaxEnqueues]
    /\ counter \in [Executions -> Nat]
    /\ expiries \in [Executions -> Nat]
    /\ worker \in [Workers -> Runtime!Process]
    /\ failures \in 0 .. MaxFailures
    /\ interrupted \subseteq Executions \X (0 .. MaxAttempts)
    /\ \A w \in Workers : InHand(w) # {} <=> worker[w].at \in Runtime!Executing

Handling(e) == {w \in Workers : worker[w].execution_id = e}

(* Work that was enqueued is somewhere: an item waits for it, a worker has *)
(* it in hand, or it has an attempt.  Only an execution can have vanished  *)
(* that a worker had claimed, and not begun, when it failed.               *)
LostWasInterrupted ==
    \A e \in Executions :
        numbered[e] > 0 =>
            \/ \E it \in waiting : it.execution_id = e
            \/ Handling(e) # {}
            \/ Numbers(e) # {}
            \/ <<e, 0>> \in interrupted

(* A running attempt has a process that runs it and will write its end,    *)
(* unless that process failed during the attempt.                          *)
Runner(w, e, n) ==
    /\ worker[w].at \in {"run", "finish"}
    /\ worker[w].execution_id = e
    /\ worker[w].attempt_no = n

RunningHasRunner ==
    \A e \in Executions : \A n \in AttemptNos :
        attempts[e][n].status = "running" =>
            <<e, n>> \in interrupted \/ Runner(attempts[e][n].worker_id, e, n)

(* Two workers have one execution in hand only when a lease of it ran out: *)
(* one worker more for each lease, and one holds the lease that is live.   *)
OneWorkerPerLease ==
    \A e \in Executions :
        Cardinality(Handling(e) \ {holder[e]}) <= expiries[e]

(* An execution has no more attempts than items were enqueued for it:      *)
(* failures and restarts of workers never multiply attempts.               *)
AttemptsHaveItems ==
    \A e \in Executions : Cardinality(Numbers(e)) <= numbered[e]

(* A failure, a restart or a lost reply never multiplies work: only an     *)
(* enqueue and the end of a lease do.                                      *)
WorkBounded == OneWorkerPerLease /\ AttemptsHaveItems

(* No two processes write to one attempt, however often leases run out and *)
(* counters are forgotten.                                                 *)
OneRunnerPerAttempt ==
    \A e \in Executions, n \in AttemptNos :
        \A v, w \in Workers : Runner(v, e, n) /\ Runner(w, e, n) => v = w

(* An item is in the end done with, unless its execution was interrupted   *)
(* or no worker that may take it keeps running.                            *)
Interrupted(e) == \E n \in 0 .. MaxAttempts : <<e, n>> \in interrupted
Staffed(e) == \E w \in Workers : <<w, e>> \in Eligible /\ worker[w].at # "stopped"

EnqueuedFinishes ==
    \A e \in Executions :
        numbered[e] > 0 ~>
            execution[e].status \in Outcomes \/ Interrupted(e) \/ ~Staffed(e)

(* Whatever error it meets, a worker's loop comes back to waiting for its  *)
(* next tick, unless it is stopped.                                        *)
LoopGoesOn == \A w \in Workers : []<>(At(w, "waiting") \/ At(w, "stopped"))

(* docs/.../design.md, 610 and README.md, 62: an execution whose worker is *)
(* gone is dispatched again, or given up as failed, once its lease is out. *)
InterruptedIsRetried ==
    \A e \in Executions :
        Interrupted(e) /\ holder[e] = NoWorker ~>
            execution[e].status \in Outcomes \/ \E it \in waiting : it.execution_id = e

(* docs/.../design.md, 261, and the test in domain/state.rs, 60: a         *)
(* succeeded execution goes nowhere the table of transitions does not      *)
(* allow, and so nowhere at all.                                           *)
SucceededIsFinal ==
    [][\A e \in Executions :
         /\ execution[e].status = "succeeded"
         /\ execution'[e].status # "succeeded"
         => <<"succeeded", execution'[e].status>> \in Transitions]_vars
===============================================================================
