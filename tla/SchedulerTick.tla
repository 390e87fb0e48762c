---------------------------- MODULE SchedulerTick ----------------------------
(***************************************************************************)
(* The scheduler loops of the admin instances.  Once a second each of them *)
(* reads the jobs that are due and processes this snapshot job by job: it  *)
(* takes the job's lock in Redis, gets or creates the execution of the     *)
(* snapshot's fire time, enqueues it and moves the job's fire time on.     *)
(* The lock is never released: it lapses LockTtl after it was taken,       *)
(* whatever its holder is doing then.                                      *)
(*                                                                         *)
(* Time is one clock that Redis and all admins read.  A call may fail      *)
(* before it takes effect, or after (a lost reply); a process may die      *)
(* between any two calls and is restarted by its container's policy.       *)
(***************************************************************************)
EXTENDS Integers, FiniteSets

CONSTANTS
    Admins,
    Jobs,
    LockTtl,        \* 30 s in the code
    Period,         \* one minute in the code
    MaxStall,       \* assumption: how long a tick may last
    Cron,           \* the times the cron expression of a job stands for
    MaxFailures,    \* bound: failed calls and crashes
    MaxTime         \* bound: the clock

ASSUME TimingAssumption ==
    /\ LockTtl \in Nat \ {0} /\ Period \in Nat \ {0} /\ MaxStall \in Nat
    /\ Cron \in [Jobs -> SUBSET Nat]
    /\ MaxFailures \in Nat /\ MaxTime \in Nat \ {0}

VARIABLES
    clock,
    next_fire_at,   \* of a job, NoTime before the job is created
    lock,           \* when the lock of a job lapses
    executions,     \* the executions created: pairs of a job and a fire time
    enqueued,       \* how often the execution of a job and fire time was enqueued
    admin,          \* the tick of an admin
    failures        \* how many calls have failed and processes died

vars == <<clock, next_fire_at, lock, executions, enqueued, admin, failures>>

NoTime == 0
Times == 0 .. MaxTime + Period

(* What the snapshot of a tick says of a job. *)
JobRow == [id: Jobs, next_fire_at: Times \ {NoTime}]
NoRow == [id |-> "none", next_fire_at |-> NoTime]

Tick == [at: {"idle", "next", "create", "enqueue", "update"},
         now: 0 .. MaxTime,
         due: SUBSET JobRow,
         job: JobRow \cup {NoRow}]     \* the job being processed

IdleAdmin(now) == [at |-> "idle", now |-> now, due |-> {}, job |-> NoRow]

Init ==
    /\ clock = 1
    /\ next_fire_at = [j \in Jobs |-> NoTime]
    /\ lock = [j \in Jobs |-> 0]
    /\ executions = {}
    /\ enqueued = [j \in Jobs |-> [t \in Times |-> 0]]
    /\ admin = [a \in Admins |-> IdleAdmin(0)]
    /\ failures = 0

-----------------------------------------------------------------------------
(* create_job of the admin API: the first fire time is the first one of    *)
(* the cron expression that lies ahead.                                    *)
FirstAhead(j, t) ==
    /\ t \in Cron[j]
    /\ clock < t
    /\ \A u \in Cron[j] : clock < u => t <= u

CreateJob(j, t) ==
    /\ next_fire_at[j] = NoTime
    /\ FirstAhead(j, t)
    /\ next_fire_at' = [next_fire_at EXCEPT ![j] = t]
    /\ UNCHANGED <<clock, lock, executions, enqueued, admin, failures>>

(* list_enabled_due *)
MutantIsDueLate(j, now) == next_fire_at[j] # NoTime /\ next_fire_at[j] < now
MutantIsDueAlways(j, now) == next_fire_at[j] # NoTime
IsDue(j, now) == next_fire_at[j] # NoTime /\ next_fire_at[j] <= now

DueRows(now) == {[id |-> j, next_fire_at |-> next_fire_at[j]] : j \in {j \in Jobs : IsDue(j, now)}}

StartTick(a) ==
    /\ admin[a].at = "idle"
    /\ admin' = [admin EXCEPT ![a] = [at |-> "next", now |-> clock,
                                      due |-> DueRows(clock), job |-> NoRow]]
    /\ UNCHANGED <<clock, next_fire_at, lock, executions, enqueued, failures>>

(* The snapshot is ordered by fire time. *)
Earliest(due) == {d \in due : \A c \in due : d.next_fire_at <= c.next_fire_at}

(* SET NX EX on the lock of a job. *)
MutantLockFree(j) == TRUE
LockFree(j) == lock[j] <= clock

MutantLapse(a) == admin[a].now + 1
Lapse(a) == clock + LockTtl

SetLock(a, j) == lock' = [lock EXCEPT ![j] = Lapse(a)]

TakeLock(a, d) ==
    /\ admin[a].at = "next"
    /\ d \in Earliest(admin[a].due)
    /\ LockFree(d.id)
    /\ SetLock(a, d.id)
    /\ admin' = [admin EXCEPT ![a].at = "create", ![a].due = @ \ {d}, ![a].job = d]
    /\ UNCHANGED <<clock, next_fire_at, executions, enqueued, failures>>

SkipLocked(a, d) ==
    /\ admin[a].at = "next"
    /\ d \in Earliest(admin[a].due)
    /\ ~LockFree(d.id)
    /\ admin' = [admin EXCEPT ![a].due = @ \ {d}]
    /\ UNCHANGED <<clock, next_fire_at, lock, executions, enqueued, failures>>

(* create_or_get_execution, by the key of the snapshot's fire time. *)
AddExecution(d) == executions' = executions \cup {<<d.id, d.next_fire_at>>}

CreateOrGet(a) ==
    /\ admin[a].at = "create"
    /\ AddExecution(admin[a].job)
    /\ admin' = [admin EXCEPT ![a].at = "enqueue"]
    /\ UNCHANGED <<clock, next_fire_at, lock, enqueued, failures>>

(* RPUSH to the global queue: nothing tells whether the execution is there. *)
PushItem(d) == enqueued' = [enqueued EXCEPT ![d.id][d.next_fire_at] = @ + 1]

Enqueue(a) ==
    /\ admin[a].at = "enqueue"
    /\ PushItem(admin[a].job)
    /\ admin' = [admin EXCEPT ![a].at = "update"]
    /\ UNCHANGED <<clock, next_fire_at, lock, executions, failures>>

(* update_next_fire_at: a minute after the tick began, whatever is there. *)
NextFire(a) == admin[a].now + Period
SetNextFire(a) == next_fire_at' = [next_fire_at EXCEPT ![admin[a].job.id] = NextFire(a)]

JobDone(a) == admin' = [admin EXCEPT ![a].at = "next", ![a].job = NoRow]

UpdateNextFire(a) ==
    /\ admin[a].at = "update"
    /\ SetNextFire(a)
    /\ JobDone(a)
    /\ UNCHANGED <<clock, lock, executions, enqueued, failures>>

EndTick(a) ==
    /\ admin[a].at = "next"
    /\ admin[a].due = {}
    /\ admin' = [admin EXCEPT ![a].at = "idle"]
    /\ UNCHANGED <<clock, next_fire_at, lock, executions, enqueued, failures>>

-----------------------------------------------------------------------------
(* Failures *)

CountFailure ==
    /\ failures < MaxFailures
    /\ failures' = failures + 1

(* The list cannot be read: nothing to do in this tick. *)
ListFails(a) ==
    /\ admin[a].at = "idle"
    /\ CountFailure
    /\ admin' = [admin EXCEPT ![a].now = clock]
    /\ UNCHANGED <<clock, next_fire_at, lock, executions, enqueued>>

LockFails(a, d) ==
    /\ admin[a].at = "next"
    /\ d \in Earliest(admin[a].due)
    /\ CountFailure
    /\ (LockFree(d.id) /\ SetLock(a, d.id)) \/ UNCHANGED lock
    /\ admin' = [admin EXCEPT ![a].due = @ \ {d}]
    /\ UNCHANGED <<clock, next_fire_at, executions, enqueued>>

(* A failed call ends the processing of the job, and the tick goes on with *)
(* the next one.                                                           *)
MutantAfterFailure(a) == admin' = [admin EXCEPT ![a].at = "update"]
AfterFailure(a) == JobDone(a)

CreateFails(a) ==
    /\ admin[a].at = "create"
    /\ CountFailure
    /\ AddExecution(admin[a].job) \/ UNCHANGED executions
    /\ AfterFailure(a)
    /\ UNCHANGED <<clock, next_fire_at, lock, enqueued>>

EnqueueFails(a) ==
    /\ admin[a].at = "enqueue"
    /\ CountFailure
    /\ PushItem(admin[a].job) \/ UNCHANGED enqueued
    /\ AfterFailure(a)
    /\ UNCHANGED <<clock, next_fire_at, lock, executions>>

UpdateFails(a) ==
    /\ admin[a].at = "update"
    /\ CountFailure
    /\ SetNextFire(a) \/ UNCHANGED next_fire_at
    /\ JobDone(a)
    /\ UNCHANGED <<clock, lock, executions, enqueued>>

(* The process dies and is started again. *)
Crash(a) ==
    /\ admin[a].at # "idle"
    /\ CountFailure
    /\ admin' = [admin EXCEPT ![a] = IdleAdmin(@.now)]
    /\ UNCHANGED <<clock, next_fire_at, lock, executions, enqueued>>

(* Time passes when every admin has begun a tick at this time, and none is *)
(* in a tick that has lasted MaxStall.                                     *)
PassTime ==
    /\ clock < MaxTime
    /\ \A a \in Admins : IF admin[a].at = "idle"
                         THEN admin[a].now = clock
                         ELSE clock < admin[a].now + MaxStall
    /\ clock' = clock + 1
    /\ UNCHANGED <<next_fire_at, lock, executions, enqueued, admin, failures>>

-----------------------------------------------------------------------------
TickStep(a) ==
    \/ StartTick(a) \/ CreateOrGet(a) \/ Enqueue(a) \/ UpdateNextFire(a) \/ EndTick(a)
    \/ \E d \in admin[a].due : TakeLock(a, d) \/ SkipLocked(a, d)

FailureStep(a) ==
    \/ ListFails(a) \/ CreateFails(a) \/ EnqueueFails(a) \/ UpdateFails(a) \/ Crash(a)
    \/ \E d \in admin[a].due : LockFails(a, d)

Next ==
    \/ \E a \in Admins : TickStep(a) \/ FailureStep(a)
    \/ \E j \in Jobs, t \in Times : CreateJob(j, t)
    \/ PassTime

Spec == Init /\ [][Next]_vars

-----------------------------------------------------------------------------
TypeOK ==
    /\ clock \in 1 .. MaxTime
    /\ next_fire_at \in [Jobs -> Times]
    /\ lock \in [Jobs -> Nat]
    /\ executions \subseteq Jobs \X (Times \ {NoTime})
    /\ enqueued \in [Jobs -> [Times -> Nat]]
    /\ admin \in [Admins -> Tick]
    /\ failures \in 0 .. MaxFailures
    /\ \A a \in Admins :
           /\ admin[a].job = NoRow <=> admin[a].at \in {"idle", "next"}
           /\ admin[a].at = "idle" => admin[a].due = {}
           /\ \A d \in admin[a].due \cup {admin[a].job} : d.next_fire_at <= admin[a].now

(* No two admins process one job at the same time, though the lock lapses  *)
(* by itself and none of them checks that it still holds it.               *)
Processing(a, j) == admin[a].job # NoRow /\ admin[a].job.id = j

OneProcessor ==
    \A a, b \in Admins, j \in Jobs : Processing(a, j) /\ Processing(b, j) => a = b

(* Each fire time of a job is dispatched once: docs/.../design.md, 32.     *)
NoDuplicateDispatch == \A j \in Jobs : \A t \in Times : enqueued[j][t] <= 1

(* An execution is of a time its job's cron expression stands for:         *)
(* docs/.../design.md, 269 and 273.                                        *)
FiresFollowCron == \A e \in executions : e[2] \in Cron[e[1]]

(* An execution is enqueued again only because a call failed or a process  *)
(* died: every time more than the first has a failure of its own.          *)
Repeats(j) == {p \in Times \X (2 .. MaxFailures + 2) : p[2] <= enqueued[j][p[1]]}
RepeatsNeedFailures ==
    Cardinality(UNION {{j} \X Repeats(j) : j \in Jobs}) <= failures

(* An execution that was created and never enqueued is not forgotten: its  *)
(* job is still due at its time, and the tick that comes to it will find   *)
(* the row by the same key and enqueue it.                                 *)
RowsNotForgotten ==
    \A e \in executions : enqueued[e[1]][e[2]] = 0 => next_fire_at[e[1]] = e[2]

(* The fire time of a job only moves on, and only when the execution of    *)
(* the one it leaves was enqueued: no snapshot that has gone stale sets it *)
(* back or jumps over a time that nobody has served.                       *)
FireTimesServed ==
    [][\A j \in Jobs :
         next_fire_at[j] # NoTime /\ next_fire_at'[j] # next_fire_at[j] =>
             /\ enqueued[j][next_fire_at[j]] > 0
             /\ next_fire_at[j] < next_fire_at'[j]]_vars

(* How late a job may be served without a failure: a tick that began just  *)
(* before its fire time may go on until MaxStall - 1 after it, and the one *)
(* after that, which finds the job due, may last MaxStall.                 *)
Late == IF MaxStall = 0 THEN 0 ELSE 2 * MaxStall - 1

(* No job stays overdue: it is served within Late of its fire time, to     *)
(* which each failure can add the time that the lock it leaves behind      *)
(* takes to lapse, and the delay of the ticks after that.                  *)
OverdueBounded ==
    \A j \in Jobs :
        next_fire_at[j] # NoTime =>
            clock <= next_fire_at[j] + Late + failures * (LockTtl + Late)
===============================================================================
