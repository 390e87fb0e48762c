# Verification of task-center

TLA+ models of the task-center scheduler, the TLC runs that check them and the
TLAPS proofs about them. Paths below are relative to the repository; `R` stands
for `src/coordinator/redis.rs`, `P` for `src/store/postgres.rs`, `S` for
`src/scheduling/mod.rs`, `W` for `src/worker/mod.rs`.

## 1. The system

Any number of *admins* and *workers* share one PostgreSQL and one Redis.

| Component | State | Operations | Talks to |
|---|---|---|---|
| Scheduler loop of an admin (`S`, `src/admin/mod.rs`) | a snapshot of the due jobs | once a second: list due jobs; per job lock, create or get the execution, enqueue, move the fire time on | PostgreSQL, Redis |
| Store (`P`) | tables `jobs`, `executions`, `execution_attempts` | `create_or_get_execution`, `create_attempt`, `finish_attempt`, `update_next_fire_at`, ... | - |
| Coordinator (`R`) | lists `queue:shared`, `queue:worker:<w>`; keys `lease:<e>`, `attempt:<e>`, `lock:schedule:<j>`, `worker:<w>` | RPUSH; the Lua script that claims; `SET NX EX`; TTLs | - |
| Worker runtime (`W`) | the claimed execution | connect, tick (heartbeat, claim, execute to the end), error classes, reconnect, back-off, shutdown | Redis, PostgreSQL, executors |
| Executors (`src/executors`, `src/jobs`) | child processes, a connection, a browser and its watcher thread | run one task, hear a cancel, clear up | outside |
| Worker list (`R`, `src/admin`) | keys `worker:<w>` that expire | heartbeat of a tick; SCAN and GET by an admin | Redis |
| Configuration (`src/config.rs`) | none | reading the environment once, at the start | - |
| Admin API and UI, auth | none of their own | queries, `create_job` | PostgreSQL, Redis |
| Pure functions: `apply_misfire`, `select_worker` (`src/routing`), `LabelSelector` (`src/domain/labels.rs`), `can_transition_to` | - | no callers in the production paths | - |

A job's life: an admin finds the job due, inserts an execution under the key
`job:fire time:0`, pushes an item for it to `queue:shared`. A worker's claim
script pops the first item whose selector the worker's labels satisfy, with a
lease of `offline_after` on the execution. The worker inserts an attempt, runs
the task and writes the outcome to the attempt and to the execution.

### What is hard

- *Time limits that nobody renews or releases*: job locks (30 s) and leases
  (30 s) lapse by themselves, whatever their holders are doing.
- *Snapshots*: an admin works through rows it read before it held any lock.
- *Several stores, no common transaction*: every step of `schedule_job` and of a
  worker's tick can fail, before or after it took effect, or be the last step of
  a dying process.
- *A queue that rotates in place* while it is searched, and a script that may
  stop half way.
- *Numbers from two sources*: attempt numbers come from a Redis counter that
  expires and from a table.
- *A task in the hands of several*: a command's process group, the tasks that
  read its pipes, a time limit and a cancel; a blocking thread that outlives the
  future awaiting it, and a second thread that signals a process by its pid.
- *One loop for everything*: a worker sends no heartbeat while a task runs.

`PROJECT.json` lists each hazard with its line and the properties about it.

### What makes each component correct

- Queue: nothing lost, nothing twice, only to entitled workers, nil only if
  there is nothing; a pool to those who use it.
- Store: keys and attempt numbers are unique under any interleaving, an execution
  counts its newest attempt and has the status of the one that wrote last, calls
  look atomic.
- Scheduler: one admin at a time on a job, no fire time skipped or forgotten,
  repeats only after failures, bounded delay.
- Workers: whatever was enqueued is waiting, in hand, begun, or was
  interrupted; attempts do not multiply and have one writer; the loop survives.
- Executors: a success was answered from outside, and is one where the executor
  looks at the answer; it comes in time where a limit is set, and leaves nothing
  behind on the machine.
- Worker list: only who has a reason to be is offline, and a list is complete.
- Decisions: the answers of their definitions, wherever the input lies.

## 2. The modules

| Module | Models | Kind |
|---|---|---|
| `LabelSelector` | `selector_matches` of the claim script | operators |
| `DispatchQueue` | `enqueue` and the claim script, one loop iteration a step | state machine |
| `WorkPool` | what dispatching promises: an unordered pool and one holder per execution | abstract specification |
| `ExecutionTable` | the tables, each call one step | abstract specification and component |
| `StoreTransactions` | the statements of `create_or_get_execution` and `create_attempt` | state machine, EXTENDS `ExecutionTable` |
| `SchedulerTick` | the loops of the admins, the job locks and the clock | state machine |
| `WorkerRuntime` | the process of a worker | steps |
| `TaskCenter` | `WorkPool`, `ExecutionTable` and `WorkerRuntime` joined | composition |
| `TaskExecutor` | what every executor promises who awaits it | abstract specification |
| `ShellRun`, `HttpRun`, `CheckinRun`, `HeadlessRun` | one run of each executor | steps |
| `TaskRun` | the choice of an executor, and the four of them | composition |
| `WorkerSettings` | the worker's part of `config.rs` | operators |
| `WorkerList` | heartbeats, their expiry and the listing | state machine |
| `SelectorReaders`, `Routing`, `Misfire` | pure functions, and what they should answer | operators |
| `Decisions` | a question is asked of one of them, and answered | state machine |
| `*_proofs` | theorems about the module they extend (`ExecutionTable_proofs`: lemmas for two of them) | proofs |
| `MC*` | values of constants for TLC | model checking |

`DispatchQueue` implements `WorkPool` and `StoreTransactions` implements
`ExecutionTable` (both checked and proved), so `TaskCenter` composes the
abstract modules and stays small. `TaskRun` implements `TaskExecutor` (likewise):
that is why a task in `TaskCenter` is one step with any outcome.

### How state and actions correspond to the code

**DispatchQueue.** `queue[w]` is `queue:worker:<w>` and `queue[NoWorker]` is
`queue:shared`; `lease` and `attempt` are the keys of these names, absent as
`NoLease` and `0`. `script` holds the worker the script runs for, the list it is
at and how many iterations are left. Redis runs a script alone, so every other
action has the guard `Idle`; TTLs do not run out inside a script. `RejectHead`
(`R`:67-75) ends the script with an error where it stands; `RotateHead` is
LPOP and RPUSH; `LeaseHead` and `DropHead` are the two outcomes of `SET NX`
followed by LPOP. A `no` per item tells equal items apart; it is not in the code.
Nor are the histories: `enqueued`, `dropped`, `claims`, and `forgotten`, how often
a counter ran out, which each claim notes as its `life`. `ClaimsNumbered` is about
the claims of one life. Across lives nothing keeps numbers apart: the lease is never
renewed (`R`:90), so a counter (`R`:83) may run out while an attempt still runs, and the
next claim is number 1 again. That two attempts stay two all the same is the store's doing
(`NextNumber`), and `OneRunnerPerAttempt` checks it.

**StoreTransactions.** PostgreSQL at READ COMMITTED. `execution` and `attempts`
hold what is committed. `create_attempt` is `BeginAttempt`, `TakeLock` (the
advisory lock), `ReadNumber` (the SELECT), `CommitAttempt` (INSERT, UPDATE and
COMMIT become visible together); `RollbackAttempt` may come at any point.
`create_or_get_execution` is `BeginInsert`, then `InsertRow` and `CommitInsert`,
or `InsertConflict` and `SelectRow`; an INSERT waits while another
transaction holds an uncommitted row of its key. `finish_attempt` is one step:
its updates become visible together and it reads nothing first.
`writer`, a history variable of `ExecutionTable`, is the attempt that wrote an
execution's status last. `finish_attempt` does not look whether there is a newer attempt
(`P`:283), so the status may be an old attempt's over a newer one, and
`TablesAgree` says no more than that: the status is the one its writer's row has, and the
writer is the newest attempt or an older one that has ended.
The advisory lock is keyed by a hash of the id; two ids of one hash would only
wait for each other, which the model leaves out.

**SchedulerTick.** `admin[a]` is the local state of one `run_once`: its `now`,
the jobs `due` still to come and the `job` being processed, with the step it is
at. `CreateJob` sets the first fire time from `Cron`, what the cron expression
stands for; `UpdateNextFire` is `now + Period`. `lock[j]` is when the key lapses.
Every call has a failing action that either took effect or did not; `Crash`
drops the tick. A job that was paused or disabled is not modelled:
no code in the repository pauses one.

**WorkerRuntime and TaskCenter.** A worker's place names the call it makes next.
Each action of `TaskCenter` joins a runtime step to the effect of its call on
the pool or the tables. Failures: the reply of the claim, of `create_attempt` or
of `finish_attempt` is lost; PostgreSQL fails (the process exits: `W`:422-428
knows only Redis errors); the process dies; the signal drops the tick
(`W`:52). `Restart` is the restart policy in `docker-compose.yml`.
`Disabled` are the executions a worker's settings refuse (`W`:342).
History variables: `interrupted` (what a worker had in hand when it failed) and
`expiries` (leases that ran out).

**TaskRun** is one call of `execute_job_with_lease` (`W`:317-373): `Dispatch`
picks by task type, settings and the name of the builtin. `TaskExecutor` holds
what the executors share: `cancelled` (the token), `result` (the answer, or
`"dropped"` when the worker stops), and two history variables: `heard`, the command
ended, the response came, or the check-in's request or click was answered; and
`done`, what the task is for has happened (the command exited with zero, the
response had an expected status, the check-in was made). The command and the HTTP
executor judge what they hear, so their success means `done`. The check-ins do not:
a refused one is logged and the job returns Ok (`src/jobs/bugutv.rs`:184-192), and so
does a click whose effect is unknown (`src/jobs/bugutv_headless.rs`:336-369). There
an answer leaves `done` open, a success promises `heard` alone (`Judges`), and an
execution is stored as succeeded with no check-in made.

- *ShellRun*: `shell` is where `execute` stands: `spawn`, `wait` (the `select!`
  of exit, time limit and cancel, which takes any branch that is ready), `reap`,
  `sweep` (the second kill of the group), `stdout` and `stderr` (the two joins
  with one second each), `return`. `live` are the processes: the command, a
  member of its group and one that left the group. They hold the write ends of
  both pipes; a stream counts what was `written`, what is `piped` and what is
  `stored`. `Kept` is the limit of `read_summary`. A reader nobody can keep
  from its end of file is assumed to come to it within its second. Cutting UTF-8
  at the limit and the reuse of pids are left out.
- *HttpRun*: `send`, then `body`; the time limit and the token are heard while
  either is awaited.
- *CheckinRun*: the requests in order; each may fail, the check-in also after it
  took effect; one that is answered need not have taken effect; a cancel ends any of them.
- *HeadlessRun*: `driver` is the blocking thread: `between` calls (where it looks
  at the token), `calling`, then the locals dropped in reverse order: `leaving`,
  `joining` (the guard sets its flag and joins the watcher), `closing` (the browser
  is reaped). `watcher` is the second thread, whose look at the flag, look at the token and signal
  are three steps. Dropping the executor leaves both threads running.

**WorkerList.** `at` is where a process is, `fires` the time to its interval's
next tick, `key` what is left of its heartbeat key's life, `delay` how long the
current step has taken. Times count down, so nothing bounds how long a behaviour
gets. `PassTime` holds back while a step that should be prompt has taken
`MaxDelay`; a task, an error and a start may take any time, and are recorded as
the `reason` until the next heartbeat. `listing` is one call of
`list_worker_heartbeats`: pages of a SCAN, a GET for each key returned, with the
keys that were there all the while as history. That a full SCAN returns
those is Redis's promise, and the guard of `Scan`.
`WorkerSettings!Accepts` is what `from_env` requires; it relates no two numbers.

**Decisions.** A behaviour is one question and its answer. `ApplyMisfire`,
`SelectWorker`, `RustMatches` translate the code; `RightTimes`, `RightWorker` and
`Agree` say what an answer should be without computing it that way: how often each
time is in it, which workers a strategy permits, how the two readers of a selector
may differ. Of `random` and `round_robin` a single answer can only be asked to be in
the list; see the differences below.

## 3. The runs

| Run | Checks | Bounds |
|---|---|---|
| `dispatch_queue` | types, `Conserved`, `ServedToEntitled`, `ClaimsNumbered`, `NilMeansNothing`, refinement of `WorkPool`, `EntitledItemLeaves` | 2 workers with different labels, 2 executions, one for either worker and one whose selector is malformed after a part that only one worker passes; shared and direct queues, 2 pushes each |
| `store_transactions` | types, `NumberStaysFree`, `KeysUnique`, `TablesAgree`, `AttemptsAppended`, refinement of `ExecutionTable`, `TransactionsEnd` | 2 workers and 2 admins on one execution; attempt numbers to 2 |
| `scheduler_tick` | types, `OneProcessor`, `RepeatsNeedFailures`, `RowsNotForgotten`, `OverdueBounded`, `FireTimesServed` | 2 admins, 2 jobs, 2 failures; unit 10 s: lock 3, period 6, tick at most 1; clock to 10 |
| `scheduler_tick_stale` | `NoDuplicateDispatch`, violated | ticks of up to 2 units, no failure |
| `scheduler_tick_cron` | `FiresFollowCron`, violated | a cron expression with a fire time every two minutes |
| `task_center` | types, `LostWasInterrupted`, `RunningHasRunner`, `WorkBounded`, `OneRunnerPerAttempt` | 2 workers (symmetric), 1 execution with 3 items, 2 failures |
| `task_center_live` | `EnqueuedFinishes`, `LoopGoesOn` | 2 executions with an item each, one of 2 workers refuses the second; 1 failure |
| `task_run` | types, `NothingLeftBehind`, `SummaryComplete`, `SignalsOwnBrowser`, `WriterNotBlocked`, `EndsInTime`, refinement of `TaskExecutor` | a job for each executor and the refused ones; 1 unit kept of an output, pipes of 2, 4 units written; 2 chunks of a body; 6 challenge pages as in the code |
| `worker_list` | types, `OfflineHasReason`, `ListingComplete` | 2 workers; unit 5 s; 7 environments: the defaults, just enough and too little room for delays, and four that are refused or absurd; a step is held up for at most one unit |
| `decisions` | `ReadersAgree`, `RoutedRight`, `MisfiredRight` | selectors and labels of up to 3 parts over 2 keys, 2 values and a malformed part; up to 3 workers; keys of up to 3 bytes, hash of width 8; up to 3 fire times, all around the window's ends |
| `task_center_final` | `SucceededIsFinal`, violated | no failure at all |
| `task_center_retry` | `InterruptedIsRetried`, violated | 1 failure, fair |

`Conserved` joins that nothing enqueued is lost, that nothing is in two places,
and that what the script drops had its execution served; `KeysUnique` that one
transaction at most inserts a key and that one that lost the race finds a row;
`ClaimsNumbered` that claims are numbered without a gap and a live lease is the
latest, as long as the counter lives; `TablesAgree` which attempt an execution's count,
worker and status are of; `RefinesTaskExecutor` that a success was answered from outside
and, of a command or a request, is one; `WorkBounded` that neither workers in an execution nor attempts multiply
but by leases that ran out and by enqueues.

**Why the bounds suffice.** In `DispatchQueue` every interesting list is there
with four items: items to rotate before and after the one served, an unreadable
one between, a duplicate to drop; the proofs cover all lengths. In
`SchedulerTick` the clock reaches a second fire time of a job and, after one,
locks left behind twice; locks, periods and stalls keep the ratios of the code
(30 s, 60 s, less than half a lock). `OverdueBounded` is tight: with either term
smaller TLC finds a counterexample. In `TaskCenter`,
`MaxAttempts = 2 * MaxEnqueues - 1` is the largest number an attempt can get
(each item adds one attempt, and a hint can be ahead of the table by the claims
that never became attempts), so that bound never cuts a behaviour off;
`MaxEnqueues` items let a lease end under a running task, be taken again, and
end again. Executions meet in `TaskCenter` only in a worker's single slot:
`task_center_live` has two of them, `DispatchQueue` has several in its lists.
Two attempt numbers are enough for `StoreTransactions` to have two transactions
compete for a number and a third find none free; the proofs cover all numbers.
In `task_run` an output is longer than what is kept and than a pipe, so a reader
that stopped at the limit would block the command, which is the mutant of
`WriterNotBlocked`. In `worker_list` the settings of `RoomForDelay` stand on both
sides of the line: `Tight(4)` leaves just enough room, `Tight(3)` and `Tight(2)`
go offline without a reason, and the property excuses them. In `decisions` hashes wrap
two times over, and a window's ends, ties and repeated keys are all there.
`StopAtBound` is the only action that exists for a bound.

**Deadlock** is checked wherever the system goes on for ever. Where the clock or the number of failures
is bounded, admins can still tick and workers can still ask. A task run
and a decision end, so `task_run` and `decisions` do not check it; `EndsInTime`
says where a run must not stop short of its answer.

### Fairness

- `DispatchQueue`: a running script is finished (weak); a worker's claim is
  served in the end although others' come between (strong); a lease runs out
  (strong: it is only delayed while scripts run).
- `StoreTransactions`: strong fairness of a transaction's next statement:
  PostgreSQL queues lock waiters, so one that waits while others come and go
  gets its turn. Rollbacks and new transactions are not fair.
- `TaskCenter`: weak fairness of a worker's tick (processes run, calls return,
  tasks end, containers restart) and strong fairness of being given an item when
  asking again and again. Leases, failures, stops and the start of stopped
  workers are not fair; properties do not depend on them.
- `TaskRun`: weak fairness of what the worker's own threads, timers and readers do
  next, and of a call to a browser that is gone. None of the outside: a
  command need not end, a site need not answer, a page need not load. So
  `EndsInTime` shows what the time limits and the cancel achieve by themselves, and
  a check-in, which has no limit, must be cancelled to be sure to end.
- `WorkerList` and `Decisions` state no liveness.
- `SchedulerTick` needs none: its delay property is a bound on the clock.

### Where the code and its documents differ

1. `scheduler_tick_stale`: the design says (line 32) that Redis locks prevent
   duplicate dispatch. A tick that lasts half a lock or more can come with an
   old row to a job whose lock has lapsed since another admin served it.
2. `scheduler_tick_cron`: the design (269) computes fire times from the cron
   expression; the code adds a minute.
3. `task_center_final`: the design (261) wants transitions validated, and the
   tests of `src/domain/state.rs` refuse Succeeded to Running; the store writes
   statuses unconditionally.
4. `task_center_retry`: the design (610) has lease expiry trigger retry or
   failure and the README (62) promises at-least-once execution; nothing in the
   code looks for executions whose worker is gone.
5. No run: the design (299-300) has `random` choose a worker at random and `round_robin`
   by a cursor in Redis. `select_worker` takes the first of the list for both
   (`src/routing/mod.rs`:64-65). One answer is in the list either way, which is all
   `RoutedRight` asks; what is missing would show only in many answers, and no code
   calls the function.
6. No run: a check-in that was refused, or whose outcome is unknown, is stored as
   succeeded (see `TaskRun` above). No document says otherwise of the worker.

## 4. The proofs

All proofs hold for any number of workers, executions, admins, jobs and any
values of the bounds; those of `TaskRun` for any limits of what is kept and any
capacity of a pipe, those of `WorkerList` for any settings.

- `DispatchQueue_proofs`: types; `Conserved`; `ServedToEntitled`; `ClaimsNumbered`;
  `NilMeansNothing`; refinement of `WorkPool`. The invariant behind the nil
  property says that the items the running script has already passed stand at
  the end of the list, all of them unfit for the worker, so that when none is
  left to look at the whole list is unfit. Conservation rests on lemmas about
  what a rotation and a removal do to the set of places of items. `ClaimsNumbered`
  needs besides that no claim is of a life still to come, and that a claim adds
  its number to those of its life and leaves the other executions' claims alone.
- `ExecutionTable_proofs`: lemmas about single calls: each keeps the types, what an
  execution's row says of its attempts, and the numbering of the attempts.
- `StoreTransactions_proofs`: types; `NumberStaysFree`, from an invariant that ties
  the `read` and `write` places of a transaction to its holding the advisory lock;
  `KeysUnique`; `TablesAgree`; `AttemptsAppended`; refinement of `ExecutionTable`.
- `TaskCenter_proofs`: types, `LostWasInterrupted`, `RunningHasRunner`,
  `OneRunnerPerAttempt` and `WorkBounded`. The invariant has four parts: types,
  with a worker's place and what it holds; `Owned`, that a worker at `run` or
  `finish` has an attempt that is running and its own, from which two runners of one
  attempt are the same worker; `Found`, where an enqueued execution is, which
  needs that a lease is of an execution that was begun or is in hand; `Counted`, the
  workers per lease and the attempts per item, with the items and the workers that
  still may create one counted in. What an attempt's insertion does to the tables
  comes from the lemmas of `ExecutionTable_proofs`.
  Two theorems say that the composition keeps to its parts: with lost replies,
  deaths and stops its steps are steps of `WorkPool` and of `ExecutionTable`
  (`SystemKeepsPool`, `SystemKeepsTables`). So what the parts promise holds of the
  whole: an execution's row is its newest attempt's and its last writer's, and
  attempts are only appended, whatever number a lease gives (`SystemTablesAgree`,
  `SystemAppendsAttempts`). `FinishAttempt` has a guard
  that `finish_attempt` does not (the attempt is running): `FinishesAreOwn` proves
  that in the system it never holds anything back, for a worker that comes to the call
  finds its own attempt running; `OutcomesAreFinal` follows, that no step changes an
  attempt that ended.
- `SchedulerTick_proofs`: types, `OneProcessor`, `RowsNotForgotten`,
  `FireTimesServed`, `RepeatsNeedFailures` and `OverdueBounded`. The types hold
  whatever ticks and locks last (`TicksTyped`); all else is proved under the assumption
  `2 * MaxStall < LockTtl`, which the run `scheduler_tick_stale` shows to be needed. `OneProcessor` is not
  inductive by itself. The invariant adds for every tick that (1) it is no older than
  `MaxStall`, (2) the lock of the job it processes outlives it, and that job's
  fire time is still the snapshot's, and (3) a row of its snapshot that has gone
  stale belongs to a job whose lock outlives the tick, so that the tick will
  find it taken. For (3): whoever moved the fire time on set the lock at a time at
  most `MaxStall` before, so the lock lasts `LockTtl - MaxStall`, more than
  the `MaxStall` the other tick has left.
  `RepeatsNeedFailures` counts: the failures bound the size of a set with a member
  for every enqueue that its tick did not follow up with `update_next_fire_at`. An
  enqueue in hand is not in it yet; a tick that goes on to the update never joins
  it, and one that fails or crashes joins it at the failure that pays for it.
  `OverdueBounded` (`ServedInTime`) needs besides an admin, and that a lock and a
  tick fit in a period (`LockTtl + MaxStall <= Period`: 30 s and a tick within 60 s),
  or the lock of one fire time would still stand at the next. Its invariant says of
  a job that is past its time: a tick that began in time has it in hand; or its lock
  lapses before the deadline, and every admin either is in a tick that began
  before that or has the job still to come. The proof found the bound that was checked
  until then wrong for ticks of two units and more, which no run had: an admin
  can be in a tick that began just before the fire time, so a job may wait for nearly
  two ticks, `Late`, and not for one.
- `Decisions_proofs`: `ReadersAgree`, `RoutedRight` (of `random` and `round_robin` only
  that the answer is in the list) and `MisfiredRight`, for inputs of any size. The map of the Rust parser keeps, of the parts with one key, the last.
  A fold is shown to exist and to take its sequence place by place (`FoldExists`,
  from the well-foundedness of `<` alone), so that a hash which wraps at every byte
  is the polynomial of the key, wrapped once (`HashWraps`, `Horner`), and a filter
  keeps what it should, as often and in order (`KeepOne`); a permutation that sorts
  exists because one more element has a place (`OneMoreOrdered`). `Sorted` and `Kept`
  are written out for that: the provers have no definition of `SortSeq` and
  `SelectSeq`.
- `WorkerList_proofs`: types, `OfflineHasReason` and `ListingComplete`. For the
  first the invariant says, place by place of the loop, how much of its life
  a key still has: what the timer and the delays can have used since the heartbeat, and
  no more. For the second: what was there throughout and still is has been found, is in
  the batch that is read, or is owed by the SCAN.
- `TaskRun_proofs`: types, `NothingLeftBehind`, `SummaryComplete`,
  `SignalsOwnBrowser` and the refinement of `TaskExecutor`. At most one executor is
  at work, so its steps are looked at alone. Each part's invariant follows its
  clearing up: after the sweep no process of the group is left and none can be started,
  a reader that was given up means that a process left the group, a watcher lives
  only as long as the driver has not joined it, and a success means that the command
  exited with zero, the response was an expected one, or the check-in's request or click
  was answered, which is all the worker can believe of a check-in.

Only model-checked: the liveness properties `EntitledItemLeaves`,
`TransactionsEnd`, `EnqueuedFinishes`, `LoopGoesOn`, `EndsInTime` and `WriterNotBlocked`
(fairness and ENABLED are out of the prover's reach), and the four violated ones.
Every other property of a run is a theorem. Assumptions on
constants are the named `ASSUME`s of the modules; TLC evaluates them in the runs.

## 5. Not modelled

- Cancel requests: nothing in the code calls `request_cancel` or
  `is_cancel_requested`, so no token is ever cancelled in production. The
  executors are written for it, and `TaskRun` cancels tokens at any time.
  A worker stores a cancelled task as failed, so `TaskCenter` has no third outcome.
- The `timeout_seconds` of a job: stored and shown, used by no executor.
- Store methods without callers outside tests: `update_status`,
  `create_execution`, `list_retry_due`, `set_paused`.
- The admin API beyond `create_job` and the worker list, authentication, the
  admin's configuration, the UI: request mapping and reading, no state of their own.
- The former single-process scheduler, its notifications and the check-in job's
  three tries: no command of the program reaches them.
- What a page or a response contains: reading points and titles out of HTML.
- Reuse of a pid, cutting UTF-8 at the limit of an output.
- Errors of waiting for or killing a child, and of joining a reader task
  (`src/executors/shell.rs`:96-109, every `?`): the operating system gives none for a
  child that is there or for a pipe, and a reader task neither panics nor is aborted
  before the join.
- Loss of Redis data (a restart without persistence) and clock differences
  between admins: the models have one clock and a Redis that keeps its keys.
- Two worker processes with one `WORKER_ID`.

## 6. Plan

Order so far: `DispatchQueue` with `WorkPool`; `ExecutionTable` with
`StoreTransactions`; `SchedulerTick`; `WorkerRuntime` and `TaskCenter`; the
executors with `TaskRun`; `WorkerSettings` and `WorkerList`; `SelectorReaders`,
`Routing`, `Misfire` and `Decisions`.

All of this is checked, and all its safety proved. What is left is to keep it
so as the code changes.

A composition of `SchedulerTick` with the pool is not planned: the scheduler
acts on the rest by create and enqueue alone, which `TaskCenter` allows at any time.
