-------------------------- MODULE StoreTransactions --------------------------
(***************************************************************************)
(* The transactions behind create_or_get_execution and create_attempt,     *)
(* statement by statement, as PostgreSQL runs them at READ COMMITTED: a    *)
(* statement sees what was committed before it started, and a transaction  *)
(* can be rolled back at any point (an error, a lost connection, the death *)
(* of the process).  The two tables hold what is committed.                *)
(***************************************************************************)
EXTENDS ExecutionTable

CONSTANTS
    Admins,
    NoKey           \* the execution of a transaction that has not begun

VARIABLES
    attemptTx,      \* the create_attempt transaction of a worker
    advisory,       \* the transaction-scoped advisory lock of an execution
    insertTx        \* the create_or_get_execution transaction of an admin

storeVars == <<execution, attempts, writer, attemptTx, advisory, insertTx>>

NoAttemptTx(w) == attemptTx[w].at = "none"
NoInsertTx(a) == insertTx[a].at = "none"

IdleAttemptTx == [at |-> "none", execution_id |-> NoKey, hint |-> 0, attempt_no |-> 0]
IdleInsertTx == [at |-> "none", execution_id |-> NoKey]

StoreInit ==
    /\ TableInit
    /\ attemptTx = [w \in Workers |-> IdleAttemptTx]
    /\ advisory = [e \in Executions |-> NoWorker]
    /\ insertTx = [a \in Admins |-> IdleInsertTx]

-----------------------------------------------------------------------------
(* create_attempt *)

BeginAttempt(w, e, hint) ==
    /\ NoAttemptTx(w)
    /\ Exists(e)
    /\ attemptTx' = [attemptTx EXCEPT ![w] = [at |-> "lock", execution_id |-> e,
                                              hint |-> hint, attempt_no |-> 0]]
    /\ UNCHANGED <<execution, attempts, writer, advisory, insertTx>>

(* pg_advisory_xact_lock waits for the transaction that holds the lock. *)
MutantLockFree(e) == TRUE
LockFree(e) == advisory[e] = NoWorker

TakeLock(w) ==
    LET e == attemptTx[w].execution_id
    IN  /\ attemptTx[w].at = "lock"
        /\ LockFree(e)
        /\ advisory' = [advisory EXCEPT ![e] = w]
        /\ attemptTx' = [attemptTx EXCEPT ![w].at = "read"]
        /\ UNCHANGED <<execution, attempts, writer, insertTx>>

(* The SELECT of the next number. *)
ReadNumber(w) ==
    LET tx == attemptTx[w]
        n == NextNumber(tx.execution_id, tx.hint)
    IN  /\ tx.at = "read"
        /\ n <= MaxAttempts
        /\ attemptTx' = [attemptTx EXCEPT ![w].at = "write", ![w].attempt_no = n]
        /\ UNCHANGED <<execution, attempts, writer, advisory, insertTx>>

MutantReleased(w) == advisory

Released(w) ==
    [e \in Executions |-> IF advisory[e] = w THEN NoWorker ELSE advisory[e]]

(* The INSERT and the UPDATE become visible with the commit, which also    *)
(* releases the lock.  The unique key on (execution_id, attempt_no) lets   *)
(* the INSERT through only if the number is free.                          *)
CommitAttempt(w) ==
    LET tx == attemptTx[w]
    IN  /\ tx.at = "write"
        /\ ~Attempted(tx.execution_id, tx.attempt_no)
        /\ WriteAttempt(tx.execution_id, tx.attempt_no, w)
        /\ advisory' = Released(w)
        /\ attemptTx' = [attemptTx EXCEPT ![w] = IdleAttemptTx]
        /\ UNCHANGED insertTx

RollbackAttempt(w) ==
    /\ ~NoAttemptTx(w)
    /\ advisory' = Released(w)
    /\ attemptTx' = [attemptTx EXCEPT ![w] = IdleAttemptTx]
    /\ UNCHANGED <<execution, attempts, writer, insertTx>>

(* The end of the bound on attempt numbers: the model gives the attempt up. *)
StopAtBound(w) ==
    LET tx == attemptTx[w]
    IN  /\ tx.at = "read"
        /\ NextNumber(tx.execution_id, tx.hint) > MaxAttempts
        /\ RollbackAttempt(w)

(* finish_attempt by the worker that created the attempt.  Its two updates *)
(* become visible together.                                                *)
Finish(w, e, n, outcome) ==
    /\ NoAttemptTx(w)
    /\ attempts[e][n].worker_id = w
    /\ FinishAttempt(e, n, outcome)
    /\ UNCHANGED <<attemptTx, advisory, insertTx>>

-----------------------------------------------------------------------------
(* create_or_get_execution *)

BeginInsert(a, e) ==
    /\ NoInsertTx(a)
    /\ insertTx' = [insertTx EXCEPT ![a] = [at |-> "insert", execution_id |-> e]]
    /\ UNCHANGED <<execution, attempts, writer, attemptTx, advisory>>

(* Another transaction has inserted the key and not ended yet. *)
MutantPendingInsert(a, e) == FALSE

PendingInsert(a, e) ==
    \E b \in Admins \ {a} : insertTx[b] = [at |-> "inserted", execution_id |-> e]

(* INSERT ... ON CONFLICT DO NOTHING waits for a pending insert of the key *)
(* to end, then inserts if there is no committed row...                    *)
InsertRow(a) ==
    LET e == insertTx[a].execution_id
    IN  /\ insertTx[a].at = "insert"
        /\ ~Exists(e)
        /\ ~PendingInsert(a, e)
        /\ insertTx' = [insertTx EXCEPT ![a].at = "inserted"]
        /\ UNCHANGED <<execution, attempts, writer, attemptTx, advisory>>

(* ... and does nothing if there is one. *)
InsertConflicts(a, e) == Exists(e)

InsertConflict(a) ==
    /\ insertTx[a].at = "insert"
    /\ InsertConflicts(a, insertTx[a].execution_id)
    /\ insertTx' = [insertTx EXCEPT ![a].at = "select"]
    /\ UNCHANGED <<execution, attempts, writer, attemptTx, advisory>>

CommitInsert(a) ==
    /\ insertTx[a].at = "inserted"
    /\ CreateExecution(insertTx[a].execution_id)
    /\ insertTx' = [insertTx EXCEPT ![a] = IdleInsertTx]
    /\ UNCHANGED <<attemptTx, advisory>>

(* The SELECT by key after a conflict, and the commit of nothing. *)
SelectRow(a) ==
    /\ insertTx[a].at = "select"
    /\ Exists(insertTx[a].execution_id)
    /\ insertTx' = [insertTx EXCEPT ![a] = IdleInsertTx]
    /\ UNCHANGED <<execution, attempts, writer, attemptTx, advisory>>

RollbackInsert(a) ==
    /\ ~NoInsertTx(a)
    /\ insertTx' = [insertTx EXCEPT ![a] = IdleInsertTx]
    /\ UNCHANGED <<execution, attempts, writer, attemptTx, advisory>>

-----------------------------------------------------------------------------
AttemptStep(w) ==
    \/ TakeLock(w)
    \/ ReadNumber(w)
    \/ CommitAttempt(w)
    \/ StopAtBound(w)

InsertStep(a) ==
    \/ InsertRow(a)
    \/ InsertConflict(a)
    \/ CommitInsert(a)
    \/ SelectRow(a)

StoreNext ==
    \/ \E w \in Workers, e \in Executions, hint \in AttemptNos : BeginAttempt(w, e, hint)
    \/ \E w \in Workers : AttemptStep(w) \/ RollbackAttempt(w)
    \/ \E w \in Workers, e \in Executions, n \in AttemptNos, outcome \in Outcomes :
           Finish(w, e, n, outcome)
    \/ \E a \in Admins, e \in Executions : BeginInsert(a, e)
    \/ \E a \in Admins : InsertStep(a) \/ RollbackInsert(a)

StoreSpec == StoreInit /\ [][StoreNext]_storeVars

(* PostgreSQL runs the statements it was sent, and grants a lock to those  *)
(* that wait for it in turn.                                               *)
StoreFairness ==
    /\ \A w \in Workers : SF_storeVars(AttemptStep(w))
    /\ \A a \in Admins : SF_storeVars(InsertStep(a))

FairStoreSpec == StoreSpec /\ StoreFairness

-----------------------------------------------------------------------------
StoreTypeOK ==
    /\ TableTypeOK
    /\ attemptTx \in [Workers -> [at: {"none", "lock", "read", "write"},
                                  execution_id: Executions \cup {NoKey},
                                  hint: 0 .. MaxAttempts,
                                  attempt_no: 0 .. MaxAttempts]]
    /\ \A w \in Workers : ~NoAttemptTx(w) => attemptTx[w].execution_id \in Executions
    /\ advisory \in [Executions -> Workers \cup {NoWorker}]
    /\ insertTx \in [Admins -> [at: {"none", "insert", "inserted", "select"},
                                execution_id: Executions \cup {NoKey}]]
    /\ \A a \in Admins : ~NoInsertTx(a) => insertTx[a].execution_id \in Executions

(* The number a transaction is about to insert is free and newer than all  *)
(* others: the unique key on (execution_id, attempt_no) never rejects an   *)
(* attempt, however the transactions of several workers interleave.        *)
NumberStaysFree ==
    \A w \in Workers :
        attemptTx[w].at = "write" =>
            Newest(attemptTx[w].execution_id) < attemptTx[w].attempt_no

(* After a conflict the SELECT finds the row: create_or_get_execution      *)
(* never fails for want of a row it has just been told is there.           *)
ConflictHasRow ==
    \A a \in Admins : insertTx[a].at = "select" => Exists(insertTx[a].execution_id)

(* Of the transactions that insert one key, one at a time gets past the    *)
(* INSERT, and none once the row is committed: a key gets one row.         *)
OneInserter ==
    \A a \in Admins :
        insertTx[a].at = "inserted" =>
            LET e == insertTx[a].execution_id
            IN  ~Exists(e) /\ ~PendingInsert(a, e)

(* The two together: a key has one row, and whoever asks for it gets it. *)
KeysUnique == OneInserter /\ ConflictHasRow

(* Every transaction ends: waiting for locks and pending inserts is never  *)
(* circular.                                                               *)
TransactionsEnd ==
    /\ \A w \in Workers : ~NoAttemptTx(w) ~> NoAttemptTx(w)
    /\ \A a \in Admins : ~NoInsertTx(a) ~> NoInsertTx(a)

(* The transactions take effect in one step, at their commit. *)
RefinesTable == TableSpec
===============================================================================
