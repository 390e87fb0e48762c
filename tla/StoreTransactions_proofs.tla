----------------------- MODULE StoreTransactions_proofs -----------------------
(* Proofs about the transactions that write the tables: for every set of   *)
(* executions, workers and admins, and every bound on attempts.            *)
EXTENDS StoreTransactions, ExecutionTable_proofs

-----------------------------------------------------------------------------
(* The transactions.  A number that has been read stays free because its   *)
(* transaction still holds the advisory lock of the execution, and no      *)
(* other transaction can hold it: that is the strengthening.               *)
LockHeld ==
    \A w \in Workers :
        attemptTx[w].at \in {"read", "write"} => advisory[attemptTx[w].execution_id] = w

(* NumberStaysFree with the execution named. *)
WriteAboveNewest ==
    \A w \in Workers, f \in Executions :
        attemptTx[w].at = "write" /\ attemptTx[w].execution_id = f =>
            Newest(f) < attemptTx[w].attempt_no

TxOfRow ==
    \A w \in Workers :
        attemptTx[w].at # "none" => Exists(attemptTx[w].execution_id)

StoreInv ==
    /\ TableInv
    /\ StoreTypeOK
    /\ LockHeld
    /\ TxOfRow
    /\ WriteAboveNewest
    /\ ConflictHasRow
    /\ OneInserter

AttemptTx == [at: {"none", "lock", "read", "write"},
              execution_id: Executions \cup {NoKey},
              hint: 0 .. MaxAttempts,
              attempt_no: 0 .. MaxAttempts]
InsertTx == [at: {"none", "insert", "inserted", "select"},
             execution_id: Executions \cup {NoKey}]

LEMMA TxTypes ==
    ASSUME StoreInv
    PROVE  /\ attemptTx \in [Workers -> AttemptTx]
           /\ insertTx \in [Admins -> InsertTx]
           /\ advisory \in [Executions -> Workers \cup {NoWorker}]
           /\ \A w \in Workers : attemptTx[w].at # "none" =>
                                   attemptTx[w].execution_id \in Executions
           /\ \A a \in Admins : insertTx[a].at # "none" =>
                                  insertTx[a].execution_id \in Executions
  BY DEF StoreInv, StoreTypeOK, AttemptTx, InsertTx, NoAttemptTx, NoInsertTx

LEMMA StoreInitInv == StoreInit => StoreInv
  <1> SUFFICES ASSUME StoreInit PROVE StoreInv
    OBVIOUS
  <1>1. TableInv
    BY TableInitInv DEF StoreInit
  <1>2. /\ \A w \in Workers : attemptTx[w].at = "none"
        /\ \A a \in Admins : insertTx[a].at = "none"
    BY DEF StoreInit, IdleAttemptTx, IdleInsertTx
  <1>3. StoreTypeOK
    BY <1>1, <1>2, MaxAttemptsAssumption
    DEF StoreInit, StoreTypeOK, TableInv, IdleAttemptTx, IdleInsertTx, NoAttemptTx, NoInsertTx
  <1>4. LockHeld /\ TxOfRow /\ WriteAboveNewest /\ ConflictHasRow /\ OneInserter
    BY <1>2 DEF LockHeld, TxOfRow, WriteAboveNewest, ConflictHasRow, OneInserter
  <1> QED BY <1>1, <1>3, <1>4 DEF StoreInv

(* A step of worker w's transaction, to the state tx of it, that leaves    *)
(* the other transactions and the locks of the other workers alone.        *)
LEMMA WorkerStepInv ==
    ASSUME StoreInv, TableInv', RowsKept, NEW w \in Workers, NEW tx \in AttemptTx,
           attemptTx' = [attemptTx EXCEPT ![w] = tx],
           UNCHANGED insertTx,
           \A f \in Executions : Exists(f)' => Exists(f),
           advisory' \in [Executions -> Workers \cup {NoWorker}],
           \A f \in Executions : advisory[f] \in Workers \ {w} => advisory'[f] = advisory[f],
           tx.at # "none" => /\ tx.execution_id \in Executions
                             /\ execution[tx.execution_id] # NoExecution,
           tx.at \in {"read", "write"} => advisory'[tx.execution_id] = w,
           \A f \in Executions : tx.at = "write" /\ tx.execution_id = f =>
                                   Newest(f)' < tx.attempt_no,
           \A f \in Executions : advisory[f] \in Workers \ {w} => NewestKept(f)
    PROVE  StoreInv'
  <1> USE TxTypes
  <1>1. /\ attemptTx'[w] = tx
        /\ \A v \in Workers : v # w => attemptTx'[v] = attemptTx[v]
    OBVIOUS
  <1>2. StoreTypeOK'
    <2>1. attemptTx' \in [Workers -> AttemptTx]
      OBVIOUS
    <2>2. \A v \in Workers : attemptTx'[v].at # "none" =>
                               attemptTx'[v].execution_id \in Executions
      BY <1>1
    <2> QED BY <2>1, <2>2 DEF StoreTypeOK, TableInv, AttemptTx, InsertTx, NoAttemptTx, NoInsertTx
  <1>3. LockHeld'
    BY <1>1 DEF LockHeld, StoreInv
  <1>7. TxOfRow'
    BY <1>1 DEF TxOfRow, RowsKept, Exists, StoreInv
  <1>4. WriteAboveNewest'
    <2> SUFFICES ASSUME NEW v \in Workers, NEW f \in Executions,
                        attemptTx'[v].at = "write", attemptTx'[v].execution_id = f
                 PROVE  Newest(f)' < attemptTx'[v].attempt_no
      BY DEF WriteAboveNewest
    <2>1. CASE v = w
      BY <1>1, <2>1
    <2>2. CASE v # w
      <3>1. attemptTx'[v] = attemptTx[v]
        BY <1>1, <2>2
      <3>2. Newest(f) < attemptTx[v].attempt_no
        BY <3>1 DEF StoreInv, WriteAboveNewest
      <3>3. advisory[f] = v
        BY <3>1 DEF StoreInv, LockHeld
      <3>4. NewestKept(f)
        BY <2>2, <3>3
      <3> QED BY <3>1, <3>2, <3>4 DEF NewestKept
    <2> QED BY <2>1, <2>2
  <1>5. ConflictHasRow'
    BY DEF ConflictHasRow, RowsKept, Exists, StoreInv
  <1>6. OneInserter'
    BY DEF OneInserter, StoreInv, PendingInsert, Exists
  <1> QED BY <1>2, <1>3, <1>4, <1>5, <1>6, <1>7 DEF StoreInv

(* The same of a step of admin a's transaction.  A row that appears is the *)
(* one the transaction had inserted.                                       *)
LEMMA AdminStepInv ==
    ASSUME StoreInv, TableInv', RowsKept, \A f \in Executions : NewestKept(f),
           NEW a \in Admins, NEW tx \in InsertTx,
           insertTx' = [insertTx EXCEPT ![a] = tx],
           UNCHANGED <<attemptTx, advisory>>,
           tx.at # "none" => tx.execution_id \in Executions,
           tx.at = "select" => execution'[tx.execution_id] # NoExecution,
           tx.at = "inserted" => /\ execution'[tx.execution_id] = NoExecution
                                 /\ ~PendingInsert(a, tx.execution_id),
           \A f \in Executions :
               execution'[f] # NoExecution /\ execution[f] = NoExecution =>
                   insertTx[a] = [at |-> "inserted", execution_id |-> f]
    PROVE  StoreInv'
  <1> USE TxTypes
  <1>1. /\ insertTx'[a] = tx
        /\ \A b \in Admins : b # a => insertTx'[b] = insertTx[b]
    OBVIOUS
  <1>2. StoreTypeOK'
    <2>1. insertTx' \in [Admins -> InsertTx]
      OBVIOUS
    <2>2. \A b \in Admins : insertTx'[b].at # "none" =>
                              insertTx'[b].execution_id \in Executions
      BY <1>1
    <2> QED BY <2>1, <2>2 DEF StoreTypeOK, TableInv, AttemptTx, InsertTx, NoAttemptTx, NoInsertTx
  <1>3. LockHeld'
    BY DEF LockHeld, StoreInv
  <1>7. TxOfRow'
    BY DEF TxOfRow, RowsKept, Exists, StoreInv
  <1>4. WriteAboveNewest'
    BY DEF WriteAboveNewest, NewestKept, StoreInv
  <1>5. ConflictHasRow'
    BY <1>1 DEF ConflictHasRow, RowsKept, Exists, StoreInv
  <1>6. OneInserter'
    <2> SUFFICES ASSUME NEW b \in Admins, insertTx'[b].at = "inserted"
                 PROVE  /\ execution'[insertTx'[b].execution_id] = NoExecution
                        /\ ~PendingInsert(b, insertTx[b].execution_id)'
      BY DEF OneInserter, Exists
    <2>1. CASE b = a
      BY <1>1, <2>1 DEF PendingInsert
    <2>2. CASE b # a
      <3> DEFINE f == insertTx[b].execution_id
      <3>1. insertTx'[b] = insertTx[b]
        BY <1>1, <2>2
      <3>2. insertTx[b] = [at |-> "inserted", execution_id |-> f] /\ f \in Executions
        BY <3>1 DEF InsertTx
      <3>3. execution[f] = NoExecution /\ ~PendingInsert(b, f)
        BY <3>1 DEF StoreInv, OneInserter, Exists
      <3>4. insertTx[a] # [at |-> "inserted", execution_id |-> f]
        BY <2>2, <3>3 DEF PendingInsert
      <3>5. execution'[f] = NoExecution
        BY <3>2, <3>3, <3>4
      <3>6. tx # [at |-> "inserted", execution_id |-> f]
        BY <2>2, <3>2 DEF PendingInsert
      <3>7. \A c \in Admins \ {b} : insertTx'[c] # [at |-> "inserted", execution_id |-> f]
        BY <1>1, <3>3, <3>6 DEF PendingInsert
      <3> QED BY <3>1, <3>5, <3>7 DEF PendingInsert
    <2> QED BY <2>1, <2>2
  <1> QED BY <1>2, <1>3, <1>4, <1>5, <1>6, <1>7 DEF StoreInv

-----------------------------------------------------------------------------
(* What CommitAttempt and Finish do is what CreateAttempt and FinishAttempt*)
(* do, with the number that was read as the hint.                          *)
LEMMA CommitIsCreate ==
    ASSUME TableInv, NEW e \in Executions, NEW n \in AttemptNos, NEW w \in Workers,
           Exists(e), Newest(e) < n, WriteAttempt(e, n, w)
    PROVE  TableNext
  <1>1. NextNumber(e, n) = n /\ n <= MaxAttempts
    BY CountIsNewest, MaxAttemptsAssumption DEF NextNumber, Greatest, AttemptNos
  <1>2. CreateAttempt(e, n, w)
    BY <1>1 DEF CreateAttempt
  <1> QED BY <1>2 DEF TableNext

Good == StoreInv' /\ [TableNext]_tableVars

LEMMA TablesAlone ==
    ASSUME StoreInv, UNCHANGED <<execution, attempts, writer>>
    PROVE  /\ [TableNext]_tableVars /\ TableInv' /\ RowsKept
           /\ \A f \in Executions : NewestKept(f) /\ (Exists(f)' => Exists(f))
  <1>1. UNCHANGED tableVars
    BY DEF tableVars
  <1>2. TableInv
    BY DEF StoreInv
  <1> QED BY <1>1, <1>2, TablesUnchanged DEF Exists

LEMMA BeginAttemptGood ==
    ASSUME StoreInv, NEW w \in Workers, NEW e \in Executions, NEW hint \in AttemptNos,
           BeginAttempt(w, e, hint)
    PROVE  Good
  <1> DEFINE tx == [at |-> "lock", execution_id |-> e, hint |-> hint, attempt_no |-> 0]
  <1>1. tx \in AttemptTx /\ tx.at = "lock" /\ tx.execution_id = e
    BY MaxAttemptsAssumption DEF AttemptTx, AttemptNos
  <1>2. /\ attemptTx' = [attemptTx EXCEPT ![w] = tx]
        /\ UNCHANGED <<execution, attempts, writer, advisory, insertTx>>
        /\ execution[e] # NoExecution
    BY DEF BeginAttempt, Exists
  <1> HIDE DEF tx
  <1> QED BY <1>1, <1>2, TablesAlone, TxTypes, WorkerStepInv DEF Good

LEMMA TakeLockGood ==
    ASSUME StoreInv, NEW w \in Workers, TakeLock(w)
    PROVE  Good
  <1> DEFINE e == attemptTx[w].execution_id
             tx == [attemptTx[w] EXCEPT !.at = "read"]
  <1>1. attemptTx[w] \in AttemptTx /\ e \in Executions /\ execution[e] # NoExecution
    BY TxTypes DEF TakeLock, StoreInv, TxOfRow, Exists
  <1>2. tx \in AttemptTx /\ tx.at = "read" /\ tx.execution_id = e
    BY <1>1 DEF AttemptTx
  <1>3. /\ attemptTx' = [attemptTx EXCEPT ![w] = tx]
        /\ advisory' = [advisory EXCEPT ![e] = w]
        /\ advisory[e] = NoWorker
        /\ UNCHANGED <<execution, attempts, writer, insertTx>>
    BY DEF TakeLock, LockFree
  <1> HIDE DEF tx, e
  <1>4. /\ advisory' \in [Executions -> Workers \cup {NoWorker}]
        /\ advisory'[e] = w
        /\ \A f \in Executions : advisory[f] \in Workers \ {w} => advisory'[f] = advisory[f]
    BY <1>1, <1>3, TxTypes, NoSelectedWorkerAssumption
  <1> QED BY <1>1, <1>2, <1>3, <1>4, TablesAlone, WorkerStepInv DEF Good

LEMMA ReadNumberGood ==
    ASSUME StoreInv, NEW w \in Workers, ReadNumber(w)
    PROVE  Good
  <1>1. PICK e \in Executions : e = attemptTx[w].execution_id
    BY TxTypes DEF ReadNumber
  <1>2. /\ attemptTx[w] \in AttemptTx
        /\ advisory[e] = w /\ execution[e] # NoExecution
        /\ attemptTx[w].hint \in 0 .. MaxAttempts
    BY <1>1, TxTypes DEF ReadNumber, StoreInv, LockHeld, TxOfRow, Exists, AttemptTx
  <1>3. PICK n \in Nat : n = NextNumber(e, attemptTx[w].hint)
    BY <1>2, NextNumberFree DEF StoreInv
  <1>4. Newest(e) < n /\ n \in 0 .. MaxAttempts
    BY <1>1, <1>2, <1>3, NextNumberFree, MaxAttemptsAssumption DEF ReadNumber, StoreInv
  <1> DEFINE tx == [attemptTx[w] EXCEPT !.at = "write", !.attempt_no = n]
  <1>5. /\ attemptTx' = [attemptTx EXCEPT ![w] = tx]
        /\ UNCHANGED <<execution, attempts, writer, advisory, insertTx>>
    BY <1>1, <1>3 DEF ReadNumber
  <1>6. /\ tx \in AttemptTx
        /\ tx.at = "write" /\ tx.execution_id = e /\ tx.attempt_no = n
    BY <1>1, <1>2, <1>4 DEF AttemptTx
  <1> HIDE DEF tx
  <1>7. Newest(e)' < n
    BY <1>4, <1>5, TablesAlone DEF NewestKept
  <1>8. \A f \in Executions : tx.at = "write" /\ tx.execution_id = f => Newest(f)' < tx.attempt_no
    BY <1>6, <1>7
  <1> QED BY <1>2, <1>5, <1>6, <1>8, TablesAlone, TxTypes, WorkerStepInv DEF Good

(* The locks after the end of a transaction of w. *)
LEMMA ReleasedLocks ==
    ASSUME StoreInv, NEW w \in Workers, advisory' = Released(w)
    PROVE  /\ advisory' \in [Executions -> Workers \cup {NoWorker}]
           /\ \A f \in Executions : advisory[f] \in Workers \ {w} => advisory'[f] = advisory[f]
           /\ IdleAttemptTx \in AttemptTx /\ IdleAttemptTx.at = "none"
  <1>1. /\ advisory' \in [Executions -> Workers \cup {NoWorker}]
        /\ \A f \in Executions : advisory[f] \in Workers \ {w} => advisory'[f] = advisory[f]
    BY TxTypes DEF Released
  <1>2. IdleAttemptTx \in AttemptTx /\ IdleAttemptTx.at = "none"
    BY MaxAttemptsAssumption DEF IdleAttemptTx, AttemptTx
  <1> QED BY <1>1, <1>2

LEMMA RollbackAttemptGood ==
    ASSUME StoreInv, NEW w \in Workers, RollbackAttempt(w)
    PROVE  Good
  <1>1. /\ attemptTx' = [attemptTx EXCEPT ![w] = IdleAttemptTx]
        /\ advisory' = Released(w)
        /\ UNCHANGED <<execution, attempts, writer, insertTx>>
    BY DEF RollbackAttempt
  <1> QED BY <1>1, TablesAlone, ReleasedLocks, WorkerStepInv DEF Good

LEMMA CommitAttemptGood ==
    ASSUME StoreInv, NEW w \in Workers, CommitAttempt(w)
    PROVE  Good
  <1> DEFINE e == attemptTx[w].execution_id
             n == attemptTx[w].attempt_no
  <1>1. /\ attemptTx[w].at = "write" /\ attemptTx[w] \in AttemptTx
        /\ e \in Executions /\ advisory[e] = w /\ Exists(e)
    BY TxTypes DEF CommitAttempt, StoreInv, LockHeld, TxOfRow
  <1>2. Newest(e) < n /\ TableInv
    BY <1>1 DEF StoreInv, WriteAboveNewest
  <1>3. n \in AttemptNos
    BY <1>1, <1>2, CountIsNewest, MaxAttemptsAssumption DEF AttemptTx, AttemptNos
  <1>4. /\ WriteAttempt(e, n, w)
        /\ attemptTx' = [attemptTx EXCEPT ![w] = IdleAttemptTx]
        /\ advisory' = Released(w)
        /\ UNCHANGED insertTx
    BY DEF CommitAttempt
  <1> HIDE DEF e, n
  <1>6. /\ TableInv' /\ RowsKept
        /\ \A f \in Executions : f # e => NewestKept(f)
    BY <1>1, <1>2, <1>3, <1>4, WriteAttemptInv
  <1>7. TableNext
    BY <1>1, <1>2, <1>3, <1>4, CommitIsCreate
  <1>8. \A f \in Executions : Exists(f)' => Exists(f)
    BY <1>1, <1>4 DEF WriteAttempt, Exists, StoreInv, TableInv, TableTypeOK
  <1>9. \A f \in Executions : advisory[f] \in Workers \ {w} => NewestKept(f)
    BY <1>1, <1>6
  <1>10. StoreInv'
    BY <1>4, <1>6, <1>8, <1>9, ReleasedLocks, WorkerStepInv
  <1> QED BY <1>7, <1>10 DEF Good

LEMMA FinishGood ==
    ASSUME StoreInv, NEW w \in Workers, NEW e \in Executions, NEW n \in AttemptNos,
           NEW outcome \in Outcomes, Finish(w, e, n, outcome)
    PROVE  Good
  <1>1. /\ FinishAttempt(e, n, outcome)
        /\ UNCHANGED <<attemptTx, advisory, insertTx>>
        /\ TableInv
    BY DEF Finish, StoreInv
  <1>2. TableInv' /\ RowsKept /\ \A f \in Executions : NewestKept(f)
    BY <1>1, FinishAttemptInv
  <1>3. \A f \in Executions : Exists(f)' => Exists(f)
    <2>1. attempts[e][n] # NoAttempt
      BY <1>1 DEF FinishAttempt, NoAttempt
    <2> QED BY <1>1, <2>1 DEF FinishAttempt, Exists, TableInv, TableTypeOK, Attempted
  <1>4. attemptTx' = [attemptTx EXCEPT ![w] = attemptTx[w]] /\ attemptTx[w] \in AttemptTx
    BY <1>1, TxTypes
  <1>5. attemptTx[w].at # "none" => execution[attemptTx[w].execution_id] # NoExecution
    BY DEF StoreInv, TxOfRow, Exists
  <1>6. attemptTx[w].at = "none"
    BY DEF Finish, NoAttemptTx
  <1>7. StoreInv'
    BY <1>1, <1>2, <1>3, <1>4, <1>6, TxTypes, WorkerStepInv
  <1>8. TableNext
    BY <1>1 DEF TableNext
  <1> QED BY <1>7, <1>8 DEF Good

LEMMA AdminKeepsTables ==
    ASSUME StoreInv, NEW a \in Admins, NEW tx \in InsertTx,
           insertTx' = [insertTx EXCEPT ![a] = tx],
           UNCHANGED <<execution, attempts, writer, attemptTx, advisory>>,
           tx.at # "none" => tx.execution_id \in Executions,
           tx.at = "select" => execution[tx.execution_id] # NoExecution,
           tx.at = "inserted" => /\ execution[tx.execution_id] = NoExecution
                                 /\ ~PendingInsert(a, tx.execution_id)
    PROVE  Good
  <1>1. [TableNext]_tableVars /\ TableInv' /\ RowsKept /\ \A f \in Executions : NewestKept(f)
    BY TablesAlone
  <1>2. StoreInv'
    BY <1>1, AdminStepInv
  <1> QED BY <1>1, <1>2 DEF Good

LEMMA InsertStepsGood ==
    ASSUME StoreInv, NEW a \in Admins
    PROVE  /\ \A e \in Executions : BeginInsert(a, e) => Good
           /\ InsertRow(a) => Good
           /\ InsertConflict(a) => Good
           /\ SelectRow(a) => Good
           /\ RollbackInsert(a) => Good
  <1> DEFINE key == insertTx[a].execution_id
  <1>1. /\ insertTx[a] \in InsertTx
        /\ insertTx[a].at # "none" => key \in Executions
    BY TxTypes
  <1>2. IdleInsertTx \in InsertTx /\ IdleInsertTx.at = "none"
    BY DEF IdleInsertTx, InsertTx
  <1>3. ASSUME NEW e \in Executions, BeginInsert(a, e)
        PROVE  Good
    <2> DEFINE tx == [at |-> "insert", execution_id |-> e]
    <2>1. tx \in InsertTx /\ tx.at = "insert" /\ tx.execution_id = e
      BY DEF InsertTx
    <2>2. /\ insertTx' = [insertTx EXCEPT ![a] = tx]
          /\ UNCHANGED <<execution, attempts, writer, attemptTx, advisory>>
      BY <1>3 DEF BeginInsert
    <2> HIDE DEF tx
    <2> QED BY <2>1, <2>2, AdminKeepsTables
  <1>4. ASSUME InsertRow(a)
        PROVE  Good
    <2> DEFINE tx == [insertTx[a] EXCEPT !.at = "inserted"]
    <2>1. tx \in InsertTx /\ tx.at = "inserted" /\ tx.execution_id = key /\ key \in Executions
      BY <1>1, <1>4 DEF InsertTx, InsertRow
    <2>2. /\ insertTx' = [insertTx EXCEPT ![a] = tx]
          /\ UNCHANGED <<execution, attempts, writer, attemptTx, advisory>>
          /\ execution[key] = NoExecution /\ ~PendingInsert(a, key)
      BY <1>4 DEF InsertRow, Exists
    <2> HIDE DEF tx, key
    <2> QED BY <2>1, <2>2, AdminKeepsTables
  <1>5. ASSUME InsertConflict(a)
        PROVE  Good
    <2> DEFINE tx == [insertTx[a] EXCEPT !.at = "select"]
    <2>1. tx \in InsertTx /\ tx.at = "select" /\ tx.execution_id = key /\ key \in Executions
      BY <1>1, <1>5 DEF InsertTx, InsertConflict
    <2>2. /\ insertTx' = [insertTx EXCEPT ![a] = tx]
          /\ UNCHANGED <<execution, attempts, writer, attemptTx, advisory>>
          /\ execution[key] # NoExecution
      BY <1>5 DEF InsertConflict, InsertConflicts, Exists
    <2> HIDE DEF tx, key
    <2> QED BY <2>1, <2>2, AdminKeepsTables
  <1>6. ASSUME SelectRow(a) \/ RollbackInsert(a)
        PROVE  Good
    <2>1. /\ insertTx' = [insertTx EXCEPT ![a] = IdleInsertTx]
          /\ UNCHANGED <<execution, attempts, writer, attemptTx, advisory>>
      BY <1>6 DEF SelectRow, RollbackInsert
    <2> QED BY <1>2, <2>1, AdminKeepsTables
  <1> QED BY <1>3, <1>4, <1>5, <1>6

LEMMA CommitInsertGood ==
    ASSUME StoreInv, NEW a \in Admins, CommitInsert(a)
    PROVE  Good
  <1>1. PICK e \in Executions : e = insertTx[a].execution_id
    BY TxTypes DEF CommitInsert
  <1>2. /\ CreateExecution(e) /\ TableInv
        /\ insertTx[a] = [at |-> "inserted", execution_id |-> e]
        /\ insertTx' = [insertTx EXCEPT ![a] = IdleInsertTx]
        /\ UNCHANGED <<attemptTx, advisory>>
    BY <1>1, TxTypes DEF CommitInsert, StoreInv, InsertTx
  <1>3. TableInv' /\ RowsKept /\ \A f \in Executions : NewestKept(f)
    BY <1>2, CreateExecutionInv
  <1>4. \A f \in Executions : f # e => execution'[f] = execution[f]
    BY <1>2 DEF CreateExecution, TableInv, TableTypeOK
  <1>5. IdleInsertTx \in InsertTx /\ IdleInsertTx.at = "none"
    BY DEF IdleInsertTx, InsertTx
  <1>6. StoreInv'
    BY <1>2, <1>3, <1>4, <1>5, AdminStepInv
  <1>7. TableNext
    BY <1>2 DEF TableNext
  <1> QED BY <1>6, <1>7 DEF Good

LEMMA StoreStepGood ==
    ASSUME StoreInv, [StoreNext]_storeVars
    PROVE  Good
  <1>1. CASE UNCHANGED storeVars
    <2>1. TableInv' /\ RowsKept /\ UNCHANGED <<execution, attempts, writer, attemptTx, advisory, insertTx>>
      BY <1>1, TablesAlone DEF storeVars
    <2>2. StoreInv'
      BY <2>1, TablesAlone
      DEF StoreInv, StoreTypeOK, LockHeld, TxOfRow, WriteAboveNewest, ConflictHasRow, OneInserter,
          PendingInsert, Exists, NewestKept, TableInv, NoAttemptTx, NoInsertTx
    <2> QED BY <2>1, <2>2 DEF Good, tableVars
  <1>2. ASSUME NEW w \in Workers, AttemptStep(w) \/ RollbackAttempt(w)
        PROVE  Good
    BY <1>2, TakeLockGood, ReadNumberGood, CommitAttemptGood, RollbackAttemptGood
    DEF AttemptStep, StopAtBound
  <1>3. ASSUME NEW a \in Admins, InsertStep(a) \/ RollbackInsert(a)
        PROVE  Good
    BY <1>3, InsertStepsGood, CommitInsertGood DEF InsertStep
  <1> QED BY <1>1, <1>2, <1>3, BeginAttemptGood, FinishGood, InsertStepsGood DEF StoreNext

-----------------------------------------------------------------------------
(* The invariant of the transactions holds throughout.                     *)
LEMMA StoreInvariant == StoreSpec => []StoreInv
  <1>1. StoreInv /\ [StoreNext]_storeVars => StoreInv'
    BY StoreStepGood DEF Good
  <1> QED BY StoreInitInv, <1>1, PTL DEF StoreSpec

(* create_attempt and create_or_get_execution keep the tables and their    *)
(* own transactions of their types.                                        *)
THEOREM StoreTypeCorrect == StoreSpec => []StoreTypeOK
  <1>1. StoreInv => StoreTypeOK
    BY DEF StoreInv
  <1> QED BY StoreInvariant, <1>1, PTL

(* create_attempt: the number a worker inserts is free, for any number of  *)
(* workers that start attempts of one execution at the same time.          *)
THEOREM NumbersAreFree == StoreSpec => []NumberStaysFree
  <1>1. StoreInv => NumberStaysFree
    BY TxTypes DEF StoreInv, WriteAboveNewest, NumberStaysFree
  <1> QED BY StoreInvariant, <1>1, PTL

(* create_or_get_execution: one row for a key, and a row for who is told   *)
(* that there is one.                                                      *)
THEOREM KeysAreUnique == StoreSpec => []KeysUnique
  <1>1. StoreInv => KeysUnique
    BY DEF StoreInv, KeysUnique
  <1> QED BY StoreInvariant, <1>1, PTL

(* The row of an execution counts its newest attempt and names its worker, *)
(* and shows the status of the attempt that wrote it last: the newest, or  *)
(* an older one that ended after the newest began.                         *)
THEOREM RowsAgree == StoreSpec => []TablesAgree
  <1>1. StoreInv => TablesAgree
    BY TableInvImplies DEF StoreInv, TablesAgree
  <1> QED BY StoreInvariant, <1>1, PTL

(* Attempts are only appended: none is overwritten or renumbered.          *)
THEOREM AttemptsOnlyAppended == StoreSpec => AttemptsAppended
  <1>1. StoreInv /\ [StoreNext]_storeVars => Appended
    BY StoreStepGood, TableStepInv DEF Good, StoreInv
  <1>2. Appended => [\A e \in Executions : \A n \in AttemptNos :
         IF Attempted(e, n)
         THEN attempts'[e][n].worker_id = attempts[e][n].worker_id
         ELSE attempts'[e][n] # NoAttempt => Newest(e) < n]_tableVars
    BY DEF Appended
  <1> QED BY StoreInvariant, <1>1, <1>2, PTL DEF StoreSpec, AttemptsAppended

(* The transactions implement the one-step calls of ExecutionTable.        *)
THEOREM ImplementsTable == StoreSpec => RefinesTable
  <1>1. StoreInit => TableInit
    BY DEF StoreInit
  <1>2. StoreInv /\ [StoreNext]_storeVars => [TableNext]_tableVars
    BY StoreStepGood DEF Good
  <1> QED BY <1>1, <1>2, StoreInvariant, PTL DEF StoreSpec, RefinesTable, TableSpec
===============================================================================
