------------------------ MODULE ExecutionTable_proofs ------------------------
(* Facts about the tables, for every set of executions and workers and     *)
(* every bound on attempts.  StoreTransactions_proofs and TaskCenter_proofs*)
(* rest on them.                                                           *)
EXTENDS ExecutionTable, TLAPS

-----------------------------------------------------------------------------
(* MAX(attempt_no), characterised without CHOOSE. *)
LEMMA NewestIs ==
    ASSUME NEW e \in Executions, NEW n \in Numbers(e) \cup {0},
           \A m \in Numbers(e) : m <= n
    PROVE  Newest(e) = n
  <1>1. \A m \in Numbers(e) \cup {0} : m \in Nat
    BY DEF Numbers, AttemptNos
  <1>2. /\ Newest(e) \in Numbers(e) \cup {0}
        /\ \A m \in Numbers(e) : m <= Newest(e)
    BY DEF Newest
  <1>3. n <= Newest(e) /\ Newest(e) <= n
    BY <1>1, <1>2
  <1> QED BY <1>1, <1>2, <1>3

(* The inductive invariant of the tables: attempt_count bounds the attempt *)
(* numbers and is one of them, or 0.                                       *)
CountIsAttempt ==
    \A e \in Executions :
        /\ execution[e].attempt_count \in Numbers(e) \cup {0}
        /\ \A m \in Numbers(e) : m <= execution[e].attempt_count

CountTells ==
    \A e \in Executions :
        LET n == execution[e].attempt_count
        IN  /\ n > 0 => execution[e].selected_worker_id = attempts[e][n].worker_id
            /\ n = 0 <=> execution[e].status \in {"absent", "scheduled"}

TableInv ==
    /\ TableTypeOK
    /\ CountIsAttempt
    /\ CountTells
    /\ StatusHasAttempt

LEMMA CountIsNewest ==
    ASSUME TableInv, NEW e \in Executions
    PROVE  /\ Newest(e) = execution[e].attempt_count
           /\ Newest(e) \in Nat
  <1>1. Newest(e) = execution[e].attempt_count
    BY NewestIs DEF TableInv, CountIsAttempt
  <1>2. execution[e].attempt_count \in Numbers(e) \cup {0}
    BY DEF TableInv, CountIsAttempt
  <1> QED BY <1>1, <1>2 DEF Numbers, AttemptNos

LEMMA TableInvImplies == TableInv => TableTypeOK /\ CountsNewestAttempt /\ StatusHasAttempt
  BY CountIsNewest DEF TableInv, CountsNewestAttempt, CountTells

LEMMA TableInitInv == TableInit => TableInv
  <1> SUFFICES ASSUME TableInit PROVE TableInv
    OBVIOUS
  <1> USE MaxAttemptsAssumption DEF TableInit
  <1>1. \A e \in Executions : execution[e] = NoExecution /\ Numbers(e) = {}
    BY DEF Numbers, Attempted
  <1>2. TableTypeOK
    BY DEF TableTypeOK, Attempted
  <1>3. CountIsAttempt /\ CountTells
    BY <1>1 DEF CountIsAttempt, CountTells, NoExecution
  <1>4. StatusHasAttempt
    <2>1. \A e \in Executions : writer[e] = 0 /\ execution[e].attempt_count = 0
      BY <1>1 DEF NoExecution
    <2>2. ~(0 > 0)
      OBVIOUS
    <2> QED BY <2>1, <2>2 DEF StatusHasAttempt
  <1> QED BY <1>2, <1>3, <1>4 DEF TableInv

(* What every step keeps: rows there are, and the newest attempt of every  *)
(* execution that gets none.                                               *)
RowsKept == \A f \in Executions : Exists(f) => Exists(f)'
NewestKept(f) == Newest(f)' = Newest(f)

Appended ==
    \A e \in Executions : \A n \in AttemptNos :
        IF Attempted(e, n)
        THEN attempts'[e][n].worker_id = attempts[e][n].worker_id
        ELSE attempts'[e][n] # NoAttempt => Newest(e) < n

LEMMA CreateExecutionInv ==
    ASSUME TableInv, NEW e \in Executions, CreateExecution(e)
    PROVE  TableInv' /\ RowsKept /\ \A f \in Executions : NewestKept(f)
  <1> DEFINE row == [NoExecution EXCEPT !.status = "scheduled"]
  <1>1. /\ execution' = [execution EXCEPT ![e] = row]
        /\ attempts' = attempts /\ writer' = writer
        /\ execution[e] = NoExecution
        /\ execution \in [Executions -> Execution \cup {NoExecution}]
    BY DEF CreateExecution, Exists, TableInv, TableTypeOK
  <1>2. row = [status |-> "scheduled", attempt_count |-> 0, selected_worker_id |-> NoWorker]
    BY DEF NoExecution
  <1>3. row \in Execution /\ row # NoExecution
    BY <1>2, MaxAttemptsAssumption DEF Execution, NoExecution
  <1>4. \A f \in Executions : Numbers(f)' = Numbers(f)
    BY <1>1 DEF Numbers, Attempted
  <1>5. row.status = "scheduled" /\ row.attempt_count = 0 /\ execution[e].attempt_count = 0
    BY <1>1, <1>2 DEF NoExecution
  <1>6. \A f \in Executions : execution'[f].attempt_count = execution[f].attempt_count
    BY <1>1, <1>5
  <1> HIDE DEF row
  <1>7. TableTypeOK'
    BY <1>1, <1>3 DEF TableInv, TableTypeOK, Attempted, Exists
  <1>8. CountIsAttempt'
    BY <1>4, <1>6 DEF TableInv, CountIsAttempt
  <1>9. CountTells'
    BY <1>1, <1>5 DEF TableInv, CountTells
  <1>10. StatusHasAttempt'
    <2>1. writer[e] = 0
      <3>1. writer[e] \in Nat
        BY MaxAttemptsAssumption DEF TableInv, TableTypeOK
      <3> QED BY <1>5, <3>1 DEF TableInv, StatusHasAttempt
    <2> QED BY <1>1, <1>5, <2>1 DEF TableInv, StatusHasAttempt
  <1>11. RowsKept
    BY <1>1, <1>3 DEF RowsKept, Exists
  <1>12. \A f \in Executions : NewestKept(f)
    BY <1>4 DEF NewestKept, Newest
  <1> QED BY <1>7, <1>8, <1>9, <1>10, <1>11, <1>12 DEF TableInv

(* The rows of a new attempt with a number above all others. *)
LEMMA WriteAttemptInv ==
    ASSUME TableInv, NEW e \in Executions, NEW n \in AttemptNos, NEW w \in Workers,
           Exists(e), Newest(e) < n, WriteAttempt(e, n, w)
    PROVE  /\ TableInv' /\ RowsKept /\ Appended
           /\ \A f \in Executions : f # e => NewestKept(f)
  <1> DEFINE count == execution[e].attempt_count
             row == [status |-> "running", attempt_count |-> n, selected_worker_id |-> w]
             att == [worker_id |-> w, status |-> "running"]
  <1>1. count = Newest(e) /\ count \in Nat /\ n \in Nat /\ count < n
    BY CountIsNewest DEF AttemptNos
  <1>2. Greatest(count, n) = n
    BY <1>1 DEF Greatest
  <1>3. /\ execution' = [execution EXCEPT ![e] = row]
        /\ attempts' = [attempts EXCEPT ![e][n] = att]
        /\ writer' = [writer EXCEPT ![e] = n]
    BY <1>2 DEF WriteAttempt
  <1>4. /\ execution \in [Executions -> Execution \cup {NoExecution}]
        /\ writer \in [Executions -> 0 .. MaxAttempts]
        /\ attempts \in [Executions -> [AttemptNos -> Attempt \cup {NoAttempt}]]
    BY DEF TableInv, TableTypeOK
  <1>5. row \in Execution /\ row # NoExecution
    BY MaxAttemptsAssumption DEF Execution, NoExecution, AttemptNos
  <1>6. att \in Attempt /\ att # NoAttempt
    BY DEF Attempt, NoAttempt
  <1>7. row.status = "running" /\ row.attempt_count = n /\ row.selected_worker_id = w
    OBVIOUS
  <1>8. att.status = "running" /\ att.worker_id = w
    OBVIOUS
  <1> HIDE DEF row, att
  <1>9. /\ execution'[e] = row
        /\ attempts'[e][n] = att
        /\ writer'[e] = n
        /\ \A m \in AttemptNos : m # n => attempts'[e][m] = attempts[e][m]
        /\ \A f \in Executions : f # e => /\ execution'[f] = execution[f]
                                          /\ attempts'[f] = attempts[f]
                                          /\ writer'[f] = writer[f]
    BY <1>3, <1>4
  <1>10. /\ Numbers(e)' = Numbers(e) \cup {n}
         /\ \A f \in Executions : f # e => Numbers(f)' = Numbers(f)
    BY <1>6, <1>9 DEF Numbers, Attempted
  <1>11. TableTypeOK'
    <2>1. execution' \in [Executions -> Execution \cup {NoExecution}]
      BY <1>3, <1>4, <1>5
    <2>2. attempts' \in [Executions -> [AttemptNos -> Attempt \cup {NoAttempt}]]
      BY <1>3, <1>4, <1>6
    <2>3. \A f \in Executions : \A m \in AttemptNos :
             attempts'[f][m] # NoAttempt => execution'[f] # NoExecution
      BY <1>5, <1>9 DEF TableInv, TableTypeOK, Attempted, Exists
    <2>4. writer' \in [Executions -> 0 .. MaxAttempts]
      BY <1>3, <1>4, MaxAttemptsAssumption DEF AttemptNos
    <2> QED BY <2>1, <2>2, <2>3, <2>4 DEF TableTypeOK, Attempted, Exists
  <1>12. CountIsAttempt'
    <2>1. \A m \in Numbers(e) : m <= n
      BY <1>1 DEF TableInv, CountIsAttempt, Numbers, AttemptNos
    <2> QED BY <1>1, <1>7, <1>9, <1>10, <2>1 DEF TableInv, CountIsAttempt
  <1>13. CountTells'
    <2>1. n > 0
      BY DEF AttemptNos
    <2> QED BY <1>7, <1>8, <1>9, <2>1 DEF TableInv, CountTells
  <1>14. StatusHasAttempt'
    BY <1>7, <1>8, <1>9 DEF TableInv, StatusHasAttempt
  <1>15. RowsKept
    BY <1>5, <1>9 DEF RowsKept, Exists
  <1>16. Appended
    <2>1. ~Attempted(e, n)
      BY <1>1 DEF TableInv, CountIsAttempt, Numbers
    <2> QED BY <1>9, <2>1 DEF Appended, Attempted
  <1>17. \A f \in Executions : f # e => NewestKept(f)
    BY <1>10 DEF NewestKept, Newest
  <1> QED BY <1>11, <1>12, <1>13, <1>14, <1>15, <1>16, <1>17 DEF TableInv

LEMMA FinishAttemptInv ==
    ASSUME TableInv, NEW e \in Executions, NEW n \in AttemptNos, NEW outcome \in Outcomes,
           FinishAttempt(e, n, outcome)
    PROVE  TableInv' /\ RowsKept /\ Appended /\ \A f \in Executions : NewestKept(f)
  <1> DEFINE row == [execution[e] EXCEPT !.status = outcome]
             att == [attempts[e][n] EXCEPT !.status = outcome]
  <1>1. /\ execution' = [execution EXCEPT ![e] = row]
        /\ attempts' = [attempts EXCEPT ![e][n] = att]
        /\ attempts[e][n].status = "running"
        /\ writer' = [writer EXCEPT ![e] = n]
    BY DEF FinishAttempt
  <1>2. /\ execution \in [Executions -> Execution \cup {NoExecution}]
        /\ writer \in [Executions -> 0 .. MaxAttempts]
        /\ attempts \in [Executions -> [AttemptNos -> Attempt \cup {NoAttempt}]]
    BY DEF TableInv, TableTypeOK
  <1>3. attempts[e][n] \in Attempt /\ attempts[e][n] # NoAttempt
    BY <1>1, <1>2 DEF NoAttempt
  <1>4. execution[e] \in Execution
    BY <1>2, <1>3 DEF TableInv, TableTypeOK, Attempted, Exists
  <1>5. row \in Execution /\ row # NoExecution
    BY <1>4 DEF Execution, NoExecution, Outcomes
  <1>6. att \in Attempt /\ att # NoAttempt
    BY <1>3 DEF Attempt, NoAttempt, Outcomes
  <1>7. /\ row.status = outcome
        /\ row.attempt_count = execution[e].attempt_count
        /\ row.selected_worker_id = execution[e].selected_worker_id
    BY <1>4 DEF Execution
  <1>8. att.status = outcome /\ att.worker_id = attempts[e][n].worker_id
    BY <1>3 DEF Attempt
  <1> HIDE DEF row, att
  <1>9. /\ execution'[e] = row
        /\ attempts'[e][n] = att
        /\ writer'[e] = n
        /\ \A m \in AttemptNos : m # n => attempts'[e][m] = attempts[e][m]
        /\ \A f \in Executions : f # e => /\ execution'[f] = execution[f]
                                          /\ attempts'[f] = attempts[f]
                                          /\ writer'[f] = writer[f]
    BY <1>1, <1>2
  <1>10. \A f \in Executions : Numbers(f)' = Numbers(f)
    BY <1>3, <1>6, <1>9 DEF Numbers, Attempted
  <1>11. TableTypeOK'
    <2>1. execution' \in [Executions -> Execution \cup {NoExecution}]
      BY <1>1, <1>2, <1>5
    <2>2. attempts' \in [Executions -> [AttemptNos -> Attempt \cup {NoAttempt}]]
      BY <1>1, <1>2, <1>6
    <2>3. \A f \in Executions : \A m \in AttemptNos :
             attempts'[f][m] # NoAttempt => execution'[f] # NoExecution
      BY <1>5, <1>9 DEF TableInv, TableTypeOK, Attempted, Exists
    <2>4. writer' \in [Executions -> 0 .. MaxAttempts]
      BY <1>1, <1>2, MaxAttemptsAssumption DEF AttemptNos
    <2> QED BY <2>1, <2>2, <2>3, <2>4 DEF TableTypeOK, Attempted, Exists
  <1>12. CountIsAttempt'
    <2>1. \A f \in Executions : execution'[f].attempt_count = execution[f].attempt_count
      BY <1>7, <1>9
    <2> QED BY <1>10, <2>1 DEF TableInv, CountIsAttempt
  <1>13. n \in Numbers(e) /\ execution[e].attempt_count # 0
    BY <1>3 DEF Numbers, Attempted, AttemptNos, TableInv, CountIsAttempt
  <1>14. CountTells'
    <2>1. \A m \in AttemptNos : attempts'[e][m].worker_id = attempts[e][m].worker_id
      BY <1>8, <1>9
    <2>2. execution[e].attempt_count \in AttemptNos
      BY <1>13 DEF TableInv, CountIsAttempt, Numbers
    <2>3. row.status \notin {"absent", "scheduled"}
      BY <1>7 DEF Outcomes
    <2> QED BY <1>7, <1>9, <1>13, <2>1, <2>2, <2>3 DEF TableInv, CountTells
  <1>15. StatusHasAttempt'
    <2>1. attempts'[e][n].status = row.status /\ row.status \in Outcomes
      BY <1>7, <1>8, <1>9
    <2>2. /\ 0 < n /\ n \in Nat /\ row.attempt_count \in Nat
          /\ n <= row.attempt_count
      BY <1>7, <1>13 DEF TableInv, CountIsAttempt, Numbers, AttemptNos
    <2> QED BY <1>9, <2>1, <2>2 DEF TableInv, StatusHasAttempt
  <1>16. RowsKept
    BY <1>5, <1>9 DEF RowsKept, Exists
  <1>17. Appended
    BY <1>3, <1>8, <1>9 DEF Appended, Attempted
  <1>18. \A f \in Executions : NewestKept(f)
    BY <1>10 DEF NewestKept, Newest
  <1> QED BY <1>11, <1>12, <1>14, <1>15, <1>16, <1>17, <1>18 DEF TableInv

(* A step that leaves the tables alone keeps everything said of them. *)
LEMMA TablesUnchanged ==
    ASSUME TableInv, UNCHANGED tableVars
    PROVE  TableInv' /\ RowsKept /\ Appended /\ \A f \in Executions : NewestKept(f)
  <1>1. execution' = execution /\ attempts' = attempts /\ writer' = writer
    BY DEF tableVars
  <1>2. \A f \in Executions : Numbers(f)' = Numbers(f)
    BY <1>1 DEF Numbers, Attempted
  <1>3. TableTypeOK' /\ CountTells' /\ StatusHasAttempt'
    BY <1>1 DEF TableInv, TableTypeOK, Attempted, Exists, CountTells, StatusHasAttempt
  <1>4. CountIsAttempt'
    BY <1>1, <1>2 DEF TableInv, CountIsAttempt
  <1>5. RowsKept
    BY <1>1 DEF RowsKept, Exists
  <1>6. Appended
    BY <1>1 DEF Appended, Attempted
  <1>7. \A f \in Executions : NewestKept(f)
    BY <1>2 DEF NewestKept, Newest
  <1> QED BY <1>3, <1>4, <1>5, <1>6, <1>7 DEF TableInv

-----------------------------------------------------------------------------
LEMMA NextNumberFree ==
    ASSUME TableInv, NEW e \in Executions, NEW hint \in Nat
    PROVE  /\ NextNumber(e, hint) \in Nat \ {0}
           /\ Newest(e) < NextNumber(e, hint)
  BY CountIsNewest, MaxAttemptsAssumption DEF NextNumber, Greatest

(* create_attempt adds a row with a number above all others. *)
LEMMA CreateAttemptInv ==
    ASSUME TableInv, NEW e \in Executions, NEW hint \in Nat, NEW w \in Workers,
           CreateAttempt(e, hint, w)
    PROVE  LET n == NextNumber(e, hint)
           IN  /\ n \in AttemptNos /\ ~Attempted(e, n)
               /\ WriteAttempt(e, n, w)
               /\ TableInv' /\ RowsKept /\ Appended
  <1> DEFINE n == NextNumber(e, hint)
  <1>1. n \in AttemptNos /\ Newest(e) < n
    BY NextNumberFree, MaxAttemptsAssumption DEF CreateAttempt, AttemptNos
  <1>2. Exists(e) /\ WriteAttempt(e, n, w)
    BY DEF CreateAttempt
  <1>3. TableInv' /\ RowsKept /\ Appended
    <2> HIDE DEF n
    <2> QED BY <1>1, <1>2, WriteAttemptInv
  <1>4. ~Attempted(e, n)
    <2> HIDE DEF n
    <2>1. \A m \in Numbers(e) : m <= Newest(e) /\ m \in Nat /\ Newest(e) \in Nat
      BY CountIsNewest DEF TableInv, CountIsAttempt, Numbers, AttemptNos
    <2> QED BY <1>1, <2>1 DEF Numbers, AttemptNos
  <1> QED BY <1>1, <1>2, <1>3, <1>4

(* Every step of the tables keeps their invariant and appends.             *)
LEMMA TableStepInv ==
    ASSUME TableInv, [TableNext]_tableVars
    PROVE  TableInv' /\ RowsKept /\ Appended
  <1>1. CASE UNCHANGED tableVars
    BY <1>1, TablesUnchanged
  <1>2. ASSUME NEW e \in Executions, CreateExecution(e)
        PROVE  TableInv' /\ RowsKept /\ Appended
    <2>1. TableInv' /\ RowsKept
      BY <1>2, CreateExecutionInv
    <2>2. Appended
      BY <1>2 DEF CreateExecution, Appended, Attempted
    <2> QED BY <2>1, <2>2
  <1>3. ASSUME NEW e \in Executions, NEW hint \in AttemptNos, NEW w \in Workers,
               CreateAttempt(e, hint, w)
        PROVE  TableInv' /\ RowsKept /\ Appended
    BY <1>3, CreateAttemptInv DEF AttemptNos
  <1>4. ASSUME NEW e \in Executions, NEW n \in AttemptNos, NEW outcome \in Outcomes,
               FinishAttempt(e, n, outcome)
        PROVE  TableInv' /\ RowsKept /\ Appended
    BY <1>4, FinishAttemptInv
  <1> QED BY <1>1, <1>2, <1>3, <1>4 DEF TableNext
===============================================================================
