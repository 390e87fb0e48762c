--------------------------- MODULE TaskCenter_proofs ---------------------------
(* Proofs about TaskCenter: for every set of workers and executions, all   *)
(* entitlements and settings, and any number of enqueues and failures.     *)
EXTENDS TaskCenter, ExecutionTable_proofs, FiniteSetTheorems

Executing == Runtime!Executing
Free(p) == p \in Runtime!Process /\ p.at \notin Executing /\ p.execution_id = NoTask

(* What the variables range over.  A process has an execution in hand from *)
(* the claim to the end of finish_attempt, with a number of the table from *)
(* create_attempt on.                                                      *)
PoolTyped ==
    /\ waiting \subseteq Pool!Items
    /\ holder \in [Executions -> Workers \cup {NoWorker}]
    /\ numbered \in [Executions -> 0 .. MaxEnqueues]
    /\ counter \in [Executions -> Nat]
    /\ expiries \in [Executions -> Nat]

ProcessesTyped ==
    /\ worker \in [Workers -> Runtime!Process]
    /\ \A w \in Workers :
         IF worker[w].at \in Executing
         THEN worker[w].execution_id \in Executions
         ELSE worker[w].execution_id = NoTask
    /\ \A w \in Workers :
         /\ worker[w].at \in {"run", "finish"} => worker[w].attempt_no \in AttemptNos
         /\ worker[w].at = "finish" => worker[w].outcome \in Outcomes

Typed ==
    /\ TableInv
    /\ PoolTyped
    /\ ProcessesTyped
    /\ failures \in 0 .. MaxFailures
    /\ interrupted \subseteq Executions \X (0 .. MaxAttempts)

LEMMA TypedImplies == Typed => TypeOK
  <1> SUFFICES ASSUME Typed PROVE TypeOK
    OBVIOUS
  <1>1. TableTypeOK
    BY TableInvImplies DEF Typed
  <1>2. \A w \in Workers : InHand(w) # {} <=> worker[w].at \in Executing
    BY NoTaskAssumption DEF Typed, ProcessesTyped, InHand
  <1> QED BY <1>1, <1>2 DEF Typed, PoolTyped, ProcessesTyped, TypeOK, Executing

-----------------------------------------------------------------------------
(* Steps by what they do to a process p that takes the place of worker w's.*)
Becomes(w, p) == worker' = [worker EXCEPT ![w] = p]

(* Nothing in hand, before and after. *)
Idles(w, p) ==
    /\ worker[w].at \notin Executing
    /\ Free(p) /\ Becomes(w, p)
    /\ UNCHANGED <<tableVars, poolVars, interrupted>>

(* On to the next call with the same work in hand *)
Advances(w, p) ==
    /\ \/ worker[w].at = "load" /\ p.at = "begin"
       \/ worker[w].at = "run" /\ p.at = "finish" /\ p.outcome \in Outcomes
    /\ p \in Runtime!Process
    /\ p.execution_id = worker[w].execution_id
    /\ p.attempt_no = worker[w].attempt_no
    /\ Becomes(w, p)
    /\ UNCHANGED <<tableVars, poolVars, interrupted>>

(* The work in hand is dropped. *)
GivesUp(w, p) ==
    /\ worker[w].at \in Executing
    /\ Free(p) /\ Becomes(w, p)
    /\ interrupted' = interrupted \cup Work(w)
    /\ UNCHANGED <<tableVars, poolVars>>

(* finish_attempt took effect, answered or not. *)
Finishes(w, p) ==
    /\ EndAttempt(w)
    /\ Free(p) /\ Becomes(w, p)
    /\ interrupted' = interrupted \/ interrupted' = interrupted \cup Work(w)
    /\ UNCHANGED poolVars

(* create_attempt took effect, answered or not. *)
Number(w) == NextNumber(worker[w].execution_id, worker[w].attempt_no)

Begins(w, p) ==
    /\ At(w, "begin")
    /\ AddAttempt(w)
    /\ Becomes(w, p)
    /\ \/ /\ p = [worker[w] EXCEPT !.at = "run", !.attempt_no = Number(w)]
          /\ interrupted' = interrupted
       \/ /\ Free(p)
          /\ interrupted' = interrupted \cup {<<worker[w].execution_id, Number(w)>>}
    /\ UNCHANGED poolVars

(* The claim script gave an item, answered or not. *)
Claims(w, p, it) ==
    /\ At(w, "claim")
    /\ TakeItem(w, it)
    /\ Becomes(w, p)
    /\ \/ /\ p \in Runtime!Process /\ p.at = "load" /\ p.execution_id = it.execution_id
          /\ interrupted' = interrupted
       \/ /\ Free(p)
          /\ interrupted' = interrupted \cup {<<it.execution_id, 0>>}
    /\ UNCHANGED tableVars

(* The steps that leave the processes alone *)
Outside ==
    /\ \E e \in Executions :
         \/ Schedule(e) \/ Enqueue(e) \/ ExpireLease(e) \/ ExpireCounter(e)
         \/ \E w \in Workers, it \in waiting : Discard(w, it) /\ it.execution_id = e

WorkerShape(w, p) ==
    \/ Idles(w, p) \/ Advances(w, p) \/ GivesUp(w, p) \/ Finishes(w, p) \/ Begins(w, p)
    \/ \E it \in waiting : Claims(w, p, it)

Shape ==
    \/ Outside /\ UNCHANGED processVars
    \/ \E w \in Workers, p \in Runtime!Process : WorkerShape(w, p)

USE DEF Executing

LEMMA EmptyHandedFree ==
    ASSUME NEW place \in Runtime!Places \ Runtime!Executing
    PROVE  Free(Runtime!EmptyHanded(place)) /\ Runtime!EmptyHanded(place) \in Runtime!Process
  BY DEF Free, Runtime!EmptyHanded, Runtime!Process, Runtime!Places, Runtime!Executing

(* A process that moves to another place keeps the rest. *)
LEMMA GoesTo ==
    ASSUME ProcessesTyped, NEW w \in Workers, NEW place \in Runtime!Places, Runtime!Go(w, place),
           NEW p, p = [worker[w] EXCEPT !.at = place]
    PROVE  /\ Becomes(w, p) /\ p \in Runtime!Process
           /\ p.at = place
           /\ p.execution_id = worker[w].execution_id
           /\ p.attempt_no = worker[w].attempt_no
  BY DEF ProcessesTyped, Runtime!Go, Becomes, Runtime!Process

LEMMA GoesFree ==
    ASSUME NEW w \in Workers, NEW place \in Runtime!Places \ Runtime!Executing,
           Runtime!GoEmptyHanded(w, place)
    PROVE  \E p \in Runtime!Process : Free(p) /\ Becomes(w, p)
  BY EmptyHandedFree DEF Runtime!GoEmptyHanded, Becomes

LEMMA LoopShapes ==
    ASSUME Typed, NEW w \in Workers,
           LoopStep(w) \/ ClaimNothing(w) \/ StartAgain(w) \/ RedisFails(w)
    PROVE  \E p \in Runtime!Process : Idles(w, p)
  <1> USE DEF Runtime!Places, Runtime!Executing
  <1>1. worker[w].at \notin Executing
    BY DEF LoopStep, ClaimNothing, StartAgain, RedisFails, Runtime!Connected, Runtime!BeginTick,
           Runtime!Beat, Runtime!Reconnect, Runtime!EndBackoff, Runtime!Restart,
           Runtime!StartAgain, Runtime!ClaimedNothing, Runtime!RedisError, Runtime!At
  <1>2. UNCHANGED <<tableVars, poolVars, interrupted>>
    BY DEF LoopStep, ClaimNothing, StartAgain, RedisFails, GoesOn, Interrupts
  <1>3. CASE \E place \in {"waiting", "beat", "claim", "backoff", "starting"} : Runtime!Go(w, place)
    <2>1. PICK place \in {"waiting", "beat", "claim", "backoff", "starting"} : Runtime!Go(w, place)
      BY <1>3
    <2> PICK p : p = [worker[w] EXCEPT !.at = place]
      OBVIOUS
    <2>2. /\ Becomes(w, p) /\ p \in Runtime!Process
          /\ p.at = place /\ p.execution_id = worker[w].execution_id
      <3>1. place \in Runtime!Places /\ ProcessesTyped
        BY DEF Typed
      <3> QED BY <2>1, <3>1, GoesTo
    <2>3. p.execution_id = NoTask
      BY <1>1, <2>2 DEF Typed, ProcessesTyped
    <2> QED BY <1>1, <1>2, <2>1, <2>2, <2>3 DEF Idles, Free
  <1>4. CASE \E place \in {"reconnect", "backoff", "down"} : Runtime!GoEmptyHanded(w, place)
    BY <1>1, <1>2, <1>4, GoesFree DEF Idles
  <1> QED BY <1>3, <1>4 DEF LoopStep, ClaimNothing, StartAgain, RedisFails, Runtime!Connected,
           Runtime!BeginTick, Runtime!Beat, Runtime!Reconnect, Runtime!EndBackoff,
           Runtime!Restart, Runtime!StartAgain, Runtime!ClaimedNothing, Runtime!RedisError

LEMMA AdvanceShapes ==
    ASSUME Typed, NEW w \in Workers,
           Load(w) \/ \E outcome \in Outcomes, fatal \in BOOLEAN : Run(w, outcome, fatal)
    PROVE  \E p \in Runtime!Process : Advances(w, p)
  <1>1. CASE Load(w)
    <2> PICK p : p = [worker[w] EXCEPT !.at = "begin"]
      OBVIOUS
    <2>1. Becomes(w, p) /\ p \in Runtime!Process /\ p.at = "begin"
          /\ p.execution_id = worker[w].execution_id /\ p.attempt_no = worker[w].attempt_no
      BY <1>1, GoesTo DEF Typed, Load, Runtime!Loaded, Runtime!Places
    <2> QED BY <1>1, <2>1 DEF Advances, Load, GoesOn, Runtime!Loaded, Runtime!At
  <1>2. ASSUME NEW outcome \in Outcomes, NEW fatal \in BOOLEAN, Run(w, outcome, fatal)
        PROVE  \E p \in Runtime!Process : Advances(w, p)
    <2> DEFINE p == [worker[w] EXCEPT !.at = "finish", !.outcome = outcome, !.fatal = fatal]
    <2>1. worker[w].at = "run" /\ Becomes(w, p) /\ UNCHANGED <<tableVars, poolVars, interrupted>>
      BY <1>2 DEF Run, Runtime!Ran, Runtime!At, Becomes, GoesOn
    <2>2. worker[w] \in Runtime!Process
      BY DEF Typed, ProcessesTyped
    <2>3. /\ p \in Runtime!Process /\ p.at = "finish" /\ p.outcome = outcome
          /\ p.execution_id = worker[w].execution_id /\ p.attempt_no = worker[w].attempt_no
      BY <2>2 DEF Runtime!Process, Runtime!Places
    <2> QED BY <2>1, <2>3 DEF Advances
  <1> QED BY <1>1, <1>2

(* A failure in the middle of a tick, and one at its edge *)
LEMMA FailureShapes ==
    ASSUME Typed, NEW w \in Workers, Refuse(w) \/ StoreFails(w) \/ Halt(w)
    PROVE  \E p \in Runtime!Process : Idles(w, p) \/ GivesUp(w, p)
  <1>1. PICK p \in Runtime!Process : Free(p) /\ Becomes(w, p)
    BY GoesFree DEF Refuse, StoreFails, Halt, Runtime!Refused, Runtime!StoreError, Runtime!Die,
           Runtime!Shutdown, Runtime!Places, Runtime!Executing
  <1>2. /\ interrupted' = interrupted \cup Work(w)
        /\ UNCHANGED <<tableVars, poolVars>>
    BY DEF Refuse, StoreFails, Halt, Interrupts
  <1>3. CASE worker[w].at \in Executing
    BY <1>1, <1>2, <1>3 DEF GivesUp
  <1>4. CASE worker[w].at \notin Executing
    <2>1. Work(w) = {}
      BY <1>4 DEF Typed, ProcessesTyped, Work, InHand
    <2> QED BY <1>1, <1>2, <1>4, <2>1 DEF Idles
  <1> QED BY <1>3, <1>4

LEMMA FinishShapes ==
    ASSUME Typed, NEW w \in Workers, FinishRun(w) \/ FinishReplyLost(w)
    PROVE  \E p \in Runtime!Process : Finishes(w, p)
  <1>1. PICK p \in Runtime!Process : Free(p) /\ Becomes(w, p)
    BY GoesFree DEF FinishRun, FinishReplyLost, Runtime!Finished, Runtime!StoreError,
           Runtime!Places, Runtime!Executing
  <1> QED BY <1>1 DEF Finishes, FinishRun, FinishReplyLost, GoesOn, Interrupts

LEMMA BeginShapes ==
    ASSUME Typed, NEW w \in Workers, BeginAttempt(w) \/ BeginReplyLost(w)
    PROVE  \E p \in Runtime!Process : Begins(w, p)
  <1>1. CASE BeginAttempt(w)
    <2> DEFINE p == [worker[w] EXCEPT !.at = "run", !.attempt_no = Number(w)]
    <2>1. /\ Becomes(w, p) /\ At(w, "begin") /\ AddAttempt(w)
          /\ interrupted' = interrupted /\ UNCHANGED poolVars
      BY <1>1 DEF BeginAttempt, Runtime!Began, Runtime!At, At, Becomes, GoesOn, Number
    <2>2. worker[w] \in Runtime!Process /\ worker[w].execution_id \in Executions
          /\ worker[w].attempt_no \in Nat
      BY <2>1 DEF Typed, ProcessesTyped, At, Runtime!At, Runtime!Process, Runtime!Executing
    <2>3. Number(w) \in Nat
      BY <2>2, NextNumberFree DEF Typed, Number
    <2>4. p \in Runtime!Process
      BY <2>2, <2>3 DEF Runtime!Process, Runtime!Places
    <2> QED BY <2>1, <2>4 DEF Begins
  <1>2. CASE BeginReplyLost(w)
    <2>1. PICK p \in Runtime!Process : Free(p) /\ Becomes(w, p)
      BY <1>2, GoesFree DEF BeginReplyLost, Runtime!StoreError, Runtime!Places, Runtime!Executing
    <2> QED BY <1>2, <2>1 DEF Begins, BeginReplyLost, Interrupts, Number
  <1> QED BY <1>1, <1>2

LEMMA ClaimShapes ==
    ASSUME Typed, NEW w \in Workers, NEW it \in waiting, Claim(w, it) \/ ClaimReplyLost(w, it)
    PROVE  \E p \in Runtime!Process : Claims(w, p, it)
  <1>1. CASE Claim(w, it)
    <2> DEFINE e == it.execution_id
               p == [worker[w] EXCEPT !.at = "load", !.execution_id = e,
                                      !.attempt_no = counter[e] + 1]
    <2>1. /\ Becomes(w, p) /\ At(w, "claim") /\ TakeItem(w, it)
          /\ interrupted' = interrupted /\ UNCHANGED tableVars
      BY <1>1 DEF Claim, Runtime!Claimed, Runtime!At, At, Becomes, GoesOn
    <2>2. e \in Executions /\ counter[e] + 1 \in Nat /\ worker[w] \in Runtime!Process
      BY DEF Typed, PoolTyped, ProcessesTyped, Pool!Items
    <2> HIDE DEF e
    <2>3. p \in Runtime!Process /\ p.at = "load" /\ p.execution_id = e
      BY <2>2 DEF Runtime!Process, Runtime!Places
    <2> QED BY <2>1, <2>3 DEF Claims, e
  <1>2. CASE ClaimReplyLost(w, it)
    <2>1. PICK p \in Runtime!Process : Free(p) /\ Becomes(w, p)
      BY <1>2, GoesFree DEF ClaimReplyLost, Runtime!RedisError, Runtime!Places, Runtime!Executing
    <2> QED BY <1>2, <2>1 DEF Claims, ClaimReplyLost, Interrupts
  <1> QED BY <1>1, <1>2

LEMMA NextShape ==
    ASSUME Typed, Next
    PROVE  Shape /\ failures' \in 0 .. MaxFailures
  <1>1. Shape
    <2>1. CASE \E e \in Executions : Schedule(e) \/ Enqueue(e) \/ ExpireLease(e) \/ ExpireCounter(e)
      BY <2>1 DEF Shape, Outside, Schedule, Enqueue, ExpireLease, ExpireCounter, processVars
    <2>2. ASSUME NEW w \in Workers, NEW it \in waiting, Discard(w, it) PROVE Shape
      <3>1. it.execution_id \in Executions
        BY DEF Typed, PoolTyped, Pool!Items
      <3> QED BY <2>2, <3>1 DEF Shape, Outside, Discard, processVars
    <2>3. ASSUME NEW w \in Workers,
                 TickStep(w) \/ StartAgain(w) \/ FailureStep(w),
                 \A it \in waiting : ~Discard(w, it)
          PROVE  \E p \in Runtime!Process : WorkerShape(w, p)
      BY <2>3, LoopShapes, AdvanceShapes, FailureShapes, FinishShapes, BeginShapes, ClaimShapes
         DEF TickStep, FailureStep, WorkerShape
    <2> QED BY <2>1, <2>2, <2>3 DEF Next, Shape
  <1>2. failures' = failures \/ (failures < MaxFailures /\ failures' = failures + 1)
    BY DEF Next, TickStep, FailureStep, Schedule, Enqueue, ExpireLease, ExpireCounter, LoopStep,
           StartAgain, ClaimNothing, Claim, Discard, Load, Refuse, BeginAttempt, FinishRun, Run,
           RedisFails, StoreFails, Halt, BeginReplyLost, FinishReplyLost, ClaimReplyLost,
           GoesOn, Interrupts, processVars
  <1> QED BY <1>1, <1>2, BoundsAssumption DEF Typed

-----------------------------------------------------------------------------
(* What the shapes do to the processes and to the tables *)
LEMMA OneMoves ==
    ASSUME Typed, NEW w \in Workers, NEW p \in Runtime!Process, Becomes(w, p)
    PROVE  /\ worker' \in [Workers -> Runtime!Process]
           /\ worker'[w] = p
           /\ \A v \in Workers : v # w => worker'[v] = worker[v]
  BY DEF Typed, ProcessesTyped, Becomes

LEMMA BeginRows ==
    ASSUME Typed, NEW w \in Workers, At(w, "begin"), AddAttempt(w)
    PROVE  LET e == worker[w].execution_id
               n == Number(w)
           IN  /\ e \in Executions /\ n \in AttemptNos
               /\ attempts[e][n] = NoAttempt
               /\ attempts' = [attempts EXCEPT ![e][n] = [worker_id |-> w, status |-> "running"]]
               /\ attempts \in [Executions -> [AttemptNos -> Attempt \cup {NoAttempt}]]
               /\ n \notin Numbers(e)
               /\ \A f \in Executions :
                    Numbers(f)' = IF f = e THEN Numbers(f) \cup {n} ELSE Numbers(f)
               /\ TableInv'
  <1> DEFINE e == worker[w].execution_id
             hint == worker[w].attempt_no
             n == NextNumber(e, hint)
             row == [worker_id |-> w, status |-> "running"]
  <1>1. e \in Executions /\ hint \in Nat
    BY DEF Typed, ProcessesTyped, At, Runtime!At, Runtime!Process, Runtime!Executing
  <1>2. CreateAttempt(e, hint, w)
    BY DEF AddAttempt
  <1>3. n \in AttemptNos /\ ~Attempted(e, n) /\ WriteAttempt(e, n, w) /\ TableInv'
    <2> HIDE DEF e, hint
    <2> QED BY <1>1, <1>2, CreateAttemptInv DEF Typed
  <1>4. attempts \in [Executions -> [AttemptNos -> Attempt \cup {NoAttempt}]]
    BY DEF Typed, TableInv, TableTypeOK
  <1>5. attempts' = [attempts EXCEPT ![e][n] = row]
    BY <1>3 DEF WriteAttempt
  <1>6. row # NoAttempt
    BY DEF NoAttempt
  <1> HIDE DEF e, n, row
  <1>7. /\ n \notin Numbers(e)
        /\ \A f \in Executions :
             Numbers(f)' = IF f = e THEN Numbers(f) \cup {n} ELSE Numbers(f)
    BY <1>1, <1>3, <1>4, <1>5, <1>6 DEF Numbers, Attempted
  <1> QED BY <1>1, <1>3, <1>4, <1>5, <1>7 DEF Number, e, n, row, hint, Attempted

LEMMA FinishRows ==
    ASSUME Typed, NEW w \in Workers, EndAttempt(w)
    PROVE  LET e == worker[w].execution_id
               n == worker[w].attempt_no
           IN  /\ e \in Executions /\ n \in AttemptNos
               /\ worker[w].at = "finish" /\ worker[w].outcome \in Outcomes
               /\ attempts' = [attempts EXCEPT ![e][n].status = worker[w].outcome]
               /\ attempts \in [Executions -> [AttemptNos -> Attempt \cup {NoAttempt}]]
               /\ \A f \in Executions : Numbers(f)' = Numbers(f)
               /\ Numbers(e) # {}
               /\ TableInv'
  <1> DEFINE e == worker[w].execution_id
             n == worker[w].attempt_no
             outcome == worker[w].outcome
  <1>1. e \in Executions /\ n \in AttemptNos /\ outcome \in Outcomes /\ worker[w].at = "finish"
    BY DEF EndAttempt, Typed, ProcessesTyped, At, Runtime!At, Runtime!Executing
  <1>2. FinishAttempt(e, n, outcome)
    BY DEF EndAttempt
  <1>3. attempts \in [Executions -> [AttemptNos -> Attempt \cup {NoAttempt}]]
    BY DEF Typed, TableInv, TableTypeOK
  <1> HIDE DEF e, n, outcome
  <1>4. TableInv'
    BY <1>1, <1>2, FinishAttemptInv DEF Typed
  <1>5. attempts' = [attempts EXCEPT ![e][n].status = outcome] /\ attempts[e][n].status = "running"
    BY <1>2 DEF FinishAttempt
  <1>6. attempts[e][n] # NoAttempt /\ attempts[e][n] \in Attempt
    BY <1>1, <1>3, <1>5 DEF NoAttempt
  <1>7. [attempts[e][n] EXCEPT !.status = outcome] # NoAttempt
    BY <1>1, <1>6 DEF Attempt, NoAttempt, Outcomes
  <1>8. \A f \in Executions : Numbers(f)' = Numbers(f)
    BY <1>1, <1>3, <1>5, <1>6, <1>7 DEF Numbers, Attempted
  <1>9. n \in Numbers(e)
    BY <1>1, <1>6 DEF Numbers, Attempted
  <1> QED BY <1>1, <1>3, <1>4, <1>5, <1>8, <1>9 DEF e, n, outcome

LEMMA OutsideRows ==
    ASSUME Typed, Outside
    PROVE  /\ TableInv'
           /\ attempts' = attempts
           /\ \A f \in Executions : Numbers(f)' = Numbers(f)
  <1>1. attempts' = attempts
    BY DEF Outside, Schedule, CreateExecution, Enqueue, ExpireLease, ExpireCounter, Discard, tableVars
  <1>2. \A f \in Executions : Numbers(f)' = Numbers(f)
    BY <1>1 DEF Numbers, Attempted
  <1>3. CASE \E e \in Executions : CreateExecution(e)
    BY <1>1, <1>2, <1>3, CreateExecutionInv DEF Typed
  <1>4. CASE UNCHANGED tableVars
    BY <1>1, <1>2, <1>4, TablesUnchanged DEF Typed
  <1>5. (\E e \in Executions : CreateExecution(e)) \/ UNCHANGED tableVars
    BY DEF Outside, Schedule, Enqueue, ExpireLease, ExpireCounter, Discard
  <1> QED BY <1>1, <1>2, <1>3, <1>4, <1>5

LEMMA RowsStay ==
    ASSUME Typed, UNCHANGED tableVars
    PROVE  /\ TableInv'
           /\ attempts' = attempts
           /\ \A f \in Executions : Numbers(f)' = Numbers(f)
  <1>1. TableInv'
    BY TablesUnchanged DEF Typed
  <1>2. attempts' = attempts
    BY DEF tableVars
  <1> QED BY <1>1, <1>2 DEF Numbers, Attempted

-----------------------------------------------------------------------------
(* Types *)
LEMMA PoolStaysTyped ==
    ASSUME Typed, Shape
    PROVE  PoolTyped'
  <1>1. CASE UNCHANGED poolVars
    BY <1>1 DEF poolVars, Typed, PoolTyped
  <1>2. ASSUME NEW w \in Workers, NEW it \in waiting, TakeItem(w, it)
        PROVE  PoolTyped'
    <2>1. it.execution_id \in Executions
      BY DEF Typed, PoolTyped, Pool!Items
    <2> QED BY <1>2, <2>1 DEF Typed, PoolTyped, TakeItem, Pool!Take
  <1>3. ASSUME NEW e \in Executions, Enqueue(e) PROVE PoolTyped'
    <2> DEFINE it == [execution_id |-> e, selected_worker_id |-> NoWorker, no |-> numbered[e] + 1]
    <2>1. numbered[e] + 1 \in 1 .. MaxEnqueues
      BY <1>3, BoundsAssumption DEF Enqueue, Typed, PoolTyped
    <2>2. it \in Pool!Items /\ it.execution_id = e /\ it.no = numbered[e] + 1
      BY <2>1 DEF Pool!Items
    <2>3. /\ waiting' = waiting \cup {it}
          /\ numbered' = [numbered EXCEPT ![e] = numbered[e] + 1]
          /\ UNCHANGED <<holder, counter, expiries>>
      BY <1>3 DEF Enqueue, Pool!Submit
    <2>4. numbered' \in [Executions -> 0 .. MaxEnqueues]
      <3>1. numbered[e] + 1 \in 0 .. MaxEnqueues
        BY <2>1, BoundsAssumption
      <3> QED BY <2>3, <3>1 DEF Typed, PoolTyped
    <2> HIDE DEF it
    <2> QED BY <2>2, <2>3, <2>4 DEF Typed, PoolTyped
  <1>4. ASSUME NEW e \in Executions, ExpireLease(e) \/ ExpireCounter(e) PROVE PoolTyped'
    BY <1>4 DEF ExpireLease, ExpireCounter, Pool!Release, Typed, PoolTyped
  <1>5. ASSUME NEW w \in Workers, NEW it \in waiting, Discard(w, it) PROVE PoolTyped'
    BY <1>5 DEF Discard, Pool!Discard, Typed, PoolTyped
  <1>6. ASSUME NEW e \in Executions, Schedule(e) PROVE UNCHANGED poolVars
    BY <1>6 DEF Schedule
  <1> QED BY <1>1, <1>2, <1>3, <1>4, <1>5, <1>6
          DEF Shape, Outside, WorkerShape, Idles, Advances, GivesUp, Finishes, Begins, Claims

LEMMA ProcessesStayTyped ==
    ASSUME Typed, Shape
    PROVE  ProcessesTyped'
  <1>1. CASE UNCHANGED processVars
    BY <1>1 DEF processVars, Typed, ProcessesTyped
  <1>2. ASSUME NEW w \in Workers, NEW p \in Runtime!Process, WorkerShape(w, p)
        PROVE  ProcessesTyped'
    <2>1. Becomes(w, p)
      BY <1>2 DEF WorkerShape, Idles, Advances, GivesUp, Finishes, Begins, Claims
    <2>2. /\ IF p.at \in Executing THEN p.execution_id \in Executions ELSE p.execution_id = NoTask
          /\ p.at \in {"run", "finish"} => p.attempt_no \in AttemptNos
          /\ p.at = "finish" => p.outcome \in Outcomes
      <3>1. CASE Free(p)
        BY <3>1 DEF Free, Runtime!Executing
      <3>2. CASE Advances(w, p)
        BY <3>2 DEF Advances, Typed, ProcessesTyped, Runtime!Executing
      <3>3. ASSUME NEW it \in waiting, Claims(w, p, it), ~Free(p)
            PROVE  p.at = "load" /\ p.execution_id \in Executions
        BY <3>3 DEF Claims, Typed, PoolTyped, Pool!Items
      <3>4. ASSUME Begins(w, p), ~Free(p)
            PROVE  p.at = "run" /\ p.execution_id \in Executions /\ p.attempt_no \in AttemptNos
        <4>1. worker[w] \in Runtime!Process
          BY DEF Typed, ProcessesTyped
        <4>2. p = [worker[w] EXCEPT !.at = "run", !.attempt_no = Number(w)]
          BY <3>4 DEF Begins
        <4>3. p.at = "run" /\ p.execution_id = worker[w].execution_id /\ p.attempt_no = Number(w)
          BY <4>1, <4>2 DEF Runtime!Process
        <4> QED BY <3>4, <4>3, BeginRows DEF Begins
      <3> QED BY <1>2, <3>1, <3>2, <3>3, <3>4
              DEF WorkerShape, Idles, GivesUp, Finishes, Runtime!Executing
    <2> QED BY <2>1, <2>2, OneMoves DEF Typed, ProcessesTyped
  <1> QED BY <1>1, <1>2 DEF Shape

LEMMA HistoryStaysTyped ==
    ASSUME Typed, Shape
    PROVE  interrupted' \subseteq Executions \X (0 .. MaxAttempts)
  <1>1. \A w \in Workers : Work(w) \subseteq Executions \X (0 .. MaxAttempts)
    <2> SUFFICES ASSUME NEW w \in Workers PROVE Work(w) \subseteq Executions \X (0 .. MaxAttempts)
      OBVIOUS
    <2>1. InHand(w) \subseteq Executions
      BY DEF Typed, ProcessesTyped, InHand
    <2>2. worker[w].at \in {"run", "finish"} => worker[w].attempt_no \in 0 .. MaxAttempts
      BY MaxAttemptsAssumption DEF Typed, ProcessesTyped, AttemptNos
    <2> QED BY <2>1, <2>2, MaxAttemptsAssumption DEF Work
  <1>2. ASSUME NEW w \in Workers, NEW p, Begins(w, p)
        PROVE  <<worker[w].execution_id, Number(w)>> \in Executions \X (0 .. MaxAttempts)
    <2>1. worker[w].execution_id \in Executions /\ Number(w) \in AttemptNos
      BY <1>2, BeginRows DEF Begins
    <2> QED BY <2>1, MaxAttemptsAssumption DEF AttemptNos
  <1>3. \A it \in waiting : <<it.execution_id, 0>> \in Executions \X (0 .. MaxAttempts)
    BY MaxAttemptsAssumption DEF Typed, PoolTyped, Pool!Items
  <1>4. CASE UNCHANGED interrupted
    BY <1>4 DEF Typed
  <1>5. ASSUME NEW w \in Workers, NEW p \in Runtime!Process, WorkerShape(w, p)
        PROVE  \/ UNCHANGED interrupted
               \/ \E more \in SUBSET (Executions \X (0 .. MaxAttempts)) :
                     interrupted' = interrupted \cup more
    <2>1. CASE Idles(w, p) \/ Advances(w, p)
      BY <2>1 DEF Idles, Advances
    <2>2. CASE GivesUp(w, p) \/ Finishes(w, p)
      BY <1>1, <2>2 DEF GivesUp, Finishes
    <2>3. CASE Begins(w, p)
      BY <1>2, <2>3 DEF Begins
    <2>4. ASSUME NEW it \in waiting, Claims(w, p, it)
          PROVE  \/ UNCHANGED interrupted
                 \/ interrupted' = interrupted \cup {<<it.execution_id, 0>>}
      BY <2>4 DEF Claims
    <2> QED BY <1>3, <1>5, <2>1, <2>2, <2>3, <2>4 DEF WorkerShape
  <1>6. CASE \E w \in Workers, p \in Runtime!Process : WorkerShape(w, p)
    BY <1>4, <1>5, <1>6 DEF Typed
  <1> QED BY <1>4, <1>6 DEF Shape, processVars

LEMMA TypedStep ==
    ASSUME Typed, Shape, failures' \in 0 .. MaxFailures
    PROVE  Typed'
  <1>1. TableInv'
    BY OutsideRows, RowsStay, BeginRows, FinishRows
       DEF Shape, WorkerShape, Idles, Advances, GivesUp, Finishes, Begins, Claims
  <1> QED BY <1>1, PoolStaysTyped, ProcessesStayTyped, HistoryStaysTyped DEF Typed

-----------------------------------------------------------------------------
(* Who runs what.  A worker that runs an attempt finds it running and its  *)
(* own: that makes RunningHasRunner inductive, and OneRunnerPerAttempt a   *)
(* consequence, for an attempt has one worker.                             *)
RunsOwn ==
    \A w \in Workers, e \in Executions, n \in AttemptNos :
        Runner(w, e, n) => attempts[e][n] = [worker_id |-> w, status |-> "running"]

Owned == RunsOwn /\ RunningHasRunner

LEMMA OwnedImplies == Owned => OneRunnerPerAttempt
  <1> SUFFICES ASSUME Owned, NEW e \in Executions, NEW n \in AttemptNos,
                      NEW v \in Workers, NEW w \in Workers, Runner(v, e, n), Runner(w, e, n)
               PROVE  v = w
    BY DEF OneRunnerPerAttempt
  <1>1. [worker_id |-> v, status |-> "running"] = [worker_id |-> w, status |-> "running"]
    BY DEF Owned, RunsOwn
  <1>2. [worker_id |-> v, status |-> "running"].worker_id = [worker_id |-> w, status |-> "running"].worker_id
    BY <1>1
  <1> QED BY <1>2

(* A process that is free runs nothing. *)
LEMMA FreeRunsNothing ==
    ASSUME NEW p, Free(p)
    PROVE  p.at \notin {"run", "finish"}
  BY DEF Free, Runtime!Executing

LEMMA OthersRun ==
    ASSUME Typed, NEW w \in Workers, NEW p \in Runtime!Process, Becomes(w, p)
    PROVE  \A e \in Executions, n \in AttemptNos :
             /\ \A v \in Workers : v # w => (Runner(v, e, n)' <=> Runner(v, e, n))
             /\ Runner(w, e, n)' <=>
                  p.at \in {"run", "finish"} /\ p.execution_id = e /\ p.attempt_no = n
  BY OneMoves DEF Runner

LEMMA OwnedAdvance ==
    ASSUME Typed, Owned, NEW w \in Workers, NEW p \in Runtime!Process,
           Idles(w, p) \/ Advances(w, p)
    PROVE  Owned'
  <1>1. Becomes(w, p) /\ attempts' = attempts /\ interrupted' = interrupted
    BY DEF Idles, Advances, tableVars
  <1>2. \A e \in Executions, n \in AttemptNos, v \in Workers : Runner(v, e, n)' <=> Runner(v, e, n)
    <2>1. \A e \in Executions, n \in AttemptNos : Runner(w, e, n)' <=> Runner(w, e, n)
      <3>1. CASE Idles(w, p)
        BY <1>1, <3>1, OthersRun, FreeRunsNothing DEF Idles, Runner, Runtime!Executing
      <3>2. CASE Advances(w, p)
        BY <1>1, <3>2, OthersRun DEF Advances, Runner
      <3> QED BY <3>1, <3>2
    <2> QED BY <1>1, <2>1, OthersRun
  <1>3. RunsOwn'
    BY <1>1, <1>2 DEF Owned, RunsOwn
  <1>4. RunningHasRunner'
    <2> SUFFICES ASSUME NEW e \in Executions, NEW n \in AttemptNos,
                        attempts[e][n].status = "running", <<e, n>> \notin interrupted
                 PROVE  Runner(attempts[e][n].worker_id, e, n)'
      BY <1>1 DEF RunningHasRunner
    <2>1. Runner(attempts[e][n].worker_id, e, n)
      BY DEF Owned, RunningHasRunner
    <2>2. attempts[e][n].worker_id \in Workers
      <3>1. attempts[e][n] \in Attempt \cup {NoAttempt}
        BY DEF Typed, TableInv, TableTypeOK
      <3> QED BY <3>1 DEF Attempt, NoAttempt
    <2> QED BY <1>1, <1>2, <2>1, <2>2
  <1> QED BY <1>3, <1>4 DEF Owned

(* The worker of a running attempt *)
LEMMA RunnerIsWorker ==
    ASSUME Typed, NEW e \in Executions, NEW n \in AttemptNos, attempts[e][n].status = "running"
    PROVE  attempts[e][n].worker_id \in Workers
  <1>1. attempts[e][n] \in Attempt \cup {NoAttempt}
    BY DEF Typed, TableInv, TableTypeOK
  <1> QED BY <1>1 DEF Attempt, NoAttempt

LEMMA OwnedGiveUp ==
    ASSUME Typed, Owned, NEW w \in Workers, NEW p \in Runtime!Process, GivesUp(w, p)
    PROVE  Owned'
  <1>1. Becomes(w, p) /\ attempts' = attempts /\ Free(p) /\ interrupted' = interrupted \cup Work(w)
    BY DEF GivesUp, tableVars
  <1>2. \A e \in Executions, n \in AttemptNos :
          /\ ~Runner(w, e, n)'
          /\ \A v \in Workers : v # w => (Runner(v, e, n)' <=> Runner(v, e, n))
    BY <1>1, OthersRun, FreeRunsNothing
  <1>3. RunsOwn'
    BY <1>1, <1>2 DEF Owned, RunsOwn
  <1>4. RunningHasRunner'
    <2> SUFFICES ASSUME NEW e \in Executions, NEW n \in AttemptNos,
                        attempts[e][n].status = "running"
                 PROVE  <<e, n>> \in interrupted' \/ Runner(attempts[e][n].worker_id, e, n)'
      BY <1>1 DEF RunningHasRunner
    <2>1. <<e, n>> \in interrupted \/ Runner(attempts[e][n].worker_id, e, n)
      BY DEF Owned, RunningHasRunner
    <2>2. Runner(w, e, n) => <<e, n>> \in Work(w)
      <3>1. e # NoTask
        BY NoTaskAssumption
      <3> QED BY <3>1 DEF Runner, Work, InHand
    <2> QED BY <1>1, <1>2, <2>1, <2>2, RunnerIsWorker
  <1> QED BY <1>3, <1>4 DEF Owned

LEMMA OwnedFinish ==
    ASSUME Typed, Owned, NEW w \in Workers, NEW p \in Runtime!Process, Finishes(w, p)
    PROVE  Owned'
  <1> DEFINE f == worker[w].execution_id
             m == worker[w].attempt_no
  <1>1. Becomes(w, p) /\ Free(p) /\ interrupted \subseteq interrupted'
    BY DEF Finishes
  <1>2. /\ f \in Executions /\ m \in AttemptNos /\ Runner(w, f, m)
        /\ worker[w].outcome \in Outcomes
        /\ attempts' = [attempts EXCEPT ![f][m].status = worker[w].outcome]
        /\ attempts \in [Executions -> [AttemptNos -> Attempt \cup {NoAttempt}]]
    BY FinishRows DEF Finishes, Runner
  <1>3. \A e \in Executions, n \in AttemptNos :
          /\ ~Runner(w, e, n)'
          /\ \A v \in Workers : v # w => (Runner(v, e, n)' <=> Runner(v, e, n))
    BY <1>1, OthersRun, FreeRunsNothing
  <1>4. attempts[f][m] = [worker_id |-> w, status |-> "running"]
    BY <1>2 DEF Owned, RunsOwn
  <1>5. /\ attempts'[f][m] = [attempts[f][m] EXCEPT !.status = worker[w].outcome]
        /\ \A e \in Executions, n \in AttemptNos :
             e # f \/ n # m => attempts'[e][n] = attempts[e][n]
    BY <1>2
  <1>6. attempts'[f][m].status # "running"
    BY <1>2, <1>4, <1>5 DEF Outcomes
  <1>7. attempts[f][m].worker_id = w
    BY <1>4
  <1> HIDE DEF f, m
  <1>8. RunsOwn'
    <2> SUFFICES ASSUME NEW v \in Workers, NEW e \in Executions, NEW n \in AttemptNos, Runner(v, e, n)'
                 PROVE  attempts'[e][n] = [worker_id |-> v, status |-> "running"]
      BY DEF RunsOwn
    <2>1. v # w /\ Runner(v, e, n)
      BY <1>3
    <2>2. attempts[e][n] = [worker_id |-> v, status |-> "running"]
      BY <2>1 DEF Owned, RunsOwn
    <2>3. attempts[e][n].worker_id = v
      BY <2>2
    <2>4. e # f \/ n # m
      BY <1>7, <2>1, <2>3
    <2> QED BY <1>5, <2>2, <2>4
  <1>9. RunningHasRunner'
    <2> SUFFICES ASSUME NEW e \in Executions, NEW n \in AttemptNos,
                        attempts'[e][n].status = "running"
                 PROVE  (<<e, n>> \in interrupted \/ Runner(attempts[e][n].worker_id, e, n))'
      BY DEF RunningHasRunner
    <2>1. (e # f \/ n # m) /\ attempts'[e][n] = attempts[e][n]
      BY <1>5, <1>6
    <2>2. <<e, n>> \in interrupted \/ Runner(attempts[e][n].worker_id, e, n)
      BY <2>1 DEF Owned, RunningHasRunner
    <2>3. ~Runner(w, e, n)
      BY <1>2, <2>1 DEF Runner, f, m
    <2>4. PICK v \in Workers : v = attempts[e][n].worker_id
      BY <2>1, RunnerIsWorker
    <2> QED BY <1>1, <1>3, <2>1, <2>2, <2>3, <2>4
  <1> QED BY <1>8, <1>9 DEF Owned

LEMMA OwnedBegin ==
    ASSUME Typed, Owned, NEW w \in Workers, NEW p \in Runtime!Process, Begins(w, p)
    PROVE  Owned'
  <1> DEFINE f == worker[w].execution_id
             m == Number(w)
             row == [worker_id |-> w, status |-> "running"]
  <1>1. Becomes(w, p) /\ interrupted \subseteq interrupted'
    BY DEF Begins
  <1>2. /\ f \in Executions /\ m \in AttemptNos
        /\ attempts[f][m] = NoAttempt
        /\ attempts' = [attempts EXCEPT ![f][m] = row]
        /\ attempts \in [Executions -> [AttemptNos -> Attempt \cup {NoAttempt}]]
    BY BeginRows DEF Begins
  <1>3. \/ <<f, m>> \in interrupted' /\ Free(p)
        \/ p.at = "run" /\ p.execution_id = f /\ p.attempt_no = m
    BY DEF Begins, Typed, ProcessesTyped, Runtime!Process
  <1>4. row.worker_id = w /\ row.status = "running" /\ NoAttempt.status # "running"
    BY DEF NoAttempt
  <1> HIDE DEF f, m, row
  <1>5. /\ attempts'[f][m] = row
        /\ \A e \in Executions, n \in AttemptNos :
             e # f \/ n # m => attempts'[e][n] = attempts[e][n]
    BY <1>2
  <1>6. \A e \in Executions, n \in AttemptNos : ~Runner(w, e, n)
    BY DEF Begins, At, Runtime!At, Runner
  <1>7. RunsOwn'
    <2> SUFFICES ASSUME NEW v \in Workers, NEW e \in Executions, NEW n \in AttemptNos, Runner(v, e, n)'
                 PROVE  attempts'[e][n] = [worker_id |-> v, status |-> "running"]
      BY DEF RunsOwn
    <2>1. CASE v = w
      BY <1>1, <1>3, <1>5, <2>1, OthersRun, FreeRunsNothing DEF row
    <2>2. CASE v # w
      <3>1. attempts[e][n] = [worker_id |-> v, status |-> "running"]
        BY <1>1, <2>2, OthersRun DEF Owned, RunsOwn
      <3>2. attempts[e][n].status = "running"
        BY <3>1
      <3> QED BY <1>2, <1>4, <1>5, <3>1, <3>2
    <2> QED BY <2>1, <2>2
  <1>8. RunningHasRunner'
    <2> SUFFICES ASSUME NEW e \in Executions, NEW n \in AttemptNos,
                        attempts'[e][n].status = "running"
                 PROVE  (<<e, n>> \in interrupted \/ Runner(attempts[e][n].worker_id, e, n))'
      BY DEF RunningHasRunner
    <2>1. CASE e = f /\ n = m
      BY <1>1, <1>2, <1>3, <1>4, <1>5, <2>1, OthersRun
    <2>2. CASE e # f \/ n # m
      <3>1. attempts'[e][n] = attempts[e][n]
        BY <1>5, <2>2
      <3>2. <<e, n>> \in interrupted \/ Runner(attempts[e][n].worker_id, e, n)
        BY <3>1 DEF Owned, RunningHasRunner
      <3>3. PICK v \in Workers : v = attempts[e][n].worker_id
        BY <3>1, RunnerIsWorker
      <3> QED BY <1>1, <1>6, <3>1, <3>2, <3>3, OthersRun
    <2> QED BY <2>1, <2>2
  <1> QED BY <1>7, <1>8 DEF Owned

LEMMA OwnedClaim ==
    ASSUME Typed, Owned, NEW w \in Workers, NEW p \in Runtime!Process, NEW it \in waiting,
           Claims(w, p, it)
    PROVE  Owned'
  <1>1. Becomes(w, p) /\ attempts' = attempts /\ interrupted \subseteq interrupted'
        /\ p.at \notin {"run", "finish"} /\ worker[w].at \notin {"run", "finish"}
    BY FreeRunsNothing DEF Claims, tableVars, At, Runtime!At
  <1>2. \A e \in Executions, n \in AttemptNos, v \in Workers : Runner(v, e, n)' <=> Runner(v, e, n)
    BY <1>1, OthersRun DEF Runner
  <1>3. RunsOwn'
    BY <1>1, <1>2 DEF Owned, RunsOwn
  <1>4. RunningHasRunner'
    <2> SUFFICES ASSUME NEW e \in Executions, NEW n \in AttemptNos,
                        attempts[e][n].status = "running"
                 PROVE  <<e, n>> \in interrupted' \/ Runner(attempts[e][n].worker_id, e, n)'
      BY <1>1 DEF RunningHasRunner
    <2>1. <<e, n>> \in interrupted \/ Runner(attempts[e][n].worker_id, e, n)
      BY DEF Owned, RunningHasRunner
    <2> QED BY <1>1, <1>2, <2>1, RunnerIsWorker
  <1> QED BY <1>3, <1>4 DEF Owned

LEMMA OwnedStep ==
    ASSUME Typed, Owned, Shape
    PROVE  Owned'
  <1>1. ASSUME attempts' = attempts, UNCHANGED processVars PROVE Owned'
    BY <1>1 DEF processVars, Owned, RunsOwn, RunningHasRunner, Runner
  <1>2. CASE Outside /\ UNCHANGED processVars
    BY <1>1, <1>2, OutsideRows
  <1> QED BY <1>2, OwnedAdvance, OwnedGiveUp, OwnedFinish, OwnedBegin, OwnedClaim
          DEF Shape, WorkerShape

-----------------------------------------------------------------------------
(* What a worker has in hand, after a step of one process *)
LEMMA OthersHandle ==
    ASSUME Typed, NEW w \in Workers, NEW p \in Runtime!Process, Becomes(w, p)
    PROVE  \A e \in Executions :
             Handling(e)' = IF p.execution_id = e THEN Handling(e) \cup {w} ELSE Handling(e) \ {w}
  <1> SUFFICES ASSUME NEW e \in Executions
               PROVE  Handling(e)' = IF p.execution_id = e THEN Handling(e) \cup {w}
                                                           ELSE Handling(e) \ {w}
    OBVIOUS
  <1>1. /\ worker'[w] = p
        /\ \A v \in Workers : v # w => worker'[v] = worker[v]
    BY OneMoves
  <1> QED BY <1>1 DEF Handling

(* A process that is free handles nothing; at the claim it did not either. *)
LEMMA FreeHandlesNothing ==
    ASSUME Typed, NEW e \in Executions
    PROVE  /\ \A p : Free(p) => p.execution_id # e
           /\ \A w \in Workers : worker[w].at \notin Executing => worker[w].execution_id # e
  BY NoTaskAssumption DEF Typed, ProcessesTyped, Free

(* Nothing is lost in silence.  An execution that has been claimed once is *)
(* in hand, or has an attempt, or was interrupted before it had one; so    *)
(* its other items may be discarded while it is leased.                    *)
Begun(e) == Handling(e) # {} \/ Numbers(e) # {} \/ <<e, 0>> \in interrupted

LeasedIsBegun == \A e \in Executions : holder[e] # NoWorker => Begun(e)

Found == LeasedIsBegun /\ LostWasInterrupted

LEMMA BegunStays ==
    ASSUME Typed, Owned, Shape, NEW e \in Executions, Begun(e)
    PROVE  Begun(e)'
  <1>1. CASE Outside /\ UNCHANGED processVars
    BY <1>1, OutsideRows DEF Begun, Handling, processVars
  <1>2. ASSUME NEW w \in Workers, NEW p \in Runtime!Process, WorkerShape(w, p)
        PROVE  Begun(e)'
    <2>1. Becomes(w, p) /\ interrupted \subseteq interrupted'
      BY <1>2 DEF WorkerShape, Idles, Advances, GivesUp, Finishes, Begins, Claims
    <2>2. Handling(e)' = IF p.execution_id = e THEN Handling(e) \cup {w} ELSE Handling(e) \ {w}
      BY <2>1, OthersHandle
    <2>3. CASE Idles(w, p)
      <3>1. w \notin Handling(e) /\ Numbers(e)' = Numbers(e)
        BY <2>3, FreeHandlesNothing, RowsStay DEF Idles, Handling
      <3> QED BY <2>1, <2>2, <3>1 DEF Begun
    <2>4. CASE Advances(w, p)
      <3>1. Numbers(e)' = Numbers(e)
        BY <2>4, RowsStay DEF Advances
      <3>2. w \in Handling(e) => p.execution_id = e
        BY <2>4 DEF Advances, Handling
      <3> QED BY <2>1, <2>2, <3>1, <3>2 DEF Begun
    <2>5. CASE GivesUp(w, p)
      <3>1. Numbers(e)' = Numbers(e) /\ interrupted' = interrupted \cup Work(w)
        BY <2>5, RowsStay DEF GivesUp
      <3>2. CASE w \in Handling(e) /\ worker[w].at \in {"run", "finish"}
        <4> DEFINE n == worker[w].attempt_no
        <4>1. n \in AttemptNos /\ Runner(w, e, n)
          BY <3>2 DEF Typed, ProcessesTyped, Runner, Handling
        <4>2. attempts[e][n] = [worker_id |-> w, status |-> "running"]
          BY <4>1 DEF Owned, RunsOwn
        <4>3. attempts[e][n].status # NoAttempt.status
          BY <4>2 DEF NoAttempt
        <4>4. n \in Numbers(e)
          BY <4>1, <4>3 DEF Numbers, Attempted
        <4> QED BY <3>1, <4>4 DEF Begun
      <3>3. CASE w \in Handling(e) /\ worker[w].at \notin {"run", "finish"}
        <4>1. <<e, 0>> \in Work(w)
          BY <3>3, NoTaskAssumption DEF Work, InHand, Handling
        <4> QED BY <3>1, <4>1 DEF Begun
      <3>4. CASE w \notin Handling(e)
        BY <2>1, <2>2, <3>1, <3>4 DEF Begun
      <3> QED BY <3>2, <3>3, <3>4
    <2>6. CASE Finishes(w, p)
      <3>1. Numbers(e)' = Numbers(e)
        BY <2>6, FinishRows DEF Finishes
      <3>2. w \in Handling(e) => Numbers(e) # {}
        BY <2>6, FinishRows DEF Finishes, Handling
      <3> QED BY <2>1, <2>2, <3>1, <3>2 DEF Begun
    <2>7. CASE Begins(w, p)
      <3>1. /\ Numbers(e) \subseteq Numbers(e)'
            /\ w \in Handling(e) => Numbers(e)' # {}
        BY <2>7, BeginRows DEF Begins, Handling
      <3> QED BY <2>1, <2>2, <3>1 DEF Begun
    <2>8. ASSUME NEW it \in waiting, Claims(w, p, it) PROVE Begun(e)'
      <3>1. Numbers(e)' = Numbers(e)
        BY <2>8, RowsStay DEF Claims
      <3>2. w \notin Handling(e)
        BY <2>8, FreeHandlesNothing DEF Claims, Handling, At, Runtime!At, Runtime!Executing
      <3> QED BY <2>1, <2>2, <3>1, <3>2 DEF Begun
    <2> QED BY <1>2, <2>3, <2>4, <2>5, <2>6, <2>7, <2>8 DEF WorkerShape
  <1> QED BY <1>1, <1>2 DEF Shape

(* What is claimed has begun, in the sense above. *)
LEMMA ClaimBegins ==
    ASSUME Typed, NEW w \in Workers, NEW p \in Runtime!Process, NEW it \in waiting,
           Claims(w, p, it)
    PROVE  it.execution_id \in Executions /\ \A e \in Executions : e = it.execution_id => Begun(e)'
  <1>1. it.execution_id \in Executions
    BY DEF Typed, PoolTyped, Pool!Items
  <1>2. ASSUME NEW e \in Executions, e = it.execution_id PROVE Begun(e)'
    <2>1. CASE p.execution_id = e
      BY <2>1, OthersHandle DEF Claims, Begun
    <2>2. CASE <<e, 0>> \in interrupted'
      BY <2>2 DEF Begun
    <2> QED BY <1>2, <2>1, <2>2 DEF Claims
  <1> QED BY <1>1, <1>2

Waits(e) == \E it \in waiting : it.execution_id = e

(* One execution's part of it *)
LEMMA FoundStepOf ==
    ASSUME Typed, Owned, Found, Shape, NEW e \in Executions
    PROVE  /\ holder'[e] # NoWorker => Begun(e)'
           /\ numbered'[e] > 0 => Waits(e)' \/ Begun(e)'
  <1>1. Begun(e) => Begun(e)'
    BY BegunStays
  <1>2. /\ holder[e] # NoWorker => Begun(e)
        /\ numbered[e] > 0 => Waits(e) \/ Begun(e)
    BY DEF Found, LeasedIsBegun, LostWasInterrupted, Begun, Waits
  <1> DEFINE Goal == /\ holder'[e] # NoWorker => Begun(e)'
                     /\ numbered'[e] > 0 => Waits(e)' \/ Begun(e)'
  <1> SUFFICES Goal
    OBVIOUS
  <1>3. ASSUME holder'[e] # NoWorker => holder[e] # NoWorker,
               numbered'[e] = numbered[e],
               Waits(e) => Waits(e)' \/ holder[e] # NoWorker
        PROVE  Goal
    BY <1>1, <1>2, <1>3
  <1>4. CASE UNCHANGED poolVars
    <2>1. Waits(e)' <=> Waits(e)
      BY <1>4 DEF poolVars, Waits
    <2> QED BY <1>3, <1>4, <2>1 DEF poolVars
  <1>5. ASSUME NEW f \in Executions, Enqueue(f) PROVE Goal
    <2> DEFINE it == [execution_id |-> f, selected_worker_id |-> NoWorker, no |-> numbered[f] + 1]
    <2>1. /\ waiting' = waiting \cup {it} /\ holder' = holder
          /\ numbered' = [numbered EXCEPT ![f] = numbered[f] + 1]
      BY <1>5 DEF Enqueue, Pool!Submit
    <2>2. it.execution_id = f
      OBVIOUS
    <2> HIDE DEF it
    <2>3. (f = e => Waits(e)') /\ (Waits(e) => Waits(e)')
      BY <2>1, <2>2 DEF Waits
    <2>4. f # e => numbered'[e] = numbered[e]
      BY <2>1 DEF Typed, PoolTyped
    <2> QED BY <1>1, <1>2, <2>1, <2>3, <2>4
  <1>6. ASSUME NEW f \in Executions, ExpireLease(f) \/ ExpireCounter(f) PROVE Goal
    <2>1. /\ UNCHANGED <<waiting, numbered>>
          /\ holder'[e] # NoWorker => holder[e] # NoWorker
      BY <1>6 DEF ExpireLease, ExpireCounter, Pool!Release, Typed, PoolTyped
    <2>2. Waits(e)' <=> Waits(e)
      BY <2>1 DEF Waits
    <2> QED BY <1>3, <2>1, <2>2
  <1>7. ASSUME NEW w \in Workers, NEW it \in waiting, Discard(w, it) PROVE Goal
    <2>1. /\ UNCHANGED <<holder, numbered>>
          /\ Waits(e) => Waits(e)' \/ holder[e] # NoWorker
      BY <1>7 DEF Discard, Pool!Discard, Waits
    <2> QED BY <1>3, <2>1
  <1>8. CASE Outside /\ UNCHANGED processVars
    <2>1. ASSUME NEW f \in Executions, Schedule(f) PROVE UNCHANGED poolVars
      BY <2>1 DEF Schedule
    <2> HIDE DEF Goal
    <2> QED BY <1>4, <1>5, <1>6, <1>7, <1>8, <2>1 DEF Outside
  <1>9. ASSUME NEW w \in Workers, NEW p \in Runtime!Process, NEW it \in waiting, Claims(w, p, it)
        PROVE  Goal
    <2>1. CASE e = it.execution_id
      BY <1>9, <2>1, ClaimBegins
    <2>2. CASE e # it.execution_id
      <3>1. holder'[e] = holder[e] /\ numbered'[e] = numbered[e] /\ (Waits(e) => Waits(e)')
        BY <1>9, <2>2 DEF Claims, TakeItem, Pool!Take, Waits, Typed, PoolTyped
      <3> QED BY <1>3, <3>1
    <2> QED BY <2>1, <2>2
  <1>10. ASSUME NEW w \in Workers, NEW p \in Runtime!Process, WorkerShape(w, p),
                \A it \in waiting : ~Claims(w, p, it)
         PROVE  UNCHANGED poolVars
    BY <1>10 DEF WorkerShape, Idles, Advances, GivesUp, Finishes, Begins
  <1> HIDE DEF Goal
  <1> QED BY <1>4, <1>8, <1>9, <1>10 DEF Shape

LEMMA FoundStep ==
    ASSUME Typed, Owned, Found, Shape
    PROVE  Found'
  <1>1. LeasedIsBegun'
    BY FoundStepOf DEF LeasedIsBegun
  <1>2. LostWasInterrupted'
    <2> SUFFICES ASSUME NEW e \in Executions, numbered'[e] > 0
                 PROVE  (Waits(e) \/ Begun(e))'
      BY DEF LostWasInterrupted, Waits, Begun
    <2> QED BY FoundStepOf
  <1> QED BY <1>1, <1>2 DEF Found

-----------------------------------------------------------------------------
(* Counting.  Sets that shrink, or get or lose one element *)
LEMMA Fewer ==
    ASSUME NEW T, IsFiniteSet(T), NEW S, S \subseteq T
    PROVE  /\ IsFiniteSet(S) /\ Cardinality(S) \in Nat /\ Cardinality(T) \in Nat
           /\ Cardinality(S) <= Cardinality(T)
  BY FS_Subset, FS_CardinalityType

LEMMA OneMore ==
    ASSUME NEW T, IsFiniteSet(T), NEW x, NEW S, S \subseteq T \cup {x}
    PROVE  /\ IsFiniteSet(S) /\ Cardinality(S) \in Nat /\ Cardinality(T) \in Nat
           /\ Cardinality(S) <= Cardinality(T) + 1
  <1>1. /\ IsFiniteSet(T \cup {x})
        /\ Cardinality(T \cup {x}) = Cardinality(T) \/ Cardinality(T \cup {x}) = Cardinality(T) + 1
    BY FS_AddElement
  <1>2. Cardinality(T) \in Nat
    BY FS_CardinalityType
  <1>3. /\ IsFiniteSet(S) /\ Cardinality(S) \in Nat
        /\ Cardinality(S) <= Cardinality(T \cup {x})
    BY <1>1, Fewer
  <1> QED BY <1>1, <1>2, <1>3

LEMMA OneLess ==
    ASSUME NEW T, IsFiniteSet(T), NEW x \in T, NEW S, S \subseteq T \ {x}
    PROVE  /\ IsFiniteSet(S) /\ Cardinality(S) \in Nat /\ Cardinality(T) \in Nat
           /\ Cardinality(S) + 1 <= Cardinality(T)
  <1>1. IsFiniteSet(T \ {x}) /\ Cardinality(T \ {x}) = Cardinality(T) - 1
    BY FS_RemoveElement
  <1>2. Cardinality(T) \in Nat
    BY FS_CardinalityType
  <1>3. /\ IsFiniteSet(S) /\ Cardinality(S) \in Nat
        /\ Cardinality(S) <= Cardinality(T \ {x})
    BY <1>1, Fewer
  <1> QED BY <1>1, <1>2, <1>3

(* An item is waiting, or claimed and not begun, or an attempt, and never  *)
(* two of them: that is why attempts do not outnumber items.  (It may be   *)
(* none of them: discarded, or claimed by a worker that failed.)           *)
WaitingFor(e) == {it \in waiting : it.execution_id = e}
Unstarted(e) == {w \in Workers : worker[w].execution_id = e /\ worker[w].at \in {"load", "begin"}}

LeaseCount(e) ==
    IsFiniteSet(Handling(e)) /\ Cardinality(Handling(e) \ {holder[e]}) <= expiries[e]

ItemCount(e) ==
    /\ IsFiniteSet(WaitingFor(e)) /\ IsFiniteSet(Unstarted(e)) /\ IsFiniteSet(Numbers(e))
    /\ Cardinality(WaitingFor(e)) + Cardinality(Unstarted(e)) + Cardinality(Numbers(e))
         <= numbered[e]

Counted == \A e \in Executions : LeaseCount(e) /\ ItemCount(e)

LEMMA CountedImplies ==
    ASSUME Typed, Counted
    PROVE  WorkBounded
  <1>1. OneWorkerPerLease
    BY DEF OneWorkerPerLease, Counted, LeaseCount
  <1>2. ASSUME NEW e \in Executions PROVE Cardinality(Numbers(e)) <= numbered[e]
    <2>1. ItemCount(e)
      BY DEF Counted
    <2>2. /\ Cardinality(WaitingFor(e)) \in Nat /\ Cardinality(Unstarted(e)) \in Nat
          /\ Cardinality(Numbers(e)) \in Nat
      BY <2>1, FS_CardinalityType DEF ItemCount
    <2>3. numbered[e] \in Nat
      BY BoundsAssumption DEF Typed, PoolTyped
    <2> QED BY <2>1, <2>2, <2>3 DEF ItemCount
  <1> QED BY <1>1, <1>2 DEF WorkBounded, AttemptsHaveItems

(* Leases *)
LEMMA LeaseCountStep ==
    ASSUME Typed, Shape, NEW e \in Executions, LeaseCount(e)
    PROVE  LeaseCount(e)'
  <1> DEFINE H == Handling(e)
  <1>1. /\ IsFiniteSet(H) /\ Cardinality(H \ {holder[e]}) <= expiries[e]
        /\ IsFiniteSet(H \ {holder[e]})
        /\ expiries[e] \in Nat /\ holder[e] \in Workers \cup {NoWorker}
    BY FS_RemoveElement DEF LeaseCount, Typed, PoolTyped
  <1>2. ASSUME Handling(e)' \subseteq H, holder'[e] = holder[e], expiries'[e] = expiries[e]
        PROVE  LeaseCount(e)'
    <2>1. Handling(e)' \ {holder'[e]} \subseteq H \ {holder[e]}
      BY <1>2
    <2>2. IsFiniteSet(Handling(e)')
      BY <1>1, <1>2, Fewer
    <2>3. /\ Cardinality(Handling(e)' \ {holder'[e]}) <= Cardinality(H \ {holder[e]})
          /\ Cardinality(Handling(e)' \ {holder'[e]}) \in Nat
          /\ Cardinality(H \ {holder[e]}) \in Nat
      <3> HIDE DEF H
      <3> QED BY <1>1, <2>1, Fewer
    <2> QED BY <1>1, <1>2, <2>2, <2>3 DEF LeaseCount
  <1>3. CASE Outside /\ UNCHANGED processVars
    <2>1. Handling(e)' = H
      BY <1>3 DEF Handling, processVars
    <2>2. ASSUME ExpireLease(e) PROVE LeaseCount(e)'
      <3>1. /\ holder'[e] = NoWorker /\ expiries'[e] = expiries[e] + 1
        BY <2>2 DEF ExpireLease, Pool!Release, Typed, PoolTyped
      <3>2. Handling(e)' \ {holder'[e]} \subseteq (H \ {holder[e]}) \cup {holder[e]}
        BY <2>1
      <3>3. /\ Cardinality(Handling(e)' \ {holder'[e]}) <= Cardinality(H \ {holder[e]}) + 1
            /\ Cardinality(Handling(e)' \ {holder'[e]}) \in Nat
            /\ Cardinality(H \ {holder[e]}) \in Nat
        <4> HIDE DEF H
        <4> QED BY <1>1, <3>2, OneMore
      <3> QED BY <1>1, <2>1, <3>1, <3>3 DEF LeaseCount
    <2>3. ASSUME ~ExpireLease(e) PROVE holder'[e] = holder[e] /\ expiries'[e] = expiries[e]
      BY <1>3, <2>3 DEF Outside, Schedule, Enqueue, ExpireLease, ExpireCounter, Discard, poolVars,
                        Pool!Submit, Pool!Release, Pool!Discard, Typed, PoolTyped
    <2> QED BY <1>2, <2>1, <2>2, <2>3
  <1>4. ASSUME NEW w \in Workers, NEW p \in Runtime!Process, WorkerShape(w, p)
        PROVE  LeaseCount(e)'
    <2>1. Handling(e)' = IF p.execution_id = e THEN H \cup {w} ELSE H \ {w}
      BY <1>4, OthersHandle DEF WorkerShape, Idles, Advances, GivesUp, Finishes, Begins, Claims
    <2>2. ASSUME NEW it \in waiting, Claims(w, p, it) PROVE LeaseCount(e)'
      <3>1. CASE e = it.execution_id
        <4>1. /\ holder[e] = NoWorker /\ holder'[e] = w /\ expiries'[e] = expiries[e]
          BY <2>2, <3>1 DEF Claims, TakeItem, Pool!Take, Typed, PoolTyped
        <4>2. Handling(e)' \ {holder'[e]} \subseteq H \ {holder[e]}
          BY <2>1, <4>1, NoSelectedWorkerAssumption DEF Handling
        <4>3. IsFiniteSet(Handling(e)')
          <5>1. Handling(e)' \subseteq H \cup {w}
            BY <2>1
          <5> QED BY <1>1, <5>1, OneMore
        <4>4. /\ Cardinality(Handling(e)' \ {holder'[e]}) <= Cardinality(H \ {holder[e]})
              /\ Cardinality(Handling(e)' \ {holder'[e]}) \in Nat
              /\ Cardinality(H \ {holder[e]}) \in Nat
          <5> HIDE DEF H
          <5> QED BY <1>1, <4>2, Fewer
        <4> QED BY <1>1, <4>1, <4>3, <4>4 DEF LeaseCount
      <3>2. CASE e # it.execution_id
        <4>1. holder'[e] = holder[e] /\ expiries'[e] = expiries[e]
          BY <2>2, <3>2 DEF Claims, TakeItem, Pool!Take, Typed, PoolTyped
        <4>2. p.execution_id # e
          BY <2>2, <3>2, FreeHandlesNothing DEF Claims
        <4> QED BY <1>2, <2>1, <4>1, <4>2
      <3> QED BY <3>1, <3>2
    <2>3. ASSUME \A it \in waiting : ~Claims(w, p, it) PROVE LeaseCount(e)'
      <3>1. UNCHANGED poolVars
        BY <1>4, <2>3 DEF WorkerShape, Idles, Advances, GivesUp, Finishes, Begins
      <3>2. p.execution_id = e => w \in H
        <4>1. p.execution_id = worker[w].execution_id \/ Free(p)
          BY <1>4, <2>3
             DEF WorkerShape, Idles, Advances, GivesUp, Finishes, Begins, Typed, ProcessesTyped,
                 Runtime!Process
        <4> QED BY <4>1, FreeHandlesNothing DEF Handling
      <3> QED BY <1>2, <2>1, <3>1, <3>2 DEF poolVars
    <2> QED BY <2>2, <2>3
  <1> QED BY <1>3, <1>4 DEF Shape

(* Items *)
LEMMA UnstartedMoves ==
    ASSUME Typed, NEW w \in Workers, NEW p \in Runtime!Process, Becomes(w, p), NEW e \in Executions
    PROVE  Unstarted(e)' = IF p.execution_id = e /\ p.at \in {"load", "begin"}
                           THEN Unstarted(e) \cup {w} ELSE Unstarted(e) \ {w}
  <1>1. /\ worker'[w] = p
        /\ \A v \in Workers : v # w => worker'[v] = worker[v]
    BY OneMoves
  <1> QED BY <1>1 DEF Unstarted

LEMMA ItemCountStep ==
    ASSUME Typed, Shape, NEW e \in Executions, ItemCount(e)
    PROVE  ItemCount(e)'
  <1> DEFINE W == WaitingFor(e)
             U == Unstarted(e)
             N == Numbers(e)
  <1>1. /\ IsFiniteSet(W) /\ IsFiniteSet(U) /\ IsFiniteSet(N)
        /\ Cardinality(W) + Cardinality(U) + Cardinality(N) <= numbered[e]
        /\ Cardinality(W) \in Nat /\ Cardinality(U) \in Nat /\ Cardinality(N) \in Nat
        /\ numbered[e] \in Nat
    BY FS_CardinalityType, BoundsAssumption DEF ItemCount, Typed, PoolTyped
  <1>2. ASSUME WaitingFor(e)' \subseteq W, Unstarted(e)' \subseteq U, Numbers(e)' = N,
               numbered'[e] = numbered[e]
        PROVE  ItemCount(e)'
    <2> HIDE DEF W, U, N
    <2>1. /\ IsFiniteSet(WaitingFor(e)') /\ Cardinality(WaitingFor(e)') \in Nat
          /\ Cardinality(WaitingFor(e)') <= Cardinality(W)
      BY <1>1, <1>2, Fewer
    <2>2. /\ IsFiniteSet(Unstarted(e)') /\ Cardinality(Unstarted(e)') \in Nat
          /\ Cardinality(Unstarted(e)') <= Cardinality(U)
      BY <1>1, <1>2, Fewer
    <2> QED BY <1>1, <1>2, <2>1, <2>2 DEF ItemCount
  <1>3. ASSUME NEW f \in Executions, Enqueue(f), UNCHANGED processVars PROVE ItemCount(e)'
    <2> DEFINE it == [execution_id |-> f, selected_worker_id |-> NoWorker, no |-> numbered[f] + 1]
    <2>1. /\ waiting' = waiting \cup {it}
          /\ numbered' = [numbered EXCEPT ![f] = numbered[f] + 1]
          /\ UNCHANGED <<tableVars, worker>>
      BY <1>3 DEF Enqueue, Pool!Submit, processVars
    <2>2. it.execution_id = f
      OBVIOUS
    <2> HIDE DEF it
    <2>3. Unstarted(e)' = U /\ Numbers(e)' = N
      BY <2>1, RowsStay DEF Unstarted
    <2>4. CASE f # e
      <3>1. WaitingFor(e)' = W /\ numbered'[e] = numbered[e]
        BY <2>1, <2>2, <2>4 DEF WaitingFor, Typed, PoolTyped
      <3> QED BY <1>2, <2>3, <3>1
    <2>5. CASE f = e
      <3>1. WaitingFor(e)' \subseteq W \cup {it} /\ numbered'[e] = numbered[e] + 1
        BY <2>1, <2>2, <2>5 DEF WaitingFor, Typed, PoolTyped
      <3> HIDE DEF W, U, N
      <3>2. /\ IsFiniteSet(WaitingFor(e)') /\ Cardinality(WaitingFor(e)') \in Nat
            /\ Cardinality(WaitingFor(e)') <= Cardinality(W) + 1
        BY <1>1, <3>1, OneMore
      <3> QED BY <1>1, <2>3, <3>1, <3>2 DEF ItemCount
    <2> QED BY <2>4, <2>5
  <1>4. CASE Outside /\ UNCHANGED processVars
    <2>1. Unstarted(e)' = U /\ Numbers(e)' = N
      BY <1>4, OutsideRows DEF Unstarted, processVars
    <2>2. ASSUME \A f \in Executions : ~Enqueue(f)
          PROVE  WaitingFor(e)' \subseteq W /\ numbered' = numbered
      BY <1>4, <2>2 DEF Outside, Schedule, ExpireLease, ExpireCounter, Discard, poolVars,
                        Pool!Release, Pool!Discard, WaitingFor
    <2> QED BY <1>2, <1>3, <1>4, <2>1, <2>2
  <1>5. ASSUME NEW w \in Workers, NEW p \in Runtime!Process, NEW it \in waiting, Claims(w, p, it)
        PROVE  ItemCount(e)'
    <2>1. /\ waiting' = waiting \ {it} /\ numbered' = numbered
          /\ Numbers(e)' = N
      BY <1>5, RowsStay DEF Claims, TakeItem, Pool!Take
    <2>2. Unstarted(e)' = IF p.execution_id = e /\ p.at \in {"load", "begin"}
                          THEN U \cup {w} ELSE U \ {w}
      BY <1>5, UnstartedMoves DEF Claims
    <2>3. CASE it.execution_id = e
      <3>1. it \in W /\ WaitingFor(e)' \subseteq W \ {it} /\ Unstarted(e)' \subseteq U \cup {w}
        BY <2>1, <2>2, <2>3 DEF WaitingFor
      <3> HIDE DEF W, U, N
      <3>2. /\ IsFiniteSet(WaitingFor(e)') /\ Cardinality(WaitingFor(e)') \in Nat
            /\ Cardinality(WaitingFor(e)') + 1 <= Cardinality(W)
        BY <1>1, <3>1, OneLess
      <3>3. /\ IsFiniteSet(Unstarted(e)') /\ Cardinality(Unstarted(e)') \in Nat
            /\ Cardinality(Unstarted(e)') <= Cardinality(U) + 1
        BY <1>1, <3>1, OneMore
      <3> QED BY <1>1, <2>1, <3>2, <3>3 DEF ItemCount
    <2>4. CASE it.execution_id # e
      <3>1. p.execution_id # e
        BY <1>5, <2>4, FreeHandlesNothing DEF Claims
      <3>2. WaitingFor(e)' \subseteq W
        BY <2>1 DEF WaitingFor
      <3> QED BY <1>2, <2>1, <2>2, <3>1, <3>2
    <2> QED BY <2>3, <2>4
  <1>6. ASSUME NEW w \in Workers, NEW p \in Runtime!Process, Begins(w, p)
        PROVE  ItemCount(e)'
    <2> DEFINE f == worker[w].execution_id
               n == Number(w)
    <2>1. /\ Numbers(e)' = IF e = f THEN N \cup {n} ELSE N
          /\ UNCHANGED <<waiting, numbered>>
      BY <1>6, BeginRows DEF Begins, poolVars
    <2>2. Unstarted(e)' = IF p.execution_id = e /\ p.at \in {"load", "begin"}
                          THEN U \cup {w} ELSE U \ {w}
      BY <1>6, UnstartedMoves DEF Begins
    <2>3. p.at \notin {"load", "begin"}
      BY <1>6 DEF Begins, Free, Typed, ProcessesTyped, Runtime!Process, Runtime!Executing
    <2>4. WaitingFor(e)' = W
      BY <2>1 DEF WaitingFor
    <2>5. CASE e = f
      <3>1. w \in U
        BY <1>6, <2>5 DEF Begins, At, Runtime!At, Unstarted
      <3>2. Unstarted(e)' \subseteq U \ {w} /\ Numbers(e)' \subseteq N \cup {n}
        BY <2>1, <2>2, <2>3, <2>5
      <3> HIDE DEF W, U, N, f, n
      <3>3. /\ IsFiniteSet(Unstarted(e)') /\ Cardinality(Unstarted(e)') \in Nat
            /\ Cardinality(Unstarted(e)') + 1 <= Cardinality(U)
        BY <1>1, <3>1, <3>2, OneLess
      <3>4. /\ IsFiniteSet(Numbers(e)') /\ Cardinality(Numbers(e)') \in Nat
            /\ Cardinality(Numbers(e)') <= Cardinality(N) + 1
        BY <1>1, <3>2, OneMore
      <3> QED BY <1>1, <2>1, <2>4, <3>3, <3>4 DEF ItemCount
    <2>6. CASE e # f
      BY <1>2, <2>1, <2>2, <2>3, <2>4, <2>6
    <2> QED BY <2>5, <2>6
  <1>7. ASSUME NEW w \in Workers, NEW p \in Runtime!Process,
               Idles(w, p) \/ Advances(w, p) \/ GivesUp(w, p) \/ Finishes(w, p)
        PROVE  ItemCount(e)'
    <2>1. UNCHANGED <<waiting, numbered>> /\ WaitingFor(e)' = W
      BY <1>7 DEF Idles, Advances, GivesUp, Finishes, poolVars, WaitingFor
    <2>2. Numbers(e)' = N
      BY <1>7, RowsStay, FinishRows DEF Idles, Advances, GivesUp, Finishes
    <2>3. Unstarted(e)' = IF p.execution_id = e /\ p.at \in {"load", "begin"}
                          THEN U \cup {w} ELSE U \ {w}
      BY <1>7, UnstartedMoves DEF Idles, Advances, GivesUp, Finishes
    <2>4. p.execution_id = e /\ p.at \in {"load", "begin"} => w \in U
      BY <1>7, FreeHandlesNothing DEF Idles, Advances, GivesUp, Finishes, Unstarted
    <2> QED BY <1>2, <2>1, <2>2, <2>3, <2>4
  <1> QED BY <1>4, <1>5, <1>6, <1>7 DEF Shape, WorkerShape

-----------------------------------------------------------------------------
(* The inductive invariant *)
IInv == Typed /\ Owned /\ Found /\ Counted

LEMMA InitIInv == Init => IInv
  <1> SUFFICES ASSUME Init PROVE IInv
    OBVIOUS
  <1>1. /\ worker = [w \in Workers |-> Runtime!EmptyHanded("starting")]
        /\ failures = 0 /\ interrupted = {}
        /\ waiting = {}
        /\ holder = [e \in Executions |-> NoWorker]
        /\ numbered = [e \in Executions |-> 0]
        /\ counter = [e \in Executions |-> 0]
        /\ expiries = [e \in Executions |-> 0]
        /\ attempts = [e \in Executions |-> [n \in AttemptNos |-> NoAttempt]]
    BY DEF Init, TableInit, Pool!Init, Runtime!RuntimeInit
  <1>2. Free(Runtime!EmptyHanded("starting")) /\ Runtime!EmptyHanded("starting") \in Runtime!Process
    BY EmptyHandedFree DEF Runtime!Places, Runtime!Executing
  <1>3. Typed
    <2>1. TableInv
      BY TableInitInv DEF Init
    <2>2. PoolTyped /\ failures \in 0 .. MaxFailures
      BY <1>1, BoundsAssumption DEF PoolTyped
    <2>3. ProcessesTyped
      BY <1>1, <1>2, FreeRunsNothing DEF ProcessesTyped, Free
    <2> QED BY <1>1, <2>1, <2>2, <2>3 DEF Typed
  <1>4. Owned
    BY <1>1, <1>2, FreeRunsNothing DEF Owned, RunsOwn, RunningHasRunner, Runner, NoAttempt
  <1>5. Found
    BY <1>1 DEF Found, LeasedIsBegun, LostWasInterrupted
  <1>6. Counted
    <2> SUFFICES ASSUME NEW e \in Executions PROVE LeaseCount(e) /\ ItemCount(e)
      BY DEF Counted
    <2>1. Handling(e) = {} /\ Unstarted(e) = {}
      BY <1>1, <1>2, NoTaskAssumption DEF Handling, Unstarted, Free
    <2>2. WaitingFor(e) = {} /\ Numbers(e) = {}
      BY <1>1 DEF WaitingFor, Numbers, Attempted
    <2>3. Handling(e) \ {holder[e]} = {} /\ expiries[e] = 0 /\ numbered[e] = 0
      BY <1>1, <2>1
    <2> QED BY <2>1, <2>2, <2>3, FS_EmptySet DEF LeaseCount, ItemCount
  <1> QED BY <1>3, <1>4, <1>5, <1>6 DEF IInv

LEMMA NextIInv == IInv /\ [Next]_vars => IInv'
  <1>1. ASSUME IInv, Next PROVE IInv'
    <2>1. Typed /\ Owned /\ Found /\ Counted /\ Shape /\ failures' \in 0 .. MaxFailures
      BY <1>1, NextShape DEF IInv
    <2>2. Counted'
      BY <2>1, LeaseCountStep, ItemCountStep DEF Counted
    <2> QED BY <2>1, <2>2, TypedStep, OwnedStep, FoundStep DEF IInv
  <1>2. ASSUME IInv, UNCHANGED vars PROVE IInv'
    <2>1. UNCHANGED <<execution, attempts, writer, waiting, holder, numbered, counter, expiries,
                      worker, failures, interrupted>>
      BY <1>2 DEF vars, tableVars, poolVars, processVars
    <2>2. Typed'
      <3>1. TableInv'
        BY <1>2, RowsStay DEF IInv, vars
      <3> QED BY <1>2, <2>1, <3>1 DEF IInv, Typed, PoolTyped, ProcessesTyped
    <2>3. Owned' /\ Found'
      BY <1>2, <2>1 DEF IInv, Owned, RunsOwn, RunningHasRunner, Runner, Found, LeasedIsBegun,
                        Begun, LostWasInterrupted, Handling, Numbers, Attempted
    <2>4. Counted'
      BY <1>2, <2>1 DEF IInv, Counted, LeaseCount, ItemCount, Handling, Unstarted, WaitingFor,
                        Numbers, Attempted
    <2> QED BY <2>2, <2>3, <2>4 DEF IInv
  <1> QED BY <1>1, <1>2

LEMMA Invariant == Spec => []IInv
  BY InitIInv, NextIInv, PTL DEF Spec

(* Types, with the bounds on attempts and failures. *)
THEOREM SystemTyped == Spec => []TypeOK
  <1>1. IInv => TypeOK
    BY TypedImplies DEF IInv
  <1> QED BY <1>1, Invariant, PTL

(* An enqueued execution waits, is in hand, has an attempt, or was         *)
(* interrupted between its claim and create_attempt.                       *)
THEOREM NothingLostInSilence == Spec => []LostWasInterrupted
  <1>1. IInv => LostWasInterrupted
    BY DEF IInv, Found
  <1> QED BY <1>1, Invariant, PTL

(* A running attempt whose worker did not fail during it is being run.     *)
THEOREM RunningAttemptsRun == Spec => []RunningHasRunner
  <1>1. IInv => RunningHasRunner
    BY DEF IInv, Owned
  <1> QED BY <1>1, Invariant, PTL

(* finish_attempt of an attempt is called by one process only. *)
THEOREM AttemptsHaveOneRunner == Spec => []OneRunnerPerAttempt
  <1>1. IInv => OneRunnerPerAttempt
    BY OwnedImplies DEF IInv
  <1> QED BY <1>1, Invariant, PTL

(* Workers in one execution multiply with leases that run out, attempts    *)
(* with items, and with nothing else.                                      *)
THEOREM WorkIsBounded == Spec => []WorkBounded
  <1>1. IInv => WorkBounded
    BY CountedImplies DEF IInv
  <1> QED BY <1>1, Invariant, PTL

-----------------------------------------------------------------------------
(* The composition keeps to its parts: nothing the scheduler or a worker   *)
(* does to the pool or to the tables goes past their interfaces.           *)
LEMMA TableSteps ==
    ASSUME Typed, Shape
    PROVE  [TableNext]_tableVars
  <1>1. CASE Outside
    BY <1>1 DEF Outside, Schedule, Enqueue, ExpireLease, ExpireCounter, Discard, TableNext
  <1>2. ASSUME NEW w \in Workers, EndAttempt(w)
        PROVE  TableNext
    BY <1>2, FinishRows DEF EndAttempt, TableNext
  <1>3. ASSUME NEW w \in Workers, At(w, "begin"), AddAttempt(w)
        PROVE  TableNext
    <2> DEFINE e == worker[w].execution_id
               hint == worker[w].attempt_no
    <2>1. e \in Executions /\ NextNumber(e, hint) \in AttemptNos /\ CreateAttempt(e, hint, w)
      BY <1>3, BeginRows DEF Number, AddAttempt
    <2>2. PICK n \in AttemptNos : n = NextNumber(e, hint)
      BY <2>1
    <2>3. hint \in Nat
      BY <1>3 DEF Typed, ProcessesTyped, At, Runtime!At, Runtime!Process, Runtime!Executing
    <2> HIDE DEF e, hint
    <2>4. Newest(e) \in Nat
      BY <2>1, CountIsNewest DEF Typed
    <2>5. NextNumber(e, n) = n
      BY <2>2, <2>3, <2>4, MaxAttemptsAssumption DEF NextNumber, Greatest, AttemptNos
    <2>6. CreateAttempt(e, n, w)
      BY <2>1, <2>2, <2>5 DEF CreateAttempt
    <2> QED BY <2>1, <2>6 DEF TableNext
  <1> QED BY <1>1, <1>2, <1>3 DEF Shape, WorkerShape, Idles, Advances, GivesUp, Finishes, Begins, Claims

LEMMA PoolSteps ==
    ASSUME Typed, Shape
    PROVE  [Pool!Next]_(Pool!poolVars)
  <1> USE DEF Pool!poolVars
  <1>0. waiting \subseteq Pool!Items
    BY DEF Typed, PoolTyped
  <1>1. ASSUME NEW e \in Executions, Enqueue(e)
        PROVE  Pool!Next
    <2> DEFINE it == [execution_id |-> e, selected_worker_id |-> NoWorker, no |-> numbered[e] + 1]
    <2>1. numbered[e] + 1 \in 1 .. MaxEnqueues
      BY <1>1, BoundsAssumption DEF Typed, PoolTyped, Enqueue
    <2>2. it \in Pool!Items
      BY <2>1 DEF Pool!Items
    <2>3. Pool!Submit(it)
      BY <1>1 DEF Enqueue
    <2> QED BY <2>2, <2>3 DEF Pool!Next
  <1>2. ASSUME NEW e \in Executions, ExpireLease(e)
        PROVE  Pool!Next
    BY <1>2 DEF ExpireLease, Pool!Next
  <1>3. ASSUME NEW w \in Workers, NEW it \in waiting, TakeItem(w, it)
        PROVE  Pool!Next
    BY <1>0, <1>3 DEF TakeItem, Pool!Next
  <1>4. ASSUME NEW w \in Workers, NEW it \in waiting, Discard(w, it)
        PROVE  Pool!Next
    BY <1>0, <1>4 DEF Discard, Pool!Next
  <1>5. ASSUME NEW e \in Executions, Schedule(e) \/ ExpireCounter(e)
        PROVE  UNCHANGED <<waiting, holder, numbered>>
    BY <1>5 DEF Schedule, ExpireCounter, poolVars
  <1> QED BY <1>1, <1>2, <1>3, <1>4, <1>5
          DEF Shape, Outside, WorkerShape, Idles, Advances, GivesUp, Finishes, Begins, Claims, poolVars

(* create_execution, create_attempt and finish_attempt as the system calls *)
(* them are the calls whose transactions StoreTransactions looks into.     *)
THEOREM SystemKeepsTables == Spec => TableSpec
  <1>1. Init => TableInit
    BY DEF Init
  <1>2. IInv /\ [Next]_vars => [TableNext]_tableVars
    BY NextShape, TableSteps DEF IInv, vars, tableVars
  <1> QED BY Invariant, <1>1, <1>2, PTL DEF Spec, TableSpec

(* Items and leases as the system treats them behave as DispatchQueue's    *)
(* lists and scripts do.                                                   *)
THEOREM SystemKeepsPool == Spec => Pool!Spec
  <1>1. Init => Pool!Init
    BY DEF Init
  <1>2. IInv /\ [Next]_vars => [Pool!Next]_(Pool!poolVars)
    BY NextShape, PoolSteps DEF IInv, vars, poolVars, Pool!poolVars
  <1> QED BY Invariant, <1>1, <1>2, PTL DEF Spec, Pool!Spec

(* Whatever workers, leases, counters and failures do, an execution's row  *)
(* shows the newest attempt's number and worker and the status of the      *)
(* attempt that wrote it last ...                                          *)
THEOREM SystemTablesAgree == Spec => []TablesAgree
  <1>1. IInv => TablesAgree
    BY TableInvImplies DEF IInv, Typed, TablesAgree
  <1> QED BY <1>1, Invariant, PTL

(* ... and no attempt takes the number of another, whatever number the     *)
(* lease gave it.                                                          *)
THEOREM SystemAppendsAttempts == Spec => AttemptsAppended
  <1>1. IInv /\ [Next]_vars => [Appended]_tableVars
    <2> SUFFICES ASSUME IInv, [Next]_vars PROVE Appended
      OBVIOUS
    <2>1. [TableNext]_tableVars
      BY NextShape, TableSteps DEF IInv, vars, tableVars
    <2> QED BY <2>1, TableStepInv DEF IInv, Typed
  <1>2. Spec => [][Appended]_tableVars
    BY Invariant, <1>1, PTL DEF Spec
  <1> QED BY <1>2 DEF AttemptsAppended, Appended

(* When a worker calls finish_attempt, the attempt it names is there, is   *)
(* its own and is running: the call, which looks at nothing, overwrites no *)
(* outcome.                                                                *)
FinishesItsOwn ==
    \A w \in Workers :
        At(w, "finish") =>
            attempts[worker[w].execution_id][worker[w].attempt_no]
              = [worker_id |-> w, status |-> "running"]

LEMMA OwnedFinishes == Typed /\ Owned => FinishesItsOwn
  <1> SUFFICES ASSUME Typed, Owned, NEW w \in Workers, At(w, "finish")
               PROVE  attempts[worker[w].execution_id][worker[w].attempt_no]
                        = [worker_id |-> w, status |-> "running"]
    BY DEF FinishesItsOwn
  <1>0. worker[w].at = "finish"
    BY DEF At, Runtime!At
  <1>1. worker[w].execution_id \in Executions /\ worker[w].attempt_no \in AttemptNos
    BY <1>0 DEF Typed, ProcessesTyped, Executing, Runtime!Executing
  <1>2. Runner(w, worker[w].execution_id, worker[w].attempt_no)
    BY <1>0 DEF Runner
  <1> QED BY <1>1, <1>2 DEF Owned, RunsOwn

THEOREM FinishesAreOwn == Spec => []FinishesItsOwn
  <1>1. IInv => FinishesItsOwn
    BY OwnedFinishes DEF IInv
  <1> QED BY <1>1, Invariant, PTL

(* An attempt that has ended stays as it ended. *)
OutcomesStay ==
    [][\A e \in Executions, n \in AttemptNos :
         attempts[e][n].status \in Outcomes => attempts'[e][n] = attempts[e][n]]_vars

LEMMA OneRow ==
    ASSUME attempts \in [Executions -> [AttemptNos -> Attempt \cup {NoAttempt}]],
           NEW d \in Executions, NEW m \in AttemptNos, NEW row,
           attempts' = [attempts EXCEPT ![d][m] = row],
           NEW e \in Executions, NEW n \in AttemptNos, attempts'[e][n] # attempts[e][n]
    PROVE  e = d /\ n = m
  OBVIOUS

THEOREM OutcomesAreFinal == Spec => OutcomesStay
  <1> DEFINE Stays(e, n) == attempts[e][n].status \in Outcomes => attempts'[e][n] = attempts[e][n]
  <1>1. ASSUME IInv, [Next]_vars, NEW e \in Executions, NEW n \in AttemptNos
        PROVE  Stays(e, n)
    <2>0. Typed
      BY <1>1 DEF IInv
    <2> SUFFICES ASSUME attempts[e][n].status \in Outcomes /\ attempts'[e][n] # attempts[e][n]
                 PROVE  FALSE
      OBVIOUS
    <2>moved. attempts[e][n].status \in Outcomes /\ attempts'[e][n] # attempts[e][n]
      OBVIOUS
    <2>1. Shape
      BY <1>1, <2>0, NextShape DEF vars, tableVars
    <2>2. ~Outside
      BY <2>0, OutsideRows
    <2>3. PICK w \in Workers : EndAttempt(w) \/ (At(w, "begin") /\ AddAttempt(w))
      BY <2>1, <2>2 DEF Shape, WorkerShape, Idles, Advances, GivesUp, Finishes, Begins, Claims, tableVars
    <2>4. CASE EndAttempt(w)
      <3>1. PICK d \in Executions, m \in AttemptNos :
              /\ attempts \in [Executions -> [AttemptNos -> Attempt \cup {NoAttempt}]]
              /\ attempts' = [attempts EXCEPT ![d][m].status = worker[w].outcome]
              /\ attempts[d][m].status = "running"
        BY <2>0, <2>4, FinishRows DEF EndAttempt, FinishAttempt
      <3>2. e = d /\ n = m
        BY <2>moved, <3>1, OneRow
      <3> QED BY <2>moved, <3>1, <3>2 DEF Outcomes
    <2>5. CASE At(w, "begin") /\ AddAttempt(w)
      <3>1. PICK d \in Executions, m \in AttemptNos :
              /\ attempts \in [Executions -> [AttemptNos -> Attempt \cup {NoAttempt}]]
              /\ attempts' = [attempts EXCEPT ![d][m] = [worker_id |-> w, status |-> "running"]]
              /\ attempts[d][m] = NoAttempt
        BY <2>0, <2>5, BeginRows
      <3>2. e = d /\ n = m
        BY <2>moved, <3>1, OneRow
      <3> QED BY <2>moved, <3>1, <3>2 DEF NoAttempt, Outcomes
    <2> QED BY <2>3, <2>4, <2>5
  <1>2. IInv /\ [Next]_vars => [\A e \in Executions, n \in AttemptNos : Stays(e, n)]_vars
    BY <1>1
  <1>3. Spec => [][\A e \in Executions, n \in AttemptNos : Stays(e, n)]_vars
    BY Invariant, <1>2, PTL DEF Spec
  <1> QED BY <1>3 DEF OutcomesStay
===============================================================================
