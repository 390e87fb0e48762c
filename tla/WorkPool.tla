------------------------------- MODULE WorkPool -------------------------------
(***************************************************************************)
(* What dispatching promises, without lists, scripts or counters: a pool   *)
(* of work items, from which an item leaves in one of two ways.  It is     *)
(* handed to a worker that is entitled to it, which then holds the item's  *)
(* execution; or it is discarded while somebody holds that execution.  No  *)
(* execution has two holders at a time.                                    *)
(***************************************************************************)
EXTENDS Naturals

CONSTANTS Workers, NoWorker, Executions, MaxEnqueues,
          Entitled(_, _)    \* Entitled(w, it): the worker may be given the item

VARIABLES
    waiting,    \* the items in the pool
    holder,     \* the worker an execution is leased to, or NoWorker
    numbered    \* items of an execution submitted so far

poolVars == <<waiting, holder, numbered>>

Items == [execution_id: Executions,
          selected_worker_id: Workers \cup {NoWorker},
          no: 1 .. MaxEnqueues]

Init ==
    /\ waiting = {}
    /\ holder = [e \in Executions |-> NoWorker]
    /\ numbered = [e \in Executions |-> 0]

Submit(it) ==
    /\ it.no = numbered[it.execution_id] + 1
    /\ waiting' = waiting \cup {it}
    /\ numbered' = [numbered EXCEPT ![it.execution_id] = it.no]
    /\ UNCHANGED holder

Take(w, it) ==
    /\ it \in waiting
    /\ Entitled(w, it)
    /\ holder[it.execution_id] = NoWorker
    /\ waiting' = waiting \ {it}
    /\ holder' = [holder EXCEPT ![it.execution_id] = w]
    /\ UNCHANGED numbered

MutantDiscard(it) ==
    /\ it \in waiting
    /\ waiting' = waiting \ {it}
    /\ UNCHANGED <<holder, numbered>>

Discard(it) ==
    /\ it \in waiting
    /\ holder[it.execution_id] # NoWorker
    /\ waiting' = waiting \ {it}
    /\ UNCHANGED <<holder, numbered>>

Release(e) ==
    /\ holder[e] # NoWorker
    /\ holder' = [holder EXCEPT ![e] = NoWorker]
    /\ UNCHANGED <<waiting, numbered>>

Next ==
    \/ \E it \in Items : Submit(it) \/ Discard(it)
    \/ \E w \in Workers, it \in Items : Take(w, it)
    \/ \E e \in Executions : Release(e)

Spec == Init /\ [][Next]_poolVars
===============================================================================
