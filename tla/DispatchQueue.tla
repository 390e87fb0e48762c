---------------------------- MODULE DispatchQueue ----------------------------
(***************************************************************************)
(* The Redis side of dispatching: the shared queue and one direct queue    *)
(* per worker (Redis lists), the lease keys, the attempt counters, RPUSH   *)
(* (enqueue) and the Lua script that claims an item for a worker.          *)
(*                                                                         *)
(* Redis runs a script to its end before any other command, and keys do    *)
(* not expire while it runs.  The script is modelled one loop iteration at *)
(* a time; every other action waits for it (Idle).                         *)
(***************************************************************************)
EXTENDS LabelSelector, FiniteSets

CONSTANTS
    Workers,          \* worker ids
    NoWorker,         \* "None": no selected worker, no lease holder
    Executions,       \* execution ids
    WorkerLabels,     \* the labels a worker passes with its claims
    JobSelector,      \* the label selector of an execution's job
    PushTargets,      \* the selected workers callers pass to enqueue
    MaxEnqueues       \* bound: RPUSHes of one execution

ASSUME NoWorkerAssumption == NoWorker \notin Workers
ASSUME PushTargetsAssumption == PushTargets \subseteq Workers \cup {NoWorker}
ASSUME MaxEnqueuesAssumption == MaxEnqueues \in Nat

VARIABLES
    queue,      \* the lists: queue[w] is queue:worker:<w>, queue[NoWorker] is queue:shared
    lease,      \* lease:<execution>, NoLease when the key is absent
    attempt,    \* attempt:<execution>, 0 when the key is absent
    script,     \* the running claim script, Quiet between scripts
    enqueued,   \* history: RPUSHes of an execution
    claims,     \* history: the leases handed out, with the item each one used up
    dropped,    \* history: items removed because their execution was leased
    forgotten   \* history: how often an execution's attempt counter ran out

vars == <<queue, lease, attempt, script, enqueued, claims, dropped, forgotten>>
keys == <<queue, lease, attempt, script>>

Lists == Workers \cup {NoWorker}

(* A queued item.  Its label selector is its job's; "no" tells apart items *)
(* of one execution, which are equal byte for byte.                        *)
Item == [execution_id: Executions, selected_worker_id: Lists, no: 1 .. MaxEnqueues]

NoLease == [worker_id |-> NoWorker, attempt_no |-> 0]
Lease == [worker_id: Workers, attempt_no: Nat \ {0}]

Quiet == [worker |-> NoWorker, list |-> NoWorker, left |-> 0]

(* "life" tells how often the counter had run out before the claim. *)
Claim == [item: Item, worker_id: Workers, attempt_no: Nat \ {0}, life: Nat]

Idle == script = Quiet

(* What selector_matches says of an execution's item for a worker. *)
Verdict(w, e) == SelectorMatches(WorkerLabels[w], JobSelector[e])

Leased(e) == lease[e] # NoLease

(* The list the loop works on, and the item LINDEX 0 reads from it. *)
Current == queue[script.list]
HeadItem == Head(Current)
HeadVerdict == Verdict(script.worker, HeadItem.execution_id)

Init ==
    /\ queue = [q \in Lists |-> <<>>]
    /\ lease = [e \in Executions |-> NoLease]
    /\ attempt = [e \in Executions |-> 0]
    /\ script = Quiet
    /\ enqueued = [e \in Executions |-> 0]
    /\ claims = {}
    /\ dropped = {}
    /\ forgotten = [e \in Executions |-> 0]

-----------------------------------------------------------------------------
(* enqueue: one RPUSH, to the direct queue of the selected worker or to    *)
(* the shared queue.                                                       *)
Enqueue(e, q) ==
    /\ Idle
    /\ enqueued[e] < MaxEnqueues
    /\ enqueued' = [enqueued EXCEPT ![e] = @ + 1]
    /\ queue' = [queue EXCEPT ![q] =
                   Append(@, [execution_id |-> e,
                              selected_worker_id |-> q,
                              no |-> enqueued[e] + 1])]
    /\ UNCHANGED <<lease, attempt, script, claims, dropped, forgotten>>

(* The loop runs over as many items as the list holds when it starts. *)
MutantLoopLength(q) == IF queue[q] = <<>> THEN 0 ELSE Len(queue[q]) - 1
LoopLength(q) == Len(queue[q])

(* claim_for_worker: the script starts on the worker's direct queue. *)
BeginClaim(w) ==
    /\ Idle
    /\ script' = [worker |-> w, list |-> w, left |-> LoopLength(w)]
    /\ UNCHANGED <<queue, lease, attempt, enqueued, claims, dropped, forgotten>>

AtItem == ~Idle /\ script.left > 0

(* A selector the script cannot read: it returns an error and leaves the   *)
(* item at the head.  Items rotated or dropped before stay so.             *)
RejectHead ==
    /\ AtItem
    /\ HeadVerdict = "invalid"
    /\ script' = Quiet
    /\ UNCHANGED <<queue, lease, attempt, enqueued, claims, dropped, forgotten>>

(* An item for other workers goes to the end of the list. *)
MutantRotatedLost(list) == Tail(list)
Rotated(list) == Append(Tail(list), Head(list))

RotateHead ==
    /\ AtItem
    /\ HeadVerdict = "mismatch"
    /\ queue' = [queue EXCEPT ![script.list] = Rotated(@)]
    /\ script' = [script EXCEPT !.left = @ - 1]
    /\ UNCHANGED <<lease, attempt, enqueued, claims, dropped, forgotten>>

(* SET NX sets the lease when the key is absent and fails on a live one. *)
MutantLeaseSet(e) == TRUE
LeaseSet(e) == ~Leased(e)

(* The lease is live: the item is removed and the loop goes on. *)
DropHead ==
    /\ AtItem
    /\ HeadVerdict = "match"
    /\ ~LeaseSet(HeadItem.execution_id)
    /\ queue' = [queue EXCEPT ![script.list] = Tail(@)]
    /\ script' = [script EXCEPT !.left = @ - 1]
    /\ dropped' = dropped \cup {HeadItem}
    /\ UNCHANGED <<lease, attempt, enqueued, claims, forgotten>>

MutantNextAttempt(e) == attempt[e]
NextAttempt(e) == attempt[e] + 1

(* The lease is set: the item is removed, the counter stored, the lease    *)
(* returned.                                                               *)
LeaseHead ==
    LET e == HeadItem.execution_id
        attempt_no == NextAttempt(e)
    IN  /\ AtItem
        /\ HeadVerdict = "match"
        /\ LeaseSet(e)
        /\ lease' = [lease EXCEPT ![e] = [worker_id |-> script.worker,
                                          attempt_no |-> attempt_no]]
        /\ attempt' = [attempt EXCEPT ![e] = attempt_no]
        /\ queue' = [queue EXCEPT ![script.list] = Tail(@)]
        /\ claims' = claims \cup {[item |-> HeadItem,
                                   worker_id |-> script.worker,
                                   attempt_no |-> attempt_no,
                                   life |-> forgotten[e]]}
        /\ script' = Quiet
        /\ UNCHANGED <<enqueued, dropped, forgotten>>

AtEnd == ~Idle /\ script.left = 0

(* Nothing in the direct queue: the script goes on to the shared queue. *)
MutantNextList ==
    /\ AtEnd
    /\ script.list # NoWorker
    /\ script' = Quiet
    /\ UNCHANGED <<queue, lease, attempt, enqueued, claims, dropped, forgotten>>

NextList ==
    /\ AtEnd
    /\ script.list # NoWorker
    /\ script' = [script EXCEPT !.list = NoWorker, !.left = LoopLength(NoWorker)]
    /\ UNCHANGED <<queue, lease, attempt, enqueued, claims, dropped, forgotten>>

(* Nothing in the shared queue either: the script returns nil. *)
ReturnNil ==
    /\ AtEnd
    /\ script.list = NoWorker
    /\ script' = Quiet
    /\ UNCHANGED <<queue, lease, attempt, enqueued, claims, dropped, forgotten>>

(* The lease's TTL runs out.  Nothing renews or deletes a lease. *)
ExpireLease(e) ==
    /\ Idle
    /\ Leased(e)
    /\ lease' = [lease EXCEPT ![e] = NoLease]
    /\ UNCHANGED <<queue, attempt, script, enqueued, claims, dropped, forgotten>>

(* The counter's TTL is set with the lease's and is 30 times as long, a    *)
(* day at least: the counter outlives the lease.                           *)
MutantOutlived(e) == TRUE
Outlived(e) == ~Leased(e)

(* The counter's TTL runs out. *)
ExpireAttempt(e) ==
    /\ Idle
    /\ attempt[e] > 0
    /\ Outlived(e)
    /\ attempt' = [attempt EXCEPT ![e] = 0]
    /\ forgotten' = [forgotten EXCEPT ![e] = @ + 1]
    /\ UNCHANGED <<queue, lease, script, enqueued, claims, dropped>>

ScriptStep ==
    \/ RejectHead
    \/ RotateHead
    \/ DropHead
    \/ LeaseHead
    \/ NextList
    \/ ReturnNil

Next ==
    \/ \E e \in Executions, q \in PushTargets : Enqueue(e, q)
    \/ \E w \in Workers : BeginClaim(w)
    \/ ScriptStep
    \/ \E e \in Executions : ExpireLease(e) \/ ExpireAttempt(e)

Spec == Init /\ [][Next]_vars

(* Redis finishes a script; a worker's call is served however many others  *)
(* are in line with it; a lease that is never renewed runs out.            *)
Fairness ==
    /\ WF_vars(ScriptStep)
    /\ \A w \in Workers : SF_vars(BeginClaim(w))
    /\ \A e \in Executions : SF_vars(ExpireLease(e))

FairSpec == Spec /\ Fairness

-----------------------------------------------------------------------------
(* What the queues hold and what has left them. *)
ItemsIn(lists) ==
    {it \in Item : \E q \in Lists : \E i \in DOMAIN lists[q] : lists[q][i] = it}

OnePlace(lists) ==
    \A q, r \in Lists : \A i \in DOMAIN lists[q], j \in DOMAIN lists[r] :
        lists[q][i] = lists[r][j] => q = r /\ i = j

Waiting == ItemsIn(queue)

Served == {c.item : c \in claims}

(* A worker has every label an execution's selector asks for. *)
HasLabels(w, e) ==
    \A i \in DOMAIN JobSelector[e] :
        /\ JobSelector[e][i] # Malformed
        /\ JobSelector[e][i] \in WorkerLabels[w]

(* The worker may be given the item: it is on the shared queue or on the   *)
(* worker's own, and the worker has the labels.                            *)
Entitled(w, it) ==
    /\ it.selected_worker_id \in {NoWorker, w}
    /\ HasLabels(w, it.execution_id)

(* Types.  "left" within the list is what keeps LINDEX 0 from finding an   *)
(* empty list inside the loop: the branch for it cannot be taken.          *)
TypeOK ==
    /\ queue \in [Lists -> Seq(Item)]
    /\ lease \in [Executions -> Lease \cup {NoLease}]
    /\ attempt \in [Executions -> Nat]
    /\ script \in [worker: Lists, list: Lists, left: Nat]
    /\ script.left <= Len(queue[script.list])
    /\ script.worker = NoWorker => Idle
    /\ script.list \in {script.worker, NoWorker}
    /\ enqueued \in [Executions -> 0 .. MaxEnqueues]
    /\ claims \subseteq Claim
    /\ dropped \subseteq Item
    /\ forgotten \in [Executions -> Nat]

(* Whatever was pushed is still in a list, was handed out, or was dropped  *)
(* as a duplicate: neither a rotation nor a script that stops on an error  *)
(* half way loses an item.                                                 *)
NothingLost ==
    \A e \in Executions : \A n \in 1 .. enqueued[e] :
        \E it \in Waiting \cup Served \cup dropped :
            it.execution_id = e /\ it.no = n

(* An item stands at one place of one list, is handed out at most once,    *)
(* and neither waits nor counts as dropped once it was handed out: the     *)
(* script never multiplies work.                                           *)
NothingDuplicated ==
    /\ OnePlace(queue)
    /\ \A c, d \in claims : c.item = d.item => c = d
    /\ Waiting \cap Served = {}
    /\ Waiting \cap dropped = {}
    /\ Served \cap dropped = {}

(* An item is dropped only when its execution has been handed to a worker: *)
(* an execution that was enqueued waits in a list or has been served, so   *)
(* dropping duplicates never drops the execution itself.                   *)
DroppedWasServed ==
    \A it \in dropped : \E c \in claims : c.item.execution_id = it.execution_id

(* The three together: the queue conserves work. *)
Conserved == NothingLost /\ NothingDuplicated /\ DroppedWasServed

(* A lease is only ever given to a worker the item is meant for: nobody    *)
(* else's direct queue is read, no label of the selector is overlooked,    *)
(* and no unreadable selector lets a worker through.                       *)
ServedToEntitled == \A c \in claims : Entitled(c.worker_id, c.item)

(* As long as its counter lives, the claims of an execution are numbered   *)
(* 1, 2, 3, ... without a gap or a repetition, and a live lease is the     *)
(* latest of them: the counter never runs out under a lease.  Nothing more *)
(* holds: a lease is not renewed while its attempt runs, and once the      *)
(* counter has run out the next claim is number 1 again, whatever still    *)
(* runs.  Whoever stores an attempt must not take its number from a claim. *)
ClaimsOf(e) == {c \in claims : c.item.execution_id = e}
ClaimsNow(e) == {c \in ClaimsOf(e) : c.life = forgotten[e]}

ClaimsNumbered ==
    \A e \in Executions :
        /\ \A c, d \in ClaimsOf(e) :
              c.life = d.life /\ c.attempt_no = d.attempt_no => c = d
        /\ {c.attempt_no : c \in ClaimsNow(e)} = 1 .. attempt[e]
        /\ Leased(e) =>
              \E c \in ClaimsNow(e) :
                  /\ c.worker_id = lease[e].worker_id
                  /\ c.attempt_no = lease[e].attempt_no
                  /\ c.attempt_no = attempt[e]

(* The script answers nil only when neither list it read holds an item the *)
(* worker has the labels for: one pass over as many items as the list held *)
(* misses nothing, although items rotate and drop under it.                *)
NothingForWorker(w, q) ==
    \A i \in DOMAIN queue[q] : ~HasLabels(w, queue[q][i].execution_id)

NilMeansNothing ==
    [][ReturnNil => /\ NothingForWorker(script.worker, script.worker)
                    /\ NothingForWorker(script.worker, NoWorker)]_vars

(* An item a worker may be given leaves its list, handed out or dropped as *)
(* a duplicate, unless an item is in the way that this worker's scripts    *)
(* stop at: one whose selector they read up to a malformed part.  Workers  *)
(* that meet a mismatch before the malformed part are not held up.         *)
EntitledItemLeaves ==
    \A it \in Item, w \in Workers :
        (it \in Waiting /\ Entitled(w, it)) ~>
            \/ it \notin Waiting
            \/ \E other \in Waiting : Verdict(w, other.execution_id) = "invalid"

-----------------------------------------------------------------------------
(* The lists and the script implement an unordered pool of items. *)
Pool == INSTANCE WorkPool WITH
    waiting <- Waiting,
    holder <- [e \in Executions |-> lease[e].worker_id],
    numbered <- enqueued

RefinesWorkPool == Pool!Spec
=============================================================================
