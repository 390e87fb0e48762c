------------------------ MODULE DispatchQueue_proofs ------------------------
(* Proofs about DispatchQueue: for every set of workers and executions,    *)
(* every labelling and selector, and every bound on enqueues.              *)
EXTENDS DispatchQueue, SequenceTheorems, TLAPS

-----------------------------------------------------------------------------
(* The lists after an RPUSH, an LPOP, and an LPOP and RPUSH of the head. *)
PushedTo(lists, l, it) == [lists EXCEPT ![l] = Append(@, it)]
PoppedFrom(lists, l) == [lists EXCEPT ![l] = Tail(@)]
TurnedIn(lists, l) == [lists EXCEPT ![l] = Rotated(@)]

LEMMA PushItems ==
    ASSUME NEW lists \in [Lists -> Seq(Item)], NEW l \in Lists, NEW it \in Item
    PROVE  LET pushed == PushedTo(lists, l, it)
           IN  /\ pushed \in [Lists -> Seq(Item)]
               /\ ItemsIn(pushed) = ItemsIn(lists) \cup {it}
               /\ OnePlace(lists) /\ it \notin ItemsIn(lists) => OnePlace(pushed)
  <1> DEFINE n == Len(lists[l]) + 1
             pushed == PushedTo(lists, l, it)
  <1>1. /\ pushed \in [Lists -> Seq(Item)]
        /\ \A q \in Lists : q # l => pushed[q] = lists[q]
        /\ Len(pushed[l]) = n /\ n \in Nat /\ DOMAIN pushed[l] = 1 .. n
        /\ n \in DOMAIN pushed[l]
        /\ DOMAIN lists[l] = 1 .. (n - 1)
        /\ pushed[l][n] = it
        /\ \A i \in DOMAIN lists[l] : i \in DOMAIN pushed[l] /\ i # n /\ pushed[l][i] = lists[l][i]
        /\ \A i \in DOMAIN pushed[l] : i # n => i \in DOMAIN lists[l]
    BY AppendProperties, LenProperties DEF PushedTo
  <1> HIDE DEF n, pushed
  <1>2. ItemsIn(pushed) = ItemsIn(lists) \cup {it}
    <2>1. ASSUME NEW x \in ItemsIn(pushed) PROVE x \in ItemsIn(lists) \cup {it}
      BY <1>1, <2>1 DEF ItemsIn
    <2>2. ASSUME NEW x \in ItemsIn(lists) PROVE x \in ItemsIn(pushed)
      BY <1>1, <2>2 DEF ItemsIn
    <2>3. it \in ItemsIn(pushed)
      BY <1>1 DEF ItemsIn
    <2> QED BY <2>1, <2>2, <2>3
  <1>3. ASSUME OnePlace(lists), it \notin ItemsIn(lists) PROVE OnePlace(pushed)
    <2>1. \A q \in Lists : \A i \in DOMAIN lists[q] : lists[q][i] # it
      BY <1>3 DEF ItemsIn
    <2>2. SUFFICES ASSUME NEW q \in Lists, NEW r \in Lists,
                          NEW i \in DOMAIN pushed[q], NEW j \in DOMAIN pushed[r],
                          pushed[q][i] = pushed[r][j]
                   PROVE  q = r /\ i = j
      BY DEF OnePlace
    <2>3. CASE q = l /\ i = n
      BY <1>1, <2>1, <2>2, <2>3
    <2>4. CASE r = l /\ j = n
      BY <1>1, <2>1, <2>2, <2>4
    <2>5. CASE ~(q = l /\ i = n) /\ ~(r = l /\ j = n)
      <3>1. i \in DOMAIN lists[q] /\ lists[q][i] = pushed[q][i]
        BY <1>1, <2>5
      <3>2. j \in DOMAIN lists[r] /\ lists[r][j] = pushed[r][j]
        BY <1>1, <2>5
      <3> QED BY <1>3, <2>2, <3>1, <3>2 DEF OnePlace
    <2> QED BY <2>3, <2>4, <2>5
  <1> QED BY <1>1, <1>2, <1>3 DEF pushed

LEMMA PopItems ==
    ASSUME NEW lists \in [Lists -> Seq(Item)], NEW l \in Lists, lists[l] # <<>>,
           OnePlace(lists)
    PROVE  LET popped == PoppedFrom(lists, l)
           IN  /\ popped \in [Lists -> Seq(Item)]
               /\ ItemsIn(popped) = ItemsIn(lists) \ {Head(lists[l])}
               /\ OnePlace(popped)
               /\ Head(lists[l]) \in ItemsIn(lists)
  <1> DEFINE n == Len(lists[l])
             popped == PoppedFrom(lists, l)
  <1>1. /\ popped \in [Lists -> Seq(Item)]
        /\ \A q \in Lists : q # l => popped[q] = lists[q]
        /\ n \in Nat /\ DOMAIN lists[l] = 1 .. n /\ 1 \in DOMAIN lists[l]
        /\ lists[l][1] = Head(lists[l]) /\ lists[l][1] \in Item
        /\ DOMAIN popped[l] = 1 .. (n - 1)
        /\ \A i \in DOMAIN popped[l] : i + 1 \in DOMAIN lists[l] /\ popped[l][i] = lists[l][i + 1]
        /\ \A i \in DOMAIN lists[l] : i # 1 => i - 1 \in DOMAIN popped[l] /\ popped[l][i - 1] = lists[l][i]
    BY HeadTailProperties, LenProperties, ElementOfSeq DEF PoppedFrom
  <1> HIDE DEF n, popped
  <1>2. ASSUME NEW x \in ItemsIn(popped) PROVE x \in ItemsIn(lists) /\ x # Head(lists[l])
    <2>1. PICK q \in Lists : \E i \in DOMAIN popped[q] : popped[q][i] = x
      BY <1>2 DEF ItemsIn
    <2>2. PICK i \in DOMAIN popped[q] : popped[q][i] = x
      BY <2>1
    <2>3. CASE q = l
      BY <1>1, <1>2, <2>2, <2>3, i + 1 # 1 DEF ItemsIn, OnePlace
    <2>4. CASE q # l
      BY <1>1, <1>2, <2>2, <2>4 DEF ItemsIn, OnePlace
    <2> QED BY <2>3, <2>4
  <1>3. ASSUME NEW x \in ItemsIn(lists), x # Head(lists[l]) PROVE x \in ItemsIn(popped)
    <2>1. x \in Item /\ \E q \in Lists : \E i \in DOMAIN lists[q] : lists[q][i] = x
      BY <1>3 DEF ItemsIn
    <2>2. PICK q \in Lists : \E i \in DOMAIN lists[q] : lists[q][i] = x
      BY <2>1
    <2>3. PICK i \in DOMAIN lists[q] : lists[q][i] = x
      BY <2>2
    <2>4. \E j \in DOMAIN popped[q] : popped[q][j] = x
      <3>1. CASE q = l
        <4>1. i # 1
          BY <1>1, <1>3, <2>3, <3>1
        <4> QED BY <1>1, <2>3, <3>1, <4>1
      <3>2. CASE q # l
        BY <1>1, <2>3, <3>2
      <3> QED BY <3>1, <3>2
    <2> QED BY <2>1, <2>4 DEF ItemsIn
  <1>4. Head(lists[l]) \in ItemsIn(lists)
    BY <1>1 DEF ItemsIn
  <1>5. OnePlace(popped)
    <2>1. SUFFICES ASSUME NEW q \in Lists, NEW r \in Lists,
                          NEW i \in DOMAIN popped[q], NEW j \in DOMAIN popped[r],
                          popped[q][i] = popped[r][j]
                   PROVE  q = r /\ i = j
      BY DEF OnePlace
    <2> DEFINE at(s, k) == IF s = l THEN k + 1 ELSE k
    <2>2. at(q, i) \in DOMAIN lists[q] /\ lists[q][at(q, i)] = popped[q][i]
      BY <1>1
    <2>3. at(r, j) \in DOMAIN lists[r] /\ lists[r][at(r, j)] = popped[r][j]
      BY <1>1
    <2>4. q = r /\ at(q, i) = at(r, j)
      <3> HIDE DEF at
      <3> QED BY <2>1, <2>2, <2>3 DEF OnePlace
    <2>5. q = l => i \in Nat /\ j \in Nat
      BY <1>1, <2>4
    <2> QED BY <2>4, <2>5
  <1> QED BY <1>1, <1>2, <1>3, <1>4, <1>5 DEF popped

LEMMA RotateItems ==
    ASSUME NEW lists \in [Lists -> Seq(Item)], NEW l \in Lists, lists[l] # <<>>,
           OnePlace(lists)
    PROVE  LET turned == TurnedIn(lists, l)
           IN  /\ turned \in [Lists -> Seq(Item)]
               /\ ItemsIn(turned) = ItemsIn(lists)
               /\ OnePlace(turned)
               /\ Len(turned[l]) = Len(lists[l])
  <1> DEFINE popped == PoppedFrom(lists, l)
             it == Head(lists[l])
  <1>1. /\ popped \in [Lists -> Seq(Item)]
        /\ ItemsIn(popped) = ItemsIn(lists) \ {it}
        /\ OnePlace(popped)
        /\ it \in ItemsIn(lists)
    BY PopItems
  <1>2. it \in Item /\ it \notin ItemsIn(popped)
    BY <1>1 DEF ItemsIn
  <1>3. TurnedIn(lists, l) = PushedTo(popped, l, it)
    BY DEF Rotated, TurnedIn, PushedTo, PoppedFrom
  <1>4. Len(PushedTo(popped, l, it)[l]) = Len(lists[l])
    BY <1>2, HeadTailProperties, AppendProperties, LenProperties DEF PushedTo, PoppedFrom
  <1> HIDE DEF popped, it
  <1>5. /\ PushedTo(popped, l, it) \in [Lists -> Seq(Item)]
        /\ ItemsIn(PushedTo(popped, l, it)) = ItemsIn(popped) \cup {it}
        /\ OnePlace(PushedTo(popped, l, it))
    BY <1>1, <1>2, PushItems
  <1> QED BY <1>1, <1>3, <1>4, <1>5

(* Where the items stand after an LPOP, and after an LPOP and RPUSH. *)
LEMMA PopPlaces ==
    ASSUME NEW lists \in [Lists -> Seq(Item)], NEW l \in Lists, lists[l] # <<>>
    PROVE  LET popped == PoppedFrom(lists, l)
               n == Len(lists[l])
           IN  /\ n \in Nat \ {0}
               /\ Head(lists[l]) = lists[l][1]
               /\ Head(lists[l]) \in Item
               /\ \A q \in Lists : q # l => popped[q] = lists[q]
               /\ Len(popped[l]) = n - 1
               /\ DOMAIN lists[l] = 1 .. n
               /\ DOMAIN popped[l] = 1 .. (n - 1)
               /\ \A i \in 1 .. (n - 1) : popped[l][i] = lists[l][i + 1]
  BY HeadTailProperties, LenProperties, ElementOfSeq DEF PoppedFrom

LEMMA TurnPlaces ==
    ASSUME NEW lists \in [Lists -> Seq(Item)], NEW l \in Lists, lists[l] # <<>>
    PROVE  LET turned == TurnedIn(lists, l)
               n == Len(lists[l])
           IN  /\ n \in Nat \ {0}
               /\ \A q \in Lists : q # l => turned[q] = lists[q]
               /\ Len(turned[l]) = n
               /\ DOMAIN lists[l] = 1 .. n
               /\ DOMAIN turned[l] = 1 .. n
               /\ \A i \in 1 .. (n - 1) : turned[l][i] = lists[l][i + 1]
               /\ turned[l][n] = lists[l][1]
  BY HeadTailProperties, AppendProperties, LenProperties, ElementOfSeq DEF TurnedIn, Rotated

-----------------------------------------------------------------------------
(* The inductive invariant.  It adds to the properties of the              *)
(* specification where an item may stand, that items are numbered in the   *)
(* order of their RPUSHes, and what the script has already passed over.    *)

(* An item waits in the list it was pushed to. *)
AtHome ==
    \A q \in Lists : \A i \in DOMAIN queue[q] : queue[q][i].selected_worker_id = q

Numbered ==
    \A it \in Waiting \cup Served \cup dropped : it.no <= enqueued[it.execution_id]

(* No claim is of a life its counter has not had yet. *)
LivesPast == \A c \in claims : c.life <= forgotten[c.item.execution_id]

(* The items behind the "left" first ones have been rotated there: the     *)
(* worker lacks a label for each.  On the shared queue, the same holds of  *)
(* all that is left in the direct queue.                                   *)
PassedOver ==
    ~Idle =>
        /\ \A i \in DOMAIN Current :
              i > script.left => ~HasLabels(script.worker, Current[i].execution_id)
        /\ script.list = NoWorker => NothingForWorker(script.worker, script.worker)

IInv ==
    /\ TypeOK
    /\ NothingLost
    /\ NothingDuplicated
    /\ DroppedWasServed
    /\ ServedToEntitled
    /\ ClaimsNumbered
    /\ LivesPast
    /\ AtHome
    /\ Numbered
    /\ PassedOver

LEMMA MatchHasLabels ==
    ASSUME NEW w, NEW e, Verdict(w, e) = "match"
    PROVE  HasLabels(w, e)
  BY DEF Verdict, SelectorMatches, PartHolds, HasLabels

LEMMA MismatchLacksLabel ==
    ASSUME NEW w, NEW e, Verdict(w, e) = "mismatch"
    PROVE  ~HasLabels(w, e)
  BY DEF Verdict, SelectorMatches, PartHolds, HasLabels

LEMMA InitInvariant == Init => IInv
  <1> SUFFICES ASSUME Init PROVE IInv
    OBVIOUS
  <1> USE MaxEnqueuesAssumption DEF Init
  <1>1. queue \in [Lists -> Seq(Item)] /\ \A q \in Lists : DOMAIN queue[q] = {} /\ Len(queue[q]) = 0
    BY EmptySeq
  <1>2. Waiting = {} /\ Served = {} /\ Idle
    BY <1>1 DEF Waiting, ItemsIn, Served, Idle
  <1>3. TypeOK
    BY <1>1, <1>2 DEF TypeOK, Lists, NoLease, Quiet
  <1>4. NothingLost /\ NothingDuplicated
    BY <1>1, <1>2 DEF NothingLost, NothingDuplicated, OnePlace
  <1>5. DroppedWasServed /\ ServedToEntitled /\ ClaimsNumbered /\ LivesPast
    BY DEF DroppedWasServed, ServedToEntitled, ClaimsNumbered, LivesPast,
           ClaimsOf, ClaimsNow, Leased
  <1>6. AtHome /\ Numbered /\ PassedOver
    BY <1>1, <1>2 DEF AtHome, Numbered, PassedOver
  <1> QED BY <1>3, <1>4, <1>5, <1>6 DEF IInv

(* At the head of the list the script works on. *)
LEMMA HeadFacts ==
    ASSUME TypeOK, AtItem
    PROVE  /\ script.worker \in Workers
           /\ script.list \in Lists
           /\ script.left \in Nat \ {0}
           /\ Current # <<>>
           /\ HeadItem \in Item
           /\ HeadItem = Current[1]
           /\ 1 \in DOMAIN Current
           /\ HeadItem \in Waiting
  <1>1. /\ script.worker \in Workers
        /\ script.list \in Lists
        /\ script.left \in Nat \ {0}
        /\ script.left <= Len(Current)
        /\ Current \in Seq(Item)
    BY DEF TypeOK, AtItem, Lists, Current
  <1>2. Current # <<>>
    BY <1>1, EmptySeq
  <1>3. /\ HeadItem = Current[1]
        /\ 1 \in DOMAIN Current
        /\ HeadItem \in Item
    BY <1>1, <1>2, HeadTailProperties, ElementOfSeq, LenProperties DEF HeadItem
  <1> QED BY <1>1, <1>2, <1>3 DEF Waiting, ItemsIn, Current

-----------------------------------------------------------------------------
(* One lemma per action. *)

LEMMA ClaimsKept ==
    ASSUME IInv, UNCHANGED <<lease, attempt, claims, forgotten>>
    PROVE  ClaimsNumbered' /\ LivesPast'
  BY DEF IInv, ClaimsNumbered, LivesPast, ClaimsOf, ClaimsNow, Leased

LEMMA EnqueueInvariant ==
    ASSUME IInv, NEW e \in Executions, NEW q \in PushTargets, Enqueue(e, q)
    PROVE  IInv'
  <1> USE MaxEnqueuesAssumption, PushTargetsAssumption
  <1> DEFINE it == [execution_id |-> e, selected_worker_id |-> q, no |-> enqueued[e] + 1]
  <1>1. /\ q \in Lists
        /\ queue \in [Lists -> Seq(Item)]
        /\ enqueued[e] \in 0 .. MaxEnqueues
        /\ Idle /\ Idle'
    BY DEF IInv, TypeOK, Lists, Enqueue, Idle
  <1>2. it \in Item /\ queue' = PushedTo(queue, q, it)
    BY <1>1 DEF Enqueue, Item, PushedTo, Lists
  <1>3. it \notin Waiting /\ it \notin Served /\ it \notin dropped
    BY <1>1 DEF IInv, Numbered
  <1>4. /\ queue' \in [Lists -> Seq(Item)]
        /\ Waiting' = Waiting \cup {it}
        /\ OnePlace(queue')
    <2> HIDE DEF it
    <2> QED BY <1>1, <1>2, <1>3, PushItems DEF Waiting, IInv, NothingDuplicated
  <1>5. Served' = Served
    BY DEF Enqueue, Served
  <1>6. TypeOK'
    <2>1. script' = Quiet /\ Len(queue'[NoWorker]) \in Nat
      BY <1>1, <1>4, LenProperties DEF Enqueue, Idle, Lists
    <2>2. enqueued' \in [Executions -> 0 .. MaxEnqueues]
      BY DEF IInv, TypeOK, Enqueue
    <2> QED BY <1>1, <1>4, <2>1, <2>2 DEF IInv, TypeOK, Enqueue, Quiet, Idle, Lists
  <1>7. NothingLost'
    <2>1. SUFFICES ASSUME NEW f \in Executions, NEW n \in 1 .. enqueued'[f]
                   PROVE  \E x \in Waiting' \cup Served \cup dropped :
                              x.execution_id = f /\ x.no = n
      BY <1>5 DEF NothingLost, Enqueue
    <2>2. CASE f = e /\ n = enqueued[e] + 1
      <3>1. it.execution_id = f /\ it.no = n
        BY <2>2
      <3> HIDE DEF it
      <3> QED BY <1>4, <3>1
    <2>3. CASE ~(f = e /\ n = enqueued[e] + 1)
      <3>1. n \in 1 .. enqueued[f]
        BY <1>1, <2>3 DEF Enqueue, IInv, TypeOK
      <3> QED BY <1>4, <3>1 DEF IInv, NothingLost
    <2> QED BY <2>2, <2>3
  <1>8. NothingDuplicated'
    BY <1>3, <1>4, <1>5 DEF IInv, NothingDuplicated, Enqueue
  <1>9. DroppedWasServed' /\ ServedToEntitled' /\ ClaimsNumbered' /\ LivesPast'
    <2>1. UNCHANGED <<lease, attempt, claims, forgotten, dropped>>
      BY DEF Enqueue
    <2> QED BY <2>1, ClaimsKept DEF IInv, DroppedWasServed, ServedToEntitled
  <1>10. AtHome'
    <2>1. \A r \in Lists : r # q => queue'[r] = queue[r]
      BY <1>1 DEF Enqueue
    <2>2. \A i \in DOMAIN queue'[q] : queue'[q][i] = it \/ (i \in DOMAIN queue[q] /\ queue'[q][i] = queue[q][i])
      BY <1>1, <1>2, AppendProperties, LenProperties DEF PushedTo
    <2>3. it.selected_worker_id = q
      OBVIOUS
    <2> HIDE DEF it
    <2> QED BY <2>1, <2>2, <2>3 DEF IInv, AtHome
  <1>11. Numbered'
    <2>1. \A f \in Executions : enqueued'[f] \in Nat /\ enqueued[f] <= enqueued'[f]
      BY <1>1 DEF Enqueue, IInv, TypeOK
    <2>2. it.no = enqueued'[it.execution_id]
      BY DEF Enqueue, IInv, TypeOK
    <2>3. Waiting \cup Served \cup dropped \subseteq Item
      BY DEF Waiting, ItemsIn, Served, IInv, TypeOK, Claim
    <2>4. \A x \in Waiting \cup Served \cup dropped : x.no <= enqueued'[x.execution_id]
      BY <1>1, <2>1, <2>3 DEF IInv, Numbered, Item, TypeOK
    <2> HIDE DEF it
    <2> QED BY <1>2, <1>4, <1>5, <2>1, <2>2, <2>4 DEF Numbered, Enqueue, Item
  <1>12. PassedOver'
    BY <1>1 DEF PassedOver
  <1> QED BY <1>6, <1>7, <1>8, <1>9, <1>10, <1>11, <1>12 DEF IInv

(* A step that leaves the lists, the leases, the counters and the          *)
(* histories alone keeps all but the types and what was passed over.       *)
LEMMA ScriptOnly ==
    ASSUME IInv,
           UNCHANGED <<queue, lease, attempt, enqueued, claims, dropped, forgotten>>,
           TypeOK', PassedOver'
    PROVE  IInv'
  <1>1. Waiting' = Waiting /\ Served' = Served
    BY DEF Waiting, Served
  <1>2. NothingLost' /\ NothingDuplicated'
    BY <1>1 DEF IInv, NothingLost, NothingDuplicated
  <1>3. DroppedWasServed' /\ ServedToEntitled' /\ ClaimsNumbered' /\ LivesPast'
    BY ClaimsKept DEF IInv, DroppedWasServed, ServedToEntitled
  <1>4. AtHome' /\ Numbered'
    BY <1>1 DEF IInv, AtHome, Numbered
  <1> QED BY <1>2, <1>3, <1>4 DEF IInv

LEMMA BeginClaimInvariant ==
    ASSUME IInv, NEW w \in Workers, BeginClaim(w)
    PROVE  IInv'
  <1>1. /\ w \in Lists /\ w # NoWorker
        /\ queue[w] \in Seq(Item) /\ Len(queue[w]) \in Nat
        /\ DOMAIN queue[w] = 1 .. Len(queue[w])
    BY NoWorkerAssumption, LenProperties DEF IInv, TypeOK, Lists
  <1>2. TypeOK'
    BY <1>1 DEF BeginClaim, LoopLength, IInv, TypeOK, Lists
  <1>3. PassedOver'
    BY <1>1 DEF BeginClaim, LoopLength, PassedOver, Current
  <1> QED BY <1>2, <1>3, ScriptOnly DEF BeginClaim

LEMMA QuietInvariant ==
    ASSUME IInv, script' = Quiet,
           UNCHANGED <<queue, lease, attempt, enqueued, claims, dropped, forgotten>>
    PROVE  IInv'
  <1>1. Len(queue[NoWorker]) \in Nat
    BY LenProperties DEF IInv, TypeOK, Lists
  <1>2. TypeOK'
    BY <1>1 DEF Quiet, Idle, IInv, TypeOK, Lists
  <1>3. PassedOver'
    BY DEF PassedOver, Idle
  <1> QED BY <1>2, <1>3, ScriptOnly

LEMMA NextListInvariant ==
    ASSUME IInv, NextList
    PROVE  IInv'
  <1>1. /\ script \in [worker: Lists, list: Lists, left: Nat]
        /\ script.worker # NoWorker
        /\ script.list = script.worker /\ script.left = 0
        /\ script'.list = NoWorker /\ script'.worker = script.worker
        /\ script'.left = Len(queue[NoWorker])
        /\ script' \in [worker: Lists, list: Lists, left: Nat]
        /\ Len(queue[NoWorker]) \in Nat
        /\ DOMAIN queue[NoWorker] = 1 .. Len(queue[NoWorker])
        /\ queue' = queue
    BY LenProperties DEF NextList, AtEnd, LoopLength, IInv, TypeOK, Lists, Idle
  <1>2. TypeOK'
    BY <1>1 DEF NextList, IInv, TypeOK, Idle
  <1>3. NothingForWorker(script.worker, script.worker)
    <2>1. DOMAIN Current = 1 .. Len(Current) /\ Len(Current) \in Nat
      BY <1>1, LenProperties DEF Current, IInv, TypeOK
    <2>2. \A i \in DOMAIN Current : i > script.left
      BY <1>1, <2>1
    <2> QED BY <1>1, <2>2 DEF IInv, PassedOver, NextList, AtEnd, NothingForWorker, Current
  <1>4. PassedOver'
    BY <1>1, <1>3 DEF PassedOver, NothingForWorker, Current
  <1> QED BY <1>2, <1>4, ScriptOnly DEF NextList

(* What a step that takes the head out of its list leaves of the items. *)
LEMMA HeadTaken ==
    ASSUME IInv, AtItem, queue' = PoppedFrom(queue, script.list)
    PROVE  /\ queue' \in [Lists -> Seq(Item)]
           /\ Waiting' = Waiting \ {HeadItem}
           /\ OnePlace(queue')
           /\ AtHome'
           /\ HeadItem \in Item /\ HeadItem \in Waiting
           /\ HeadItem \notin Served /\ HeadItem \notin dropped
           /\ HeadItem.selected_worker_id \in {script.worker, NoWorker}
  <1> DEFINE l == script.list
             n == Len(queue[l])
  <1>1. /\ l \in Lists /\ queue[l] # <<>> /\ queue \in [Lists -> Seq(Item)]
        /\ OnePlace(queue) /\ HeadItem = Head(queue[l])
        /\ HeadItem = queue[l][1] /\ 1 \in DOMAIN queue[l]
        /\ HeadItem \in Item /\ HeadItem \in Waiting
    BY HeadFacts DEF IInv, TypeOK, NothingDuplicated, HeadItem, Current
  <1>2. /\ n \in Nat \ {0} /\ DOMAIN queue[l] = 1 .. n /\ DOMAIN queue'[l] = 1 .. (n - 1)
        /\ \A q \in Lists : q # l => queue'[q] = queue[q]
        /\ \A i \in 1 .. (n - 1) : queue'[l][i] = queue[l][i + 1]
    BY <1>1, PopPlaces
  <1>3. /\ queue' \in [Lists -> Seq(Item)]
        /\ Waiting' = Waiting \ {HeadItem}
        /\ OnePlace(queue')
    BY <1>1, PopItems DEF Waiting
  <1> HIDE DEF l, n
  <1>4. AtHome'
    <2>1. SUFFICES ASSUME NEW q \in Lists, NEW i \in DOMAIN queue'[q]
                   PROVE  queue'[q][i].selected_worker_id = q
      BY DEF AtHome
    <2>2. PICK j \in DOMAIN queue[q] : queue'[q][i] = queue[q][j]
      <3>1. CASE q = l
        <4>1. i \in 1 .. (n - 1) /\ i + 1 \in DOMAIN queue[l]
          BY <1>2, <2>1, <3>1
        <4> QED BY <1>2, <3>1, <4>1
      <3>2. CASE q # l
        BY <1>2, <2>1, <3>2
      <3> QED BY <3>1, <3>2
    <2> QED BY <2>2 DEF IInv, AtHome
  <1>5. HeadItem.selected_worker_id \in {script.worker, NoWorker}
    <2>1. HeadItem.selected_worker_id = l
      BY <1>1 DEF IInv, AtHome
    <2> QED BY <2>1 DEF IInv, TypeOK, l
  <1>6. HeadItem \notin Served /\ HeadItem \notin dropped
    BY <1>1 DEF IInv, NothingDuplicated
  <1> QED BY <1>1, <1>3, <1>4, <1>5, <1>6

LEMMA RotateHeadInvariant ==
    ASSUME IInv, RotateHead
    PROVE  IInv'
  <1> DEFINE l == script.list
             n == Len(queue[l])
  <1>1. /\ AtItem /\ HeadVerdict = "mismatch"
        /\ queue' = TurnedIn(queue, l)
        /\ script' = [script EXCEPT !.left = @ - 1]
        /\ UNCHANGED <<lease, attempt, enqueued, claims, dropped, forgotten>>
    BY DEF RotateHead, TurnedIn
  <1>2. /\ script \in [worker: Lists, list: Lists, left: Nat]
        /\ script.worker \in Workers /\ l \in Lists /\ script.left \in Nat \ {0}
        /\ script.left <= n
        /\ l \in {script.worker, NoWorker}
        /\ queue[l] # <<>> /\ queue \in [Lists -> Seq(Item)]
        /\ OnePlace(queue) /\ HeadItem = queue[l][1]
    BY <1>1, HeadFacts DEF IInv, TypeOK, NothingDuplicated, Current
  <1>3. /\ queue' \in [Lists -> Seq(Item)]
        /\ Waiting' = Waiting
        /\ OnePlace(queue')
    BY <1>1, <1>2, RotateItems DEF Waiting
  <1>4. /\ n \in Nat \ {0}
        /\ \A q \in Lists : q # l => queue'[q] = queue[q]
        /\ Len(queue'[l]) = n
        /\ DOMAIN queue[l] = 1 .. n
        /\ DOMAIN queue'[l] = 1 .. n
        /\ \A i \in 1 .. (n - 1) : queue'[l][i] = queue[l][i + 1]
        /\ queue'[l][n] = queue[l][1]
    BY <1>1, <1>2, TurnPlaces
  <1>5. /\ script' \in [worker: Lists, list: Lists, left: Nat]
        /\ script'.worker = script.worker /\ script'.list = l
        /\ script'.left = script.left - 1
    BY <1>1, <1>2
  <1>6. Served' = Served /\ ~Idle /\ script.worker # NoWorker
    BY <1>1, <1>2, NoWorkerAssumption DEF Served, AtItem
  <1> HIDE DEF l, n
  <1>7. TypeOK'
    BY <1>1, <1>2, <1>3, <1>4, <1>5, <1>6 DEF IInv, TypeOK
  <1>8. NothingLost' /\ NothingDuplicated'
    BY <1>1, <1>3, <1>6 DEF IInv, NothingLost, NothingDuplicated
  <1>9. DroppedWasServed' /\ ServedToEntitled' /\ ClaimsNumbered' /\ LivesPast'
    BY <1>1, ClaimsKept DEF IInv, DroppedWasServed, ServedToEntitled
  <1>10. AtHome'
    <2>1. SUFFICES ASSUME NEW q \in Lists, NEW i \in DOMAIN queue'[q]
                   PROVE  queue'[q][i].selected_worker_id = q
      BY DEF AtHome
    <2>2. PICK j \in DOMAIN queue[q] : queue'[q][i] = queue[q][j]
      <3>1. CASE q = l /\ i = n
        BY <1>4, <3>1
      <3>2. CASE q = l /\ i # n
        <4>1. i \in 1 .. (n - 1) /\ i + 1 \in DOMAIN queue[l]
          BY <1>4, <2>1, <3>2
        <4> QED BY <1>4, <3>2, <4>1
      <3>3. CASE q # l
        BY <1>4, <2>1, <3>3
      <3> QED BY <3>1, <3>2, <3>3
    <2> QED BY <2>2 DEF IInv, AtHome
  <1>11. Numbered'
    BY <1>1, <1>3, <1>6 DEF IInv, Numbered
  <1>12. PassedOver'
    <2>1. ~HasLabels(script.worker, HeadItem.execution_id)
      BY <1>1, MismatchLacksLabel DEF HeadVerdict
    <2>2. \A i \in DOMAIN queue[l] :
            i > script.left => ~HasLabels(script.worker, queue[l][i].execution_id)
      BY <1>6 DEF IInv, PassedOver, Current, l
    <2>3. ASSUME NEW i \in DOMAIN queue'[l], i > script'.left
          PROVE  ~HasLabels(script.worker, queue'[l][i].execution_id)
      <3>1. CASE i = n
        BY <1>2, <1>4, <2>1, <3>1
      <3>2. CASE i # n
        <4>1. i \in 1 .. (n - 1) /\ i + 1 \in DOMAIN queue[l] /\ i + 1 > script.left
          BY <1>2, <1>4, <1>5, <2>3, <3>2
        <4> QED BY <1>4, <2>2, <4>1
      <3> QED BY <3>1, <3>2
    <2>4. l = NoWorker => NothingForWorker(script.worker, script.worker)'
      <3>1. l = NoWorker => queue'[script.worker] = queue[script.worker]
        BY <1>2, <1>4, <1>6 DEF Lists
      <3> QED BY <1>5, <1>6, <3>1 DEF IInv, PassedOver, NothingForWorker, l
    <2> QED BY <1>5, <2>3, <2>4 DEF PassedOver, Current, NothingForWorker
  <1> QED BY <1>7, <1>8, <1>9, <1>10, <1>11, <1>12 DEF IInv

LEMMA DropHeadInvariant ==
    ASSUME IInv, DropHead
    PROVE  IInv'
  <1> DEFINE l == script.list
             n == Len(queue[l])
  <1>1. /\ AtItem /\ HeadVerdict = "match" /\ Leased(HeadItem.execution_id)
        /\ queue' = PoppedFrom(queue, l)
        /\ script' = [script EXCEPT !.left = @ - 1]
        /\ dropped' = dropped \cup {HeadItem}
        /\ UNCHANGED <<lease, attempt, enqueued, claims, forgotten>>
    BY DEF DropHead, PoppedFrom, LeaseSet
  <1>2. /\ script \in [worker: Lists, list: Lists, left: Nat]
        /\ script.worker \in Workers /\ l \in Lists /\ script.left \in Nat \ {0}
        /\ script.left <= n
        /\ l \in {script.worker, NoWorker}
        /\ queue[l] # <<>> /\ queue \in [Lists -> Seq(Item)]
    BY <1>1, HeadFacts DEF IInv, TypeOK, Current
  <1>3. /\ queue' \in [Lists -> Seq(Item)]
        /\ Waiting' = Waiting \ {HeadItem}
        /\ OnePlace(queue')
        /\ AtHome'
        /\ HeadItem \in Item /\ HeadItem \in Waiting
        /\ HeadItem \notin Served /\ HeadItem \notin dropped
    BY <1>1, HeadTaken
  <1>4. /\ n \in Nat \ {0}
        /\ \A q \in Lists : q # l => queue'[q] = queue[q]
        /\ Len(queue'[l]) = n - 1
        /\ DOMAIN queue[l] = 1 .. n
        /\ DOMAIN queue'[l] = 1 .. (n - 1)
        /\ \A i \in 1 .. (n - 1) : queue'[l][i] = queue[l][i + 1]
    BY <1>1, <1>2, PopPlaces
  <1>5. /\ script' \in [worker: Lists, list: Lists, left: Nat]
        /\ script'.worker = script.worker /\ script'.list = l
        /\ script'.left = script.left - 1
    BY <1>1, <1>2
  <1>6. Served' = Served /\ ~Idle /\ script.worker # NoWorker
    BY <1>1, <1>2, NoWorkerAssumption DEF Served, AtItem
  <1> HIDE DEF l, n
  <1>7. TypeOK'
    BY <1>1, <1>2, <1>3, <1>4, <1>5, <1>6 DEF IInv, TypeOK
  <1>8. NothingLost' /\ NothingDuplicated'
    BY <1>1, <1>3, <1>6 DEF IInv, NothingLost, NothingDuplicated
  <1>9. DroppedWasServed'
    <2>1. HeadItem.execution_id \in Executions
      BY <1>3 DEF Item
    <2>2. \E c \in claims : c.item.execution_id = HeadItem.execution_id
      BY <1>1, <2>1 DEF IInv, ClaimsNumbered, ClaimsNow, ClaimsOf
    <2> QED BY <1>1, <2>2 DEF IInv, DroppedWasServed
  <1>10. ServedToEntitled' /\ ClaimsNumbered' /\ LivesPast'
    BY <1>1, ClaimsKept DEF IInv, ServedToEntitled
  <1>11. Numbered'
    BY <1>1, <1>3, <1>6 DEF IInv, Numbered
  <1>12. PassedOver'
    <2>1. \A i \in DOMAIN queue[l] :
            i > script.left => ~HasLabels(script.worker, queue[l][i].execution_id)
      BY <1>6 DEF IInv, PassedOver, Current, l
    <2>2. ASSUME NEW i \in DOMAIN queue'[l], i > script'.left
          PROVE  ~HasLabels(script.worker, queue'[l][i].execution_id)
      <3>1. i \in 1 .. (n - 1) /\ i + 1 \in DOMAIN queue[l] /\ i + 1 > script.left
        BY <1>2, <1>4, <1>5, <2>2
      <3> QED BY <1>4, <2>1, <3>1
    <2>3. l = NoWorker => NothingForWorker(script.worker, script.worker)'
      <3>1. l = NoWorker => queue'[script.worker] = queue[script.worker]
        BY <1>2, <1>4, <1>6 DEF Lists
      <3> QED BY <1>5, <1>6, <3>1 DEF IInv, PassedOver, NothingForWorker, l
    <2> QED BY <1>5, <2>2, <2>3 DEF PassedOver, Current, NothingForWorker
  <1> QED BY <1>3, <1>7, <1>8, <1>9, <1>10, <1>11, <1>12 DEF IInv

LEMMA LeaseHeadInvariant ==
    ASSUME IInv, LeaseHead
    PROVE  IInv'
  <1> DEFINE e == HeadItem.execution_id
             w == script.worker
             n == attempt[e] + 1
             c == [item |-> HeadItem, worker_id |-> w, attempt_no |-> n,
                   life |-> forgotten[e]]
  <1>1. /\ AtItem /\ HeadVerdict = "match" /\ ~Leased(e)
        /\ queue' = PoppedFrom(queue, script.list)
        /\ lease' = [lease EXCEPT ![e] = [worker_id |-> w, attempt_no |-> n]]
        /\ attempt' = [attempt EXCEPT ![e] = n]
        /\ claims' = claims \cup {c}
        /\ script' = Quiet
        /\ UNCHANGED <<enqueued, dropped, forgotten>>
    BY DEF LeaseHead, PoppedFrom, LeaseSet, NextAttempt
  <1>2. /\ queue' \in [Lists -> Seq(Item)]
        /\ Waiting' = Waiting \ {HeadItem}
        /\ OnePlace(queue')
        /\ AtHome'
        /\ HeadItem \in Item /\ HeadItem \in Waiting
        /\ HeadItem \notin Served /\ HeadItem \notin dropped
        /\ HeadItem.selected_worker_id \in {w, NoWorker}
    BY <1>1, HeadTaken
  <1>3. w \in Workers /\ e \in Executions /\ n \in Nat \ {0} /\ c \in Claim
    <2>1. e \in Executions
      BY <1>2 DEF Item
    <2>2. w \in Workers
      BY <1>1, HeadFacts DEF IInv
    <2>3. n \in Nat \ {0}
      BY <2>1 DEF IInv, TypeOK
    <2>4. forgotten[e] \in Nat
      BY <2>1 DEF IInv, TypeOK
    <2> HIDE DEF n, w, e
    <2> QED BY <1>2, <2>1, <2>2, <2>3, <2>4 DEF Claim
  <1>4. Served' = Served \cup {HeadItem}
    <2>1. c.item = HeadItem
      OBVIOUS
    <2> HIDE DEF c
    <2> QED BY <1>1, <2>1 DEF Served
  <1>5. HasLabels(w, e)
    BY <1>1, MatchHasLabels DEF HeadVerdict
  <1>6. TypeOK'
    <2>1. lease' \in [Executions -> Lease \cup {NoLease}] /\ attempt' \in [Executions -> Nat]
      BY <1>1, <1>3 DEF IInv, TypeOK, Lease
    <2>2. Len(queue'[NoWorker]) \in Nat
      BY <1>2, LenProperties DEF Lists
    <2>3. /\ script' \in [worker: Lists, list: Lists, left: Nat]
          /\ script'.left <= Len(queue'[script'.list])
          /\ Idle' /\ script'.list = NoWorker
      BY <1>1, <2>2 DEF Quiet, Lists, Idle
    <2> HIDE DEF c
    <2> QED BY <1>1, <1>2, <1>3, <2>1, <2>3 DEF IInv, TypeOK
  <1>7. NothingLost' /\ NothingDuplicated'
    <2>1. NothingLost'
      BY <1>1, <1>2, <1>4 DEF IInv, NothingLost
    <2>2. \A d \in claims : d.item # HeadItem
      BY <1>2 DEF Served
    <2>3. \A d1, d2 \in claims' : d1.item = d2.item => d1 = d2
      <3>1. c.item = HeadItem
        OBVIOUS
      <3> HIDE DEF c
      <3> QED BY <1>1, <2>2, <3>1 DEF IInv, NothingDuplicated
    <2> QED BY <1>1, <1>2, <1>4, <2>1, <2>3 DEF IInv, NothingDuplicated
  <1>8. DroppedWasServed'
    BY <1>1 DEF IInv, DroppedWasServed
  <1>9. ServedToEntitled'
    <2>1. Entitled(c.worker_id, c.item)
      BY <1>2, <1>5 DEF Entitled
    <2> HIDE DEF c
    <2> QED BY <1>1, <2>1 DEF IInv, ServedToEntitled
  <1>10. ClaimsNumbered'
    <2>0. PICK k \in Executions : k = e
      BY <1>3
    <2>1. /\ c.item.execution_id = k /\ c.worker_id = w
          /\ c.attempt_no = n /\ c.life = forgotten[k]
      BY <2>0
    <2>2. /\ attempt[k] \in Nat /\ n = attempt[k] + 1
          /\ attempt'[k] = n /\ lease'[k] = [worker_id |-> w, attempt_no |-> n]
          /\ \A f \in Executions : f # k => lease'[f] = lease[f] /\ attempt'[f] = attempt[f]
      BY <1>1, <1>3, <2>0 DEF IInv, TypeOK
    <2> HIDE DEF c, n, w, e
    <2>3. /\ ClaimsOf(k)' = ClaimsOf(k) \cup {c}
          /\ ClaimsNow(k)' = ClaimsNow(k) \cup {c}
      BY <1>1, <2>1 DEF ClaimsOf, ClaimsNow
    <2>4. /\ \A d1, d2 \in ClaimsOf(k) :
                d1.life = d2.life /\ d1.attempt_no = d2.attempt_no => d1 = d2
          /\ {d.attempt_no : d \in ClaimsNow(k)} = 1 .. attempt[k]
      BY DEF IInv, ClaimsNumbered
    <2>5. ASSUME NEW d \in ClaimsOf(k), d.life = c.life PROVE d.attempt_no # c.attempt_no
      <3>1. d \in ClaimsNow(k)
        BY <2>1, <2>5 DEF ClaimsNow
      <3>2. d.attempt_no \in 1 .. attempt[k]
        BY <2>4, <3>1
      <3> QED BY <2>1, <2>2, <3>2
    <2>6. \A d1, d2 \in ClaimsOf(k)' :
             d1.life = d2.life /\ d1.attempt_no = d2.attempt_no => d1 = d2
      BY <2>3, <2>4, <2>5
    <2>7. {d.attempt_no : d \in ClaimsNow(k)'} = 1 .. attempt'[k]
      <3>1. {d.attempt_no : d \in ClaimsNow(k)'} = {d.attempt_no : d \in ClaimsNow(k)} \cup {n}
        BY <2>1, <2>3
      <3> QED BY <2>2, <2>4, <3>1
    <2>8. SUFFICES ASSUME NEW f \in Executions, f # k
                   PROVE  /\ \A d1, d2 \in ClaimsOf(f)' :
                                d1.life = d2.life /\ d1.attempt_no = d2.attempt_no => d1 = d2
                          /\ {d.attempt_no : d \in ClaimsNow(f)'} = 1 .. attempt'[f]
                          /\ lease'[f] # NoLease =>
                               \E d \in ClaimsNow(f)' :
                                  /\ d.worker_id = lease'[f].worker_id
                                  /\ d.attempt_no = lease'[f].attempt_no
                                  /\ d.attempt_no = attempt'[f]
      <3>1. \E d \in ClaimsNow(k)' : /\ d.worker_id = lease'[k].worker_id
                                      /\ d.attempt_no = lease'[k].attempt_no
                                      /\ d.attempt_no = attempt'[k]
        BY <2>1, <2>2, <2>3
      <3> QED BY <2>6, <2>7, <3>1 DEF ClaimsNumbered, Leased
    <2>9. ClaimsOf(f)' = ClaimsOf(f) /\ ClaimsNow(f)' = ClaimsNow(f)
      BY <1>1, <2>1, <2>8 DEF ClaimsOf, ClaimsNow
    <2> QED BY <2>2, <2>8, <2>9 DEF IInv, ClaimsNumbered, Leased
  <1>13. LivesPast'
    <2>1. c.life <= forgotten[c.item.execution_id]
      BY <1>3 DEF IInv, TypeOK
    <2> HIDE DEF c
    <2> QED BY <1>1, <2>1 DEF IInv, LivesPast
  <1>11. Numbered'
    BY <1>1, <1>2, <1>4 DEF IInv, Numbered
  <1>12. PassedOver'
    BY <1>1 DEF PassedOver, Idle
  <1> QED BY <1>2, <1>6, <1>7, <1>8, <1>9, <1>10, <1>11, <1>12, <1>13 DEF IInv

LEMMA ExpiryInvariant ==
    ASSUME IInv, NEW e \in Executions, ExpireLease(e) \/ ExpireAttempt(e)
    PROVE  IInv'
  <1>1. UNCHANGED <<queue, script, enqueued, claims, dropped>> /\ Idle
    BY DEF ExpireLease, ExpireAttempt
  <1>2. Waiting' = Waiting /\ Served' = Served
    BY <1>1 DEF Waiting, Served
  <1>3. TypeOK' /\ ClaimsNumbered' /\ LivesPast'
    <2>1. CASE ExpireLease(e)
      <3>1. \A f \in Executions : lease'[f] # NoLease => lease'[f] = lease[f]
        BY <2>1 DEF ExpireLease, IInv, TypeOK
      <3>2. UNCHANGED <<attempt, claims, forgotten>>
        BY <2>1 DEF ExpireLease
      <3>3. ClaimsNumbered' /\ LivesPast'
        BY <3>1, <3>2 DEF IInv, ClaimsNumbered, LivesPast, ClaimsOf, ClaimsNow, Leased
      <3> QED BY <1>1, <2>1, <3>3 DEF ExpireLease, IInv, TypeOK, Idle
    <2>2. CASE ExpireAttempt(e)
      <3>1. /\ lease[e] = NoLease /\ lease' = lease /\ claims' = claims
            /\ attempt'[e] = 0 /\ forgotten'[e] = forgotten[e] + 1
            /\ forgotten[e] \in Nat
            /\ \A f \in Executions : f # e => attempt'[f] = attempt[f] /\ forgotten'[f] = forgotten[f]
        BY <2>2 DEF ExpireAttempt, Outlived, Leased, IInv, TypeOK
      <3>2. \A c \in claims : c.item.execution_id \in Executions /\ c.life \in Nat
        BY DEF IInv, TypeOK, Claim, Item
      <3>3. TypeOK'
        BY <1>1, <2>2 DEF ExpireAttempt, IInv, TypeOK, Idle
      <3>4. LivesPast'
        BY <3>1, <3>2 DEF IInv, LivesPast
      <3>5. ClaimsNow(e)' = {}
        BY <3>1, <3>2 DEF IInv, LivesPast, ClaimsNow, ClaimsOf
      <3>6. \A f \in Executions : /\ ClaimsOf(f)' = ClaimsOf(f)
                                  /\ f # e => ClaimsNow(f)' = ClaimsNow(f)
        BY <3>1 DEF ClaimsNow, ClaimsOf
      <3>7. ClaimsNumbered'
        <4>1. SUFFICES ASSUME NEW f \in Executions
                       PROVE  /\ {c.attempt_no : c \in ClaimsNow(f)'} = 1 .. attempt'[f]
                              /\ lease'[f] # NoLease =>
                                   \E c \in ClaimsNow(f)' :
                                      /\ c.worker_id = lease'[f].worker_id
                                      /\ c.attempt_no = lease'[f].attempt_no
                                      /\ c.attempt_no = attempt'[f]
          BY <3>6 DEF IInv, ClaimsNumbered, Leased
        <4>2. CASE f = e
          BY <3>1, <3>5, <4>2
        <4>3. CASE f # e
          BY <3>1, <3>6, <4>3 DEF IInv, ClaimsNumbered, Leased
        <4> QED BY <4>2, <4>3
      <3> QED BY <3>3, <3>4, <3>7
    <2> QED BY <2>1, <2>2
  <1>4. NothingLost' /\ NothingDuplicated'
    BY <1>1, <1>2 DEF IInv, NothingLost, NothingDuplicated
  <1>5. DroppedWasServed' /\ ServedToEntitled' /\ AtHome' /\ Numbered'
    BY <1>1, <1>2 DEF IInv, DroppedWasServed, ServedToEntitled, AtHome, Numbered
  <1>6. PassedOver'
    BY <1>1 DEF PassedOver, Idle
  <1> QED BY <1>3, <1>4, <1>5, <1>6 DEF IInv

LEMMA StepInvariant == IInv /\ [Next]_vars => IInv'
  <1> SUFFICES ASSUME IInv, [Next]_vars PROVE IInv'
    OBVIOUS
  <1>1. ASSUME NEW e \in Executions, NEW q \in PushTargets, Enqueue(e, q) PROVE IInv'
    BY <1>1, EnqueueInvariant
  <1>2. ASSUME NEW w \in Workers, BeginClaim(w) PROVE IInv'
    BY <1>2, BeginClaimInvariant
  <1>3. CASE RejectHead
    BY <1>3, QuietInvariant DEF RejectHead
  <1>4. CASE RotateHead
    BY <1>4, RotateHeadInvariant
  <1>5. CASE DropHead
    BY <1>5, DropHeadInvariant
  <1>6. CASE LeaseHead
    BY <1>6, LeaseHeadInvariant
  <1>7. CASE NextList
    BY <1>7, NextListInvariant
  <1>8. CASE ReturnNil
    BY <1>8, QuietInvariant DEF ReturnNil
  <1>9. ASSUME NEW e \in Executions, ExpireLease(e) \/ ExpireAttempt(e) PROVE IInv'
    BY <1>9, ExpiryInvariant
  <1>10. CASE UNCHANGED vars
    <2>1. TypeOK' /\ PassedOver'
      BY <1>10 DEF vars, IInv, TypeOK, PassedOver, Idle, Current, NothingForWorker
    <2> QED BY <1>10, <2>1, ScriptOnly DEF vars
  <1> QED BY <1>1, <1>2, <1>3, <1>4, <1>5, <1>6, <1>7, <1>8, <1>9, <1>10
          DEF Next, ScriptStep

-----------------------------------------------------------------------------
(* The lists, leases, counters and the script's position stay well formed; *)
(* in particular LINDEX 0 never finds an empty list inside the loop.       *)
THEOREM TypeCorrect == Spec => []TypeOK
  <1>1. IInv => TypeOK
    BY DEF IInv
  <1> QED BY <1>1, InitInvariant, StepInvariant, PTL DEF Spec

(* Whatever was pushed waits, was handed out or was dropped; nothing is    *)
(* handed out twice; only executions that were served are dropped.         *)
THEOREM ItemsConserved == Spec => []Conserved
  <1>1. IInv => Conserved
    BY DEF IInv, Conserved
  <1> QED BY <1>1, InitInvariant, StepInvariant, PTL DEF Spec

(* Items only go to workers they are meant for. *)
THEOREM OnlyEntitledServed == Spec => []ServedToEntitled
  <1>1. IInv => ServedToEntitled
    BY DEF IInv
  <1> QED BY <1>1, InitInvariant, StepInvariant, PTL DEF Spec

(* Between two losses of its counter the claims of an execution are        *)
(* numbered one after the other, and a live lease is the latest of them.   *)
THEOREM ClaimsAreNumbered == Spec => []ClaimsNumbered
  <1>1. IInv => ClaimsNumbered
    BY DEF IInv
  <1> QED BY <1>1, InitInvariant, StepInvariant, PTL DEF Spec

(* A nil answer means that neither list holds an item for the worker. *)
THEOREM NilIsRight == Spec => NilMeansNothing
  <1> DEFINE Answer == ReturnNil => /\ NothingForWorker(script.worker, script.worker)
                                    /\ NothingForWorker(script.worker, NoWorker)
  <1>1. ASSUME IInv PROVE Answer
    <2>1. SUFFICES ASSUME ReturnNil
                   PROVE  /\ NothingForWorker(script.worker, script.worker)
                          /\ NothingForWorker(script.worker, NoWorker)
      OBVIOUS
    <2>2. ~Idle /\ script.left = 0 /\ script.list = NoWorker
      BY <2>1 DEF ReturnNil, AtEnd
    <2>3. \A i \in DOMAIN Current : i > 0
      BY <1>1, LenProperties DEF IInv, TypeOK, Current
    <2> QED BY <1>1, <2>2, <2>3 DEF IInv, PassedOver, NothingForWorker, Current
  <1>2. IInv => [Answer]_vars
    BY <1>1
  <1> QED BY <1>2, InitInvariant, StepInvariant, PTL DEF Spec, NilMeansNothing

-----------------------------------------------------------------------------
(* The lists, the lease keys and the script implement the pool: rotations, *)
(* list changes and answers stutter, a lease is a Take, a dropped          *)
(* duplicate a Discard, an expired lease a Release.                        *)

Held == [e \in Executions |-> lease[e].worker_id]

LEMMA HeldFree ==
    ASSUME TypeOK, NEW e \in Executions
    PROVE  Leased(e) <=> Held[e] # NoWorker
  BY NoWorkerAssumption DEF TypeOK, Leased, Held, Lease, NoLease

LEMMA PoolStep ==
    ASSUME IInv, [Next]_vars
    PROVE  [Pool!Next]_(Pool!poolVars)
  <1> USE DEF Pool!poolVars
  <1>1. ASSUME UNCHANGED <<queue, lease, enqueued>> PROVE UNCHANGED Pool!poolVars
    BY <1>1 DEF Waiting
  <1>2. Pool!Items = Item
    BY DEF Pool!Items, Item, Lists
  <1>3. ASSUME NEW e \in Executions, NEW q \in PushTargets, Enqueue(e, q)
        PROVE  Pool!Next
    <2> DEFINE it == [execution_id |-> e, selected_worker_id |-> q, no |-> enqueued[e] + 1]
    <2>1. /\ it \in Item /\ q \in Lists /\ queue \in [Lists -> Seq(Item)]
          /\ queue' = PushedTo(queue, q, it)
      <3>1. /\ q \in Lists /\ queue \in [Lists -> Seq(Item)]
            /\ enqueued[e] \in 0 .. MaxEnqueues /\ enqueued[e] < MaxEnqueues
        BY <1>3, PushTargetsAssumption DEF Enqueue, Lists, IInv, TypeOK
      <3>2. it \in Item
        BY <3>1, MaxEnqueuesAssumption DEF Item
      <3> QED BY <1>3, <3>1, <3>2 DEF Enqueue, PushedTo
    <2>2. it.execution_id = e /\ it.no = enqueued[e] + 1
      OBVIOUS
    <2>3. enqueued' = [enqueued EXCEPT ![e] = it.no] /\ lease' = lease
      BY <1>3 DEF Enqueue
    <2> HIDE DEF it
    <2>4. Waiting' = Waiting \cup {it}
      BY <2>1, PushItems DEF Waiting
    <2>5. Pool!Submit(it)
      BY <2>2, <2>3, <2>4 DEF Pool!Submit
    <2> QED BY <1>2, <2>1, <2>5 DEF Pool!Next
  <1>4. CASE RotateHead
    <2>1. /\ script.list \in Lists /\ queue[script.list] # <<>>
          /\ queue \in [Lists -> Seq(Item)] /\ OnePlace(queue)
          /\ queue' = TurnedIn(queue, script.list)
          /\ UNCHANGED <<lease, enqueued>>
      BY <1>4, HeadFacts DEF RotateHead, TurnedIn, IInv, TypeOK, NothingDuplicated, Current
    <2>2. Waiting' = Waiting
      BY <2>1, RotateItems DEF Waiting
    <2> QED BY <2>1, <2>2
  <1>5. CASE DropHead
    <2>1. /\ AtItem /\ Leased(HeadItem.execution_id) /\ UNCHANGED <<lease, enqueued>>
          /\ queue' = PoppedFrom(queue, script.list)
      BY <1>5 DEF DropHead, LeaseSet, PoppedFrom
    <2>2. /\ Waiting' = Waiting \ {HeadItem}
          /\ HeadItem \in Item /\ HeadItem \in Waiting
      BY <2>1, HeadTaken
    <2>3. HeadItem.execution_id \in Executions
      BY <2>2 DEF Item
    <2>4. Held[HeadItem.execution_id] # NoWorker
      BY <2>1, <2>3, HeldFree DEF IInv
    <2>5. Pool!Discard(HeadItem)
      BY <2>1, <2>2, <2>4 DEF Pool!Discard, Held
    <2> QED BY <1>2, <2>2, <2>5 DEF Pool!Next
  <1>6. CASE LeaseHead
    <2> DEFINE e == HeadItem.execution_id
    <2>1. /\ AtItem /\ HeadVerdict = "match" /\ ~Leased(e)
          /\ queue' = PoppedFrom(queue, script.list)
          /\ lease' = [lease EXCEPT ![e] = [worker_id |-> script.worker,
                                            attempt_no |-> attempt[e] + 1]]
          /\ UNCHANGED enqueued
      BY <1>6 DEF LeaseHead, LeaseSet, NextAttempt, PoppedFrom
    <2>2. /\ Waiting' = Waiting \ {HeadItem}
          /\ HeadItem \in Item /\ HeadItem \in Waiting
          /\ HeadItem.selected_worker_id \in {script.worker, NoWorker}
      BY <2>1, HeadTaken
    <2>3. e \in Executions /\ script.worker \in Workers
      BY <2>1, <2>2, HeadFacts DEF Item, IInv
    <2>4. Entitled(script.worker, HeadItem)
      BY <2>1, <2>2, MatchHasLabels DEF HeadVerdict, Entitled
    <2>5. Held[e] = NoWorker
      BY <2>1, <2>3, HeldFree DEF IInv
    <2>6. Held' = [Held EXCEPT ![e] = script.worker]
      BY <2>1, <2>3 DEF Held, IInv, TypeOK
    <2>7. PICK w \in Workers, it \in Pool!Items : w = script.worker /\ it = HeadItem
      BY <1>2, <2>2, <2>3
    <2>8. Pool!Take(w, it)
      BY <2>1, <2>2, <2>4, <2>5, <2>6, <2>7 DEF Pool!Take, Held
    <2> QED BY <2>8 DEF Pool!Next
  <1>7. ASSUME NEW e \in Executions, ExpireLease(e) PROVE Pool!Next
    <2>1. Leased(e) /\ lease' = [lease EXCEPT ![e] = NoLease] /\ UNCHANGED <<queue, enqueued>>
      BY <1>7 DEF ExpireLease
    <2>2. Held[e] # NoWorker /\ Held' = [Held EXCEPT ![e] = NoWorker]
      BY <2>1, HeldFree DEF Held, IInv, TypeOK, NoLease
    <2>3. Waiting' = Waiting
      BY <2>1 DEF Waiting
    <2>4. Pool!Release(e)
      BY <2>1, <2>2, <2>3 DEF Pool!Release, Held
    <2> QED BY <2>4 DEF Pool!Next
  <1>8. ASSUME NEW e \in Executions, ExpireAttempt(e) PROVE UNCHANGED Pool!poolVars
    BY <1>1, <1>8 DEF ExpireAttempt
  <1>9. ASSUME NEW w \in Workers, BeginClaim(w) PROVE UNCHANGED Pool!poolVars
    BY <1>1, <1>9 DEF BeginClaim
  <1>10. CASE RejectHead \/ NextList \/ ReturnNil
    BY <1>1, <1>10 DEF RejectHead, NextList, ReturnNil
  <1>11. CASE UNCHANGED vars
    BY <1>1, <1>11 DEF vars
  <1> QED BY <1>3, <1>4, <1>5, <1>6, <1>7, <1>8, <1>9, <1>10, <1>11 DEF Next, ScriptStep

(* Dispatching implements the pool. *)
THEOREM ImplementsWorkPool == Spec => RefinesWorkPool
  <1>1. Init => Pool!Init
    <2> SUFFICES ASSUME Init PROVE Pool!Init
      OBVIOUS
    <2>1. Waiting = {}
      BY EmptySeq DEF Init, Waiting, ItemsIn
    <2> QED BY <2>1 DEF Init, Pool!Init, NoLease
  <1>2. IInv /\ [Next]_vars => [Pool!Next]_(Pool!poolVars)
    BY PoolStep
  <1> QED BY <1>1, <1>2, InitInvariant, StepInvariant, PTL
          DEF Spec, RefinesWorkPool, Pool!Spec
=============================================================================
