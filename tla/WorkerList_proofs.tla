--------------------------- MODULE WorkerList_proofs ---------------------------
(* Proofs about WorkerList: for any workers, any environments, and any     *)
(* bound on delays.                                                        *)
EXTENDS WorkerList, TLAPS

Interval(w) == Config(w).heartbeat_interval
Offline(w) == Config(w).offline_after

Places == {"gone", "start", "waiting", "beat", "claim", "task", "backoff"}
Listing == [step: {"idle", "scan", "get", "answered"}, last: BOOLEAN,
            batch: SUBSET Workers, found: SUBSET Workers,
            throughout: SUBSET Workers, owed: SUBSET Workers]

(* Only a process whose settings were accepted has a place in the loop,    *)
(* and its timer is never set to more than its interval.                   *)
WorkersTyped ==
    /\ DOMAIN env = Workers /\ \A w \in Workers : env[w] \in Environments[w]
    /\ at \in [Workers -> Places]
    /\ fires \in [Workers -> Nat]
    /\ delay \in [Workers -> 0 .. MaxDelay]
    /\ reason \in [Workers -> Reasons]
    /\ key \in [Workers -> Nat]
    /\ \A w \in Workers : at[w] # "gone" => Accepts(env[w]) /\ fires[w] <= Interval(w)
    /\ \A w \in Workers : at[w] = "gone" => fires[w] = 0

Typed == WorkersTyped /\ listing \in Listing

(* An accepted environment has positive numbers, given or by default. *)
LEMMA AcceptedNumbers ==
    ASSUME WorkersTyped, NEW w \in Workers, Accepts(env[w])
    PROVE  Interval(w) \in Nat \ {0} /\ Offline(w) \in Nat \ {0} /\ Ttl(w) = Offline(w)
  <1> DEFINE i == env[w].WORKER_HEARTBEAT_INTERVAL_SECONDS
             o == env[w].WORKER_OFFLINE_AFTER_SECONDS
  <1>1. env[w] \in Environment
    BY ListAssumption DEF WorkersTyped
  <1>2. i \in Numbers /\ o \in Numbers /\ Readable(i) /\ Readable(o)
    BY <1>1 DEF Environment, Accepts
  <1>3. /\ Interval(w) = OrDefault(i, DefaultInterval)
        /\ Offline(w) = OrDefault(o, DefaultOffline)
    BY DEF Interval, Offline, Config, WorkerConfig
  <1> HIDE DEF i, o
  <1>4. Interval(w) \in Nat \ {0} /\ Offline(w) \in Nat \ {0}
    BY <1>2, <1>3, SettingsAssumption DEF Numbers, Readable, OrDefault
  <1>5. Ttl(w) = Max2(Offline(w), 1)
    BY DEF Ttl, Offline
  <1> QED BY <1>4, <1>5 DEF Max2

LEMMA TypedImplies == Typed => TypeOK
  <1> SUFFICES ASSUME Typed PROVE TypeOK
    OBVIOUS
  <1>1. \A w \in Workers : at[w] # "gone" => Interval(w) > 0 /\ Offline(w) > 0
    BY AcceptedNumbers DEF Typed, WorkersTyped
  <1> QED BY <1>1 DEF Typed, WorkersTyped, TypeOK, Places, Listing, Interval, Offline

-----------------------------------------------------------------------------
(* How long ago the last heartbeat can be, place by place, for a worker    *)
(* that has had no reason to miss one since: the life of its key is what   *)
(* the timer and the delays can have used up at most.                      *)
Slack(w) == Max2(Interval(w), MaxDelay)

Fresh(w) ==
    reason[w] = "none" =>
        /\ at[w] \in {"waiting", "beat", "claim"}
        /\ at[w] = "claim" => key[w] + delay[w] >= Offline(w)
        /\ at[w] \in {"claim", "waiting"} /\ fires[w] > 0 =>
             key[w] + Interval(w) >= Offline(w) + fires[w]
        /\ at[w] = "waiting" /\ fires[w] = 0 => key[w] + delay[w] + Slack(w) >= Offline(w)
        /\ at[w] = "beat" => key[w] + delay[w] + Slack(w) + MaxDelay >= Offline(w)

LEMMA FreshImplies ==
    ASSUME Typed, \A w \in Workers : Fresh(w)
    PROVE  OfflineHasReason
  <1> SUFFICES ASSUME NEW w \in Workers, at[w] # "gone", RoomForDelay(w), key[w] = 0, reason[w] = "none"
               PROVE  FALSE
    BY DEF OfflineHasReason
  <1>1. Interval(w) \in Nat /\ Offline(w) \in Nat
    BY AcceptedNumbers DEF Typed, WorkersTyped
  <1>2. delay[w] \in Nat /\ delay[w] <= MaxDelay /\ fires[w] \in Nat /\ MaxDelay \in Nat
    BY ListAssumption DEF Typed, WorkersTyped
  <1>3. /\ Slack(w) \in Nat /\ Slack(w) >= Interval(w) /\ Slack(w) >= MaxDelay
        /\ Offline(w) > Slack(w) + 2 * MaxDelay
    BY <1>1, <1>2 DEF Slack, Max2, RoomForDelay, Interval, Offline
  <1>4. Fresh(w)
    OBVIOUS
  <1> QED BY <1>1, <1>2, <1>3, <1>4 DEF Fresh

LEMMA MovesOthers ==
    ASSUME Typed, NEW w \in Workers, NEW from, NEW to \in Places, Goes(w, from, to)
    PROVE  /\ env' = env
           /\ at[w] = from /\ at'[w] = to /\ delay'[w] = 0
           /\ at' \in [Workers -> Places] /\ delay' \in [Workers -> 0 .. MaxDelay]
           /\ \A v \in Workers : v # w => at'[v] = at[v] /\ delay'[v] = delay[v]
           /\ \A v \in Workers : /\ Interval(v)' = Interval(v) /\ Offline(v)' = Offline(v)
                                 /\ Slack(v)' = Slack(v)
  <1>1. 0 \in 0 .. MaxDelay
    BY ListAssumption
  <1> QED BY <1>1 DEF Goes, Typed, WorkersTyped, Interval, Offline, Slack, Config

(* A step of one worker: what it is for the others, and for itself.        *)
Local(w) ==
    /\ env' = env
    /\ \A v \in Workers \ {w} :
         /\ at'[v] = at[v] /\ fires'[v] = fires[v] /\ delay'[v] = delay[v]
         /\ reason'[v] = reason[v] /\ key'[v] = key[v]

LEMMA StepIsLocal ==
    ASSUME Typed, NEW w \in Workers, WorkerStep(w)
    PROVE  Local(w)
  BY DEF WorkerStep, Start, Ready, Fire, Beat, ClaimNothing, Claim, TaskEnds, RedisFails, EndBackoff,
         End, Goes, Because, SetKey, Local, Typed, WorkersTyped

LEMMA StepTyped ==
    ASSUME Typed, NEW w \in Workers, WorkerStep(w)
    PROVE  WorkersTyped'
  <1>1. env' = env /\ at' \in [Workers -> Places] /\ delay' \in [Workers -> 0 .. MaxDelay]
    <2>1. \E from, to \in Places : Goes(w, from, to)
      BY DEF WorkerStep, Start, Ready, Fire, Beat, ClaimNothing, Claim, TaskEnds, RedisFails,
             EndBackoff, End, Places
    <2> QED BY <2>1, MovesOthers
  <1>2. Accepts(env[w]) => Interval(w) \in Nat /\ Ttl(w) \in Nat
    BY AcceptedNumbers DEF Typed
  <1>3. at[w] # "gone" => Accepts(env[w])
    BY DEF Typed, WorkersTyped
  <1>4. reason' \in [Workers -> Reasons]
    BY DEF WorkerStep, Start, Ready, Fire, Beat, ClaimNothing, Claim, TaskEnds, RedisFails,
           EndBackoff, End, Because, Reasons, Typed, WorkersTyped
  <1>5. key' \in [Workers -> Nat]
    BY <1>2, <1>3 DEF WorkerStep, Start, Ready, Fire, Beat, ClaimNothing, Claim, TaskEnds, RedisFails,
           EndBackoff, End, SetKey, Goes, Typed, WorkersTyped
  <1>6. fires' \in [Workers -> Nat]
    BY <1>2, <1>3 DEF WorkerStep, Start, Ready, Fire, Beat, ClaimNothing, Claim, TaskEnds, RedisFails,
           EndBackoff, End, Goes, Typed, WorkersTyped, Interval
  <1>7. at'[w] # "gone" => Accepts(env[w])
    BY <1>3 DEF WorkerStep, Start, Ready, Fire, Beat, ClaimNothing, Claim, TaskEnds, RedisFails,
           EndBackoff, End, Goes
  <1>8. fires'[w] = 0 \/ fires'[w] = fires[w] \/ fires'[w] = Interval(w)
    BY DEF WorkerStep, Start, Ready, Fire, Beat, ClaimNothing, Claim, TaskEnds, RedisFails,
           EndBackoff, End, Typed, WorkersTyped, Interval
  <1>9. \A v \in Workers : at'[v] # "gone" => (Accepts(env[v]) /\ fires[v] <= Interval(v))'
    <2> SUFFICES ASSUME NEW v \in Workers, at'[v] # "gone"
                 PROVE  (Accepts(env[v]) /\ fires[v] <= Interval(v))'
      OBVIOUS
    <2>1. (Accepts(env[v]) <=> Accepts(env[v])') /\ Interval(v)' = Interval(v)
      BY <1>1 DEF Interval, Config
    <2>2. CASE v = w
      <3>1. Interval(w) \in Nat /\ (fires[w] <= Interval(w) \/ at[w] = "gone")
        BY <1>2, <1>7, <2>2 DEF Typed, WorkersTyped
      <3>2. at[w] = "gone" => fires'[w] = 0
        BY DEF Typed, WorkersTyped, WorkerStep, Start, Ready, Fire, Beat, ClaimNothing, Claim, TaskEnds, RedisFails,
               EndBackoff, End, Goes
      <3> QED BY <1>7, <1>8, <2>1, <2>2, <3>1, <3>2
    <2>3. CASE v # w
      <3>1. at'[v] = at[v] /\ fires'[v] = fires[v]
        BY <2>3, StepIsLocal DEF Local
      <3> QED BY <2>1, <3>1 DEF Typed, WorkersTyped
    <2> QED BY <2>2, <2>3
  <1>10. \A v \in Workers : at'[v] = "gone" => fires'[v] = 0
    <2>1. at'[w] = "gone" => fires'[w] = 0
      BY DEF WorkerStep, Start, Ready, Fire, Beat, ClaimNothing, Claim, TaskEnds, RedisFails,
             EndBackoff, End, Goes, Typed, WorkersTyped
    <2> QED BY <2>1, StepIsLocal DEF Local, Typed, WorkersTyped
  <1>11. (DOMAIN env = Workers /\ \A v \in Workers : env[v] \in Environments[v])'
    BY <1>1 DEF Typed, WorkersTyped
  <1> QED BY <1>1, <1>4, <1>5, <1>6, <1>9, <1>10, <1>11 DEF WorkersTyped

(* A step of a worker keeps its own heartbeat, and every other one, fresh. *)
LEMMA StepFresh ==
    ASSUME Typed, NEW w \in Workers, WorkerStep(w), NEW v \in Workers, Fresh(v)
    PROVE  Fresh(v)'
  <1>1. env' = env
    BY StepIsLocal DEF Local
  <1>2. Interval(v)' = Interval(v) /\ Offline(v)' = Offline(v) /\ Slack(v)' = Slack(v)
    BY <1>1 DEF Interval, Offline, Slack, Config
  <1>3. CASE v # w
    BY <1>2, <1>3, StepIsLocal DEF Local, Fresh
  <1>4. CASE v = w
    <2>1. /\ key[w] \in Nat /\ fires[w] \in Nat /\ delay[w] \in Nat /\ delay[w] <= MaxDelay
          /\ MaxDelay \in Nat /\ at[w] \in Places
      BY ListAssumption DEF Typed, WorkersTyped
    <2>2. ASSUME at[w] # "gone"
          PROVE  /\ Interval(w) \in Nat /\ Offline(w) \in Nat /\ Ttl(w) = Offline(w)
                 /\ Slack(w) \in Nat /\ Slack(w) >= Interval(w) /\ Slack(w) >= MaxDelay
                 /\ fires[w] <= Interval(w)
      BY <2>1, <2>2, AcceptedNumbers, ListAssumption DEF Typed, WorkersTyped, Slack, Max2
    <2>3. CASE Beat(w)
      <3>1. /\ at[w] = "beat" /\ at'[w] = "claim" /\ delay'[w] = 0 /\ key'[w] = Ttl(w)
            /\ fires'[w] = fires[w]
        BY <2>3 DEF Beat, Goes, SetKey, Typed, WorkersTyped
      <3> QED BY <1>2, <1>4, <2>1, <2>2, <3>1 DEF Fresh
    <2>4. CASE ClaimNothing(w)
      <3>1. /\ at[w] = "claim" /\ at'[w] = "waiting" /\ delay'[w] = 0 /\ key'[w] = key[w]
            /\ fires'[w] = fires[w] /\ reason'[w] = reason[w]
        BY <2>4 DEF ClaimNothing, Goes, Typed, WorkersTyped
      <3> QED BY <1>2, <1>4, <2>1, <2>2, <3>1 DEF Fresh
    <2>5. CASE Fire(w)
      <3>1. /\ at[w] = "waiting" /\ at'[w] = "beat" /\ delay'[w] = 0 /\ key'[w] = key[w]
            /\ fires[w] = 0 /\ reason'[w] = reason[w]
        BY <2>5 DEF Fire, Goes, Typed, WorkersTyped
      <3> QED BY <1>2, <1>4, <2>1, <2>2, <3>1 DEF Fresh
    <2>6. CASE Claim(w) \/ RedisFails(w) \/ End(w)
      <3>1. reason'[w] # "none"
        BY <2>6 DEF Claim, RedisFails, End, Because, Typed, WorkersTyped
      <3> QED BY <1>4, <3>1 DEF Fresh
    <2>7. CASE Start(w) \/ Ready(w) \/ TaskEnds(w) \/ EndBackoff(w)
      <3>1. at[w] \in {"gone", "start", "task", "backoff"} /\ reason'[w] = reason[w]
        BY <2>7 DEF Start, Ready, TaskEnds, EndBackoff, Goes
      <3> QED BY <1>4, <3>1 DEF Fresh
    <2> QED BY <2>3, <2>4, <2>5, <2>6, <2>7 DEF WorkerStep
  <1> QED BY <1>3, <1>4
(* Time ages every key and every timer by one; who is due is not held up   *)
(* for longer than the bound on delays.                                    *)
LEMMA TimeTyped ==
    ASSUME Typed, PassTime
    PROVE  WorkersTyped'
  <1>1. env' = env /\ at' = at /\ reason' = reason
    BY DEF PassTime
  <1>2. \A n \in Nat : Minus1(n) \in Nat /\ Minus1(n) <= n
    BY DEF Minus1
  <1>3. fires' \in [Workers -> Nat] /\ key' \in [Workers -> Nat]
    BY <1>2 DEF PassTime, Typed, WorkersTyped
  <1>4. delay' \in [Workers -> 0 .. MaxDelay]
    BY ListAssumption DEF PassTime, Typed, WorkersTyped
  <1>5. \A w \in Workers : fires'[w] \in Nat /\ fires'[w] <= fires[w]
    BY <1>2 DEF PassTime, Typed, WorkersTyped
  <1>6. \A w \in Workers : at'[w] # "gone" => (Accepts(env[w]) /\ fires[w] <= Interval(w))'
    <2> SUFFICES ASSUME NEW w \in Workers, at'[w] # "gone"
                 PROVE  (Accepts(env[w]) /\ fires[w] <= Interval(w))'
      OBVIOUS
    <2>1. Accepts(env[w])' /\ Accepts(env[w]) /\ Interval(w)' = Interval(w) /\ fires[w] <= Interval(w)
      BY <1>1 DEF Interval, Config, Typed, WorkersTyped
    <2>2. Interval(w) \in Nat /\ fires[w] \in Nat
      BY <2>1, AcceptedNumbers DEF Typed, WorkersTyped
    <2> QED BY <1>5, <2>1, <2>2
  <1>7. \A w \in Workers : at'[w] = "gone" => fires'[w] = 0
    BY <1>1 DEF PassTime, Minus1, Typed, WorkersTyped
  <1>8. (DOMAIN env = Workers /\ \A w \in Workers : env[w] \in Environments[w])'
    BY <1>1 DEF Typed, WorkersTyped
  <1> QED BY <1>1, <1>3, <1>4, <1>6, <1>7, <1>8 DEF WorkersTyped, Typed

LEMMA TimeFresh ==
    ASSUME Typed, PassTime, NEW w \in Workers, Fresh(w)
    PROVE  Fresh(w)'
  <1> SUFFICES ASSUME reason[w] = "none"
               PROVE  Fresh(w)'
    BY DEF PassTime, Fresh
  <1>1. /\ at'[w] = at[w] /\ reason'[w] = reason[w]
        /\ Interval(w)' = Interval(w) /\ Offline(w)' = Offline(w) /\ Slack(w)' = Slack(w)
    BY DEF PassTime, Interval, Offline, Slack, Config
  <1>2. /\ fires'[w] = Minus1(fires[w]) /\ key'[w] = Minus1(key[w])
        /\ delay'[w] = IF Prompt(w) THEN delay[w] + 1 ELSE 0
    BY DEF PassTime
  <1>3. /\ key[w] \in Nat /\ fires[w] \in Nat /\ delay[w] \in Nat
        /\ Interval(w) \in Nat /\ Offline(w) \in Nat /\ MaxDelay \in Nat
        /\ Slack(w) \in Nat /\ Slack(w) >= Interval(w)
    <2>1. Interval(w) \in Nat /\ Offline(w) \in Nat
      BY AcceptedNumbers DEF Typed, WorkersTyped, Fresh
    <2> QED BY <2>1, ListAssumption DEF Typed, WorkersTyped, Slack, Max2
  <1>4. at[w] \in {"waiting", "beat", "claim"}
    BY DEF Fresh
  <1>5. CASE at[w] = "claim"
    <2>1. Prompt(w)
      BY <1>5 DEF Prompt
    <2> QED BY <1>1, <1>2, <1>3, <1>5, <2>1 DEF Fresh, Minus1
  <1>6. CASE at[w] = "beat"
    <2>1. Prompt(w)
      BY <1>6 DEF Prompt
    <2> QED BY <1>1, <1>2, <1>3, <1>6, <2>1 DEF Fresh, Minus1
  <1>7. CASE at[w] = "waiting" /\ fires[w] = 0
    <2>1. Prompt(w)
      BY <1>7 DEF Prompt
    <2> QED BY <1>1, <1>2, <1>3, <1>7, <2>1 DEF Fresh, Minus1
  <1>8. CASE at[w] = "waiting" /\ fires[w] > 0
    <2>1. ~Prompt(w)
      BY <1>8 DEF Prompt
    <2> QED BY <1>1, <1>2, <1>3, <1>8, <2>1 DEF Fresh, Minus1
  <1> QED BY <1>3, <1>4, <1>5, <1>6, <1>7, <1>8

-----------------------------------------------------------------------------
(* A listing under way: what was there throughout, and is there still, is  *)
(* found, in the batch to be read, or owed by the SCAN.                    *)
Listed ==
    /\ listing.step \in {"scan", "get"} =>
         /\ listing.throughout \subseteq Present
         /\ listing.throughout \subseteq listing.found \cup listing.owed \cup listing.batch
    /\ listing.step = "scan" => listing.batch = {}
    /\ listing.step = "get" /\ listing.last => listing.owed = {}
    /\ listing.step = "answered" => listing.throughout \subseteq listing.found

LEMMA ListStepListed ==
    ASSUME Typed, Listed, ListStep, key' = key
    PROVE  Listed' /\ listing' \in Listing
  <1>1. Present' = Present /\ Present \in SUBSET Workers
    BY DEF Present
  <1>2. CASE BeginList
    BY <1>1, <1>2 DEF BeginList, NoListing, Listed, Listing
  <1>3. CASE EndList
    BY <1>1, <1>3 DEF EndList, NoListing, Listed, Listing
  <1>4. CASE EndBatch
    BY <1>1, <1>4 DEF EndBatch, AfterBatch, Listed, Listing, Typed
  <1>5. ASSUME NEW batch \in SUBSET Workers, NEW last \in BOOLEAN, Scan(batch, last)
        PROVE  Listed' /\ listing' \in Listing
    BY <1>1, <1>5 DEF Scan, Listed, Listing, Typed
  <1>6. ASSUME NEW w \in Workers, Get(w)
        PROVE  Listed' /\ listing' \in Listing
    BY <1>1, <1>6 DEF Get, Listed, Listing, Typed
  <1> QED BY <1>2, <1>3, <1>4, <1>5, <1>6 DEF ListStep

(* While a worker or time moves, a listing keeps its place, and what has   *)
(* gone is no longer among what was there throughout.                      *)
LEMMA WatchedListed ==
    ASSUME Typed, Listed, listing' = Watched
    PROVE  Listed' /\ listing' \in Listing
  <1>1. Present' = {w \in Workers : key'[w] > 0}
    BY DEF Present
  <1>2. CASE listing.step = "answered"
    BY <1>2 DEF Watched, Listed, Typed
  <1>3. CASE listing.step # "answered"
    <2>1. listing' = [listing EXCEPT !.throughout = @ \cap Present', !.owed = @ \cap Present']
      BY <1>1, <1>3 DEF Watched
    <2> HIDE DEF Present
    <2>2. listing' \in Listing
      BY <2>1 DEF Typed, Listing
    <2>3. Listed'
      BY <1>3, <2>1 DEF Listed, Typed, Listing
    <2> QED BY <2>2, <2>3
  <1> QED BY <1>2, <1>3

-----------------------------------------------------------------------------
(* The inductive invariant *)
IInv == Typed /\ (\A w \in Workers : Fresh(w)) /\ Listed

LEMMA InitIInv == Init => IInv
  <1> SUFFICES ASSUME Init PROVE IInv
    OBVIOUS
  <1>1. DOMAIN env = Workers /\ \A w \in Workers : env[w] \in Environments[w]
    BY DEF Init
  <1>2. WorkersTyped
    BY <1>1, ListAssumption DEF Init, WorkersTyped, Places, Reasons
  <1>3. listing \in Listing /\ Listed
    BY DEF Init, NoListing, Listing, Listed
  <1>4. \A w \in Workers : Fresh(w)
    BY DEF Init, Fresh
  <1> QED BY <1>2, <1>3, <1>4 DEF IInv, Typed

LEMMA NextIInv == IInv /\ [Next]_vars => IInv'
  <1> SUFFICES ASSUME IInv, [Next]_vars PROVE IInv'
    OBVIOUS
  <1>1. ASSUME NEW w \in Workers, WorkerStep(w), listing' = Watched
        PROVE  IInv'
    <2>1. WorkersTyped'
      BY <1>1, StepTyped DEF IInv
    <2>2. \A v \in Workers : Fresh(v)'
      BY <1>1, StepFresh DEF IInv
    <2> QED BY <1>1, <2>1, <2>2, WatchedListed DEF IInv, Typed
  <1>2. CASE PassTime /\ listing' = Watched
    <2>1. WorkersTyped'
      BY <1>2, TimeTyped DEF IInv
    <2>2. \A v \in Workers : Fresh(v)'
      BY <1>2, TimeFresh DEF IInv
    <2> QED BY <1>2, <2>1, <2>2, WatchedListed DEF IInv, Typed
  <1>3. ASSUME UNCHANGED <<workerVars, key>>
        PROVE  WorkersTyped' /\ \A v \in Workers : Fresh(v)'
    <2>1. WorkersTyped'
      BY <1>3 DEF IInv, Typed, WorkersTyped, workerVars, Interval, Config
    <2>2. \A v \in Workers : Fresh(v)'
      BY <1>3 DEF IInv, Fresh, workerVars, Interval, Offline, Slack, Config
    <2> QED BY <2>1, <2>2
  <1>4. CASE ListStep /\ UNCHANGED <<workerVars, key>>
    BY <1>3, <1>4, ListStepListed DEF IInv, Typed
  <1>5. CASE UNCHANGED vars
    <2>1. Listed' /\ listing' \in Listing
      BY <1>5 DEF vars, IInv, Typed, Listed, Present
    <2> QED BY <1>3, <1>5, <2>1 DEF vars, workerVars, IInv, Typed
  <1> QED BY <1>1, <1>2, <1>4, <1>5 DEF Next

LEMMA AlwaysIInv == Spec => []IInv
  BY InitIInv, NextIInv, PTL DEF Spec

(* Every state of the workers, the keys and the listing has its type, and  *)
(* a worker that runs has an interval and a lease of more than nothing.    *)
THEOREM WorkersHaveTypes == Spec => []TypeOK
  <1>1. IInv => TypeOK
    BY TypedImplies DEF IInv
  <1> QED BY <1>1, AlwaysIInv, PTL

(* A worker whose settings leave room for the delays, and that has had     *)
(* neither a task nor an error since its last heartbeat, is online.        *)
THEOREM IdleWorkersAreOnline == Spec => []OfflineHasReason
  <1>1. IInv => OfflineHasReason
    BY FreshImplies DEF IInv
  <1> QED BY <1>1, AlwaysIInv, PTL

(* A list that was answered has every worker that was online throughout.   *)
THEOREM ListsAreComplete == Spec => []ListingComplete
  <1>1. IInv => ListingComplete
    BY DEF IInv, Listed, ListingComplete
  <1> QED BY <1>1, AlwaysIInv, PTL
===============================================================================
