------------------------------ MODULE WorkerList ------------------------------
(***************************************************************************)
(* Who is online: a worker's tick sets its heartbeat key for offline_after *)
(* seconds, a task or an error holds its next tick up, and an admin lists  *)
(* the keys that are there with a SCAN and a GET of each.  Timers count    *)
(* down, so that no clock and no horizon is needed.                        *)
(***************************************************************************)
EXTENDS WorkerSettings, FiniteSets

CONSTANTS
    Workers,
    Environments,   \* what the environment of each worker may hold
    MaxDelay        \* assumed: a step of the loop is not held up for longer

ASSUME ListAssumption ==
    /\ DOMAIN Environments = Workers
    /\ \A w \in Workers : Environments[w] \subseteq Environment
    /\ MaxDelay \in Nat

VARIABLES
    env,        \* the worker's environment, the same after a restart
    at,         \* where its process is
    fires,      \* time to the next tick of its interval
    delay,      \* time its current step has taken
    reason,     \* why it may not have sent a heartbeat for long (history)
    key,        \* time its heartbeat key will live, 0 when there is none
    listing     \* a call of list_worker_heartbeats, with its history

workerVars == <<env, at, fires, delay, reason>>
vars == <<env, at, fires, delay, reason, key, listing>>

Reasons == {"none", "start", "task", "failure"}
Max2(m, n) == IF m > n THEN m ELSE n
Config(w) == WorkerConfig(env[w])

(* throughout: what was there all the while; owed: what of it no SCAN has  *)
(* returned yet.                                                           *)
NoListing == [step |-> "idle", last |-> FALSE, batch |-> {}, found |-> {},
              throughout |-> {}, owed |-> {}]

Init ==
    /\ env \in {f \in [Workers -> UNION {Environments[w] : w \in Workers}] :
                 \A w \in Workers : f[w] \in Environments[w]}
    /\ at = [w \in Workers |-> "gone"]
    /\ fires = [w \in Workers |-> 0]
    /\ delay = [w \in Workers |-> 0]
    /\ reason = [w \in Workers |-> "start"]
    /\ key = [w \in Workers |-> 0]
    /\ listing = NoListing

-----------------------------------------------------------------------------
(* The workers *)

Goes(w, from, to) ==
    /\ at[w] = from
    /\ at' = [at EXCEPT ![w] = to]
    /\ delay' = [delay EXCEPT ![w] = 0]
    /\ UNCHANGED env

Because(w, r) == reason' = [reason EXCEPT ![w] = r]

(* A process whose settings are refused ends before its loop. *)
Start(w) ==
    /\ Accepts(env[w])
    /\ Goes(w, "gone", "start")
    /\ UNCHANGED <<fires, reason, key>>

(* PostgreSQL and Redis are reached; the first tick is due at once. *)
Ready(w) ==
    /\ Goes(w, "start", "waiting")
    /\ UNCHANGED <<fires, reason, key>>

(* MissedTickBehavior::Delay: the next tick is an interval after this one, *)
(* however late this one is.                                               *)
Fire(w) ==
    /\ fires[w] = 0
    /\ Goes(w, "waiting", "beat")
    /\ fires' = [fires EXCEPT ![w] = Config(w).heartbeat_interval]
    /\ UNCHANGED <<reason, key>>

MutantTtl(w) == Max2(Config(w).heartbeat_interval, 1)

Ttl(w) == Max2(Config(w).offline_after, 1)

SetKey(w) == key' = [key EXCEPT ![w] = Ttl(w)]

Beat(w) ==
    /\ Goes(w, "beat", "claim")
    /\ SetKey(w)
    /\ Because(w, "none")
    /\ UNCHANGED fires

ClaimNothing(w) ==
    /\ Goes(w, "claim", "waiting")
    /\ UNCHANGED <<fires, reason, key>>

(* The tick awaits the task, of any length; no heartbeat is sent meanwhile. *)
Claim(w) ==
    /\ Goes(w, "claim", "task")
    /\ Because(w, "task")
    /\ UNCHANGED <<fires, key>>

TaskEnds(w) ==
    /\ Goes(w, "task", "waiting")
    /\ UNCHANGED <<fires, reason, key>>

(* A call to Redis fails; a heartbeat may have been set all the same.      *)
RedisFails(w) ==
    /\ \/ Goes(w, "beat", "backoff") /\ (SetKey(w) \/ UNCHANGED key)
       \/ Goes(w, "claim", "backoff") /\ UNCHANGED key
    /\ Because(w, "failure")
    /\ UNCHANGED fires

(* Reconnected, or not, and slept. *)
EndBackoff(w) ==
    /\ Goes(w, "backoff", "waiting")
    /\ UNCHANGED <<fires, reason, key>>

(* A shutdown, a fatal error, a crash: the timer is gone with the process. *)
End(w) ==
    /\ \E from \in {"start", "waiting", "beat", "claim", "task", "backoff"} : Goes(w, from, "gone")
    /\ fires' = [fires EXCEPT ![w] = 0]
    /\ Because(w, "start")
    /\ UNCHANGED key

Prompt(w) == at[w] \in {"beat", "claim"} \/ (at[w] = "waiting" /\ fires[w] = 0)

Minus1(n) == IF n = 0 THEN 0 ELSE n - 1

PassTime ==
    /\ \A w \in Workers : Prompt(w) => delay[w] < MaxDelay
    /\ delay' = [w \in Workers |-> IF Prompt(w) THEN delay[w] + 1 ELSE 0]
    /\ fires' = [w \in Workers |-> Minus1(fires[w])]
    /\ key' = [w \in Workers |-> Minus1(key[w])]
    /\ UNCHANGED <<env, at, reason>>

-----------------------------------------------------------------------------
(* list_worker_heartbeats *)

Present == {w \in Workers : key[w] > 0}

BeginList ==
    /\ listing.step = "idle"
    /\ listing' = [NoListing EXCEPT !.step = "scan", !.throughout = Present, !.owed = Present]

(* Redis promises that a full iteration returns what was there throughout. *)
Scan(batch, last) ==
    /\ listing.step = "scan"
    /\ batch \subseteq Present
    /\ last => listing.owed \subseteq batch
    /\ listing' = [listing EXCEPT !.step = "get", !.last = last, !.batch = batch,
                                  !.owed = @ \ batch]

(* A key that is gone by now is passed over. *)
Get(w) ==
    /\ listing.step = "get"
    /\ w \in listing.batch
    /\ listing' = [listing EXCEPT !.batch = @ \ {w},
                                  !.found = IF w \in Present THEN @ \cup {w} ELSE @]

MutantAfterBatch == "answered"

AfterBatch == IF listing.last THEN "answered" ELSE "scan"

EndBatch ==
    /\ listing.step = "get"
    /\ listing.batch = {}
    /\ listing' = [listing EXCEPT !.step = AfterBatch]

(* The answer is sent, or a call to Redis fails. *)
EndList ==
    /\ listing.step # "idle"
    /\ listing' = NoListing

ListStep ==
    \/ BeginList \/ EndBatch \/ EndList
    \/ \E batch \in SUBSET Workers, last \in BOOLEAN : Scan(batch, last)
    \/ \E w \in Workers : Get(w)

(* The history of a call that is under way *)
Watched ==
    IF listing.step = "answered" THEN listing
    ELSE [listing EXCEPT !.throughout = @ \cap {w \in Workers : key'[w] > 0},
                         !.owed = @ \cap {w \in Workers : key'[w] > 0}]

-----------------------------------------------------------------------------
WorkerStep(w) ==
    \/ Start(w) \/ Ready(w) \/ Fire(w) \/ Beat(w) \/ ClaimNothing(w) \/ Claim(w)
    \/ TaskEnds(w) \/ RedisFails(w) \/ EndBackoff(w) \/ End(w)

Next ==
    \/ ((\E w \in Workers : WorkerStep(w)) \/ PassTime) /\ listing' = Watched
    \/ ListStep /\ UNCHANGED <<workerVars, key>>

Spec == Init /\ [][Next]_vars

-----------------------------------------------------------------------------
TypeOK ==
    /\ DOMAIN env = Workers /\ \A w \in Workers : env[w] \in Environments[w]
    /\ at \in [Workers -> {"gone", "start", "waiting", "beat", "claim", "task", "backoff"}]
    /\ \A w \in Workers : at[w] # "gone" => Config(w).heartbeat_interval > 0 /\ Config(w).offline_after > 0
    /\ fires \in [Workers -> Nat]
    /\ delay \in [Workers -> 0 .. MaxDelay]
    /\ reason \in [Workers -> Reasons]
    /\ key \in [Workers -> Nat]
    /\ listing \in [step: {"idle", "scan", "get", "answered"}, last: BOOLEAN,
                    batch: SUBSET Workers, found: SUBSET Workers,
                    throughout: SUBSET Workers, owed: SUBSET Workers]

(* A worker that runs, and has neither had a task nor met an error since   *)
(* its last heartbeat, is online, if its settings leave room for a tick    *)
(* that is late and a heartbeat that is late.  With less room, which no    *)
(* check of the settings asks for, it is offline now and then.             *)
RoomForDelay(w) ==
    Config(w).offline_after > Max2(Config(w).heartbeat_interval, MaxDelay) + 2 * MaxDelay

OfflineHasReason ==
    \A w \in Workers :
        at[w] # "gone" /\ RoomForDelay(w) /\ key[w] = 0 => reason[w] # "none"

(* A list that was answered names every worker that was online all the     *)
(* while, whatever else expired, was set, or stopped meanwhile.            *)
ListingComplete ==
    listing.step = "answered" => listing.throughout \subseteq listing.found
===============================================================================
