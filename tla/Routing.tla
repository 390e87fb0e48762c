-------------------------------- MODULE Routing --------------------------------
(***************************************************************************)
(* select_worker: which of the live workers that match, in the order they  *)
(* are given, an execution of a job is for.                                *)
(***************************************************************************)
EXTENDS Naturals, Sequences, SequencesExt

CONSTANT Modulus    \* 2^64 in the code: the hash wraps

ASSUME ModulusAssumption == Modulus \in Nat \ {0}

(* The strategies of a job; broadcast has no selection. *)
RouteStrategies == {"random", "round_robin", "least_active", "failover",
                    "busyover", "consistent_hash", "broadcast"}

Error == [error |-> TRUE]

MutantIdle(worker) == worker.active_count <= worker.capacity

Idle(worker) == worker.active_count < worker.capacity

(* Places in the list, 0 for none *)
LeastActive(workers) ==
    SelectInSeq(workers, LAMBDA w : \A i \in DOMAIN workers : w.active_count <= workers[i].active_count)

Busyover(workers) == SelectInSeq(workers, Idle)

StableIndex(key, len) ==
    FoldLeft(LAMBDA hash, byte : (hash * 31 + byte) % Modulus, 0, key) % len

Selected(strategy, key, workers) ==
    CASE strategy \in {"random", "round_robin", "failover"} -> 1
      [] strategy = "least_active" -> LeastActive(workers)
      [] strategy = "busyover" -> Busyover(workers)
      [] strategy = "consistent_hash" -> StableIndex(key, Len(workers)) + 1

(* try_from and select_worker *)
SelectWorker(strategy, key, workers) ==
    IF strategy = "broadcast" \/ workers = <<>> THEN Error
    ELSE LET i == Selected(strategy, key, workers)
         IN IF i = 0 THEN Error ELSE workers[i]

-----------------------------------------------------------------------------
(* What the design says of the answer, the order of the list breaking ties *)
(* as in the code.  The hash of a key is a polynomial in 31, taken modulo  *)
(* 2^64 at the end.                                                        *)
Hash(key) ==
    LET Power[j \in 0 .. Len(key)] == IF j = 0 THEN 1 ELSE 31 * Power[j - 1]
    IN FoldLeftDomain(LAMBDA sum, i : sum + key[i] * Power[Len(key) - i], 0, key) % Modulus

(* The strategy permits the i-th worker.  For "random" and "round_robin"   *)
(* the design wants a draw and a cursor in Redis: of one answer nothing    *)
(* follows but that it is some worker of the list.  (select_worker has     *)
(* neither, and answers with the first.)                                   *)
Permits(strategy, key, workers, i) ==
    CASE strategy = "failover" -> i = 1
      [] strategy = "least_active" ->
            \A j \in DOMAIN workers :
                /\ workers[i].active_count <= workers[j].active_count
                /\ j < i => workers[i].active_count < workers[j].active_count
      [] strategy = "busyover" ->
            /\ workers[i].capacity > workers[i].active_count
            /\ \A j \in 1 .. (i - 1) : workers[j].capacity <= workers[j].active_count
      [] strategy = "consistent_hash" -> i - 1 = Hash(key) % Len(workers)
      [] strategy = "broadcast" -> FALSE
      [] strategy \in {"random", "round_robin"} -> TRUE

(* An answer is a worker the strategy permits, and there is an error       *)
(* exactly when it permits none.  The hash may wrap as often as it likes   *)
(* and is still the polynomial of the whole key.                           *)
RightWorker(strategy, key, workers, answer) ==
    LET permitted == {i \in DOMAIN workers : Permits(strategy, key, workers, i)}
    IN IF permitted = {} THEN answer = Error ELSE \E i \in permitted : answer = workers[i]
===============================================================================
