---------------------------- MODULE WorkerSettings ----------------------------
(***************************************************************************)
(* WorkerConfig::from_env.  A variable of the environment is unset, holds  *)
(* what cannot be read as what is asked for, or holds a value.             *)
(***************************************************************************)
EXTENDS Naturals

CONSTANTS
    Unset, Malformed,
    DefaultInterval, DefaultOffline     \* 10 s and 30 s

ASSUME SettingsAssumption ==
    /\ DefaultInterval \in Nat \ {0} /\ DefaultOffline \in Nat \ {0}
    /\ Unset \notin Nat /\ Malformed \notin Nat

Texts == {"blank", "text", Unset}
Numbers == Nat \cup {Unset, Malformed}

Environment == [DATABASE_URL: Texts, REDIS_URL: Texts, ACCESS_TOKEN: Texts, WORKER_ID: Texts,
                WORKER_LABELS: {"labels", Malformed, Unset},
                WORKER_MAX_CONCURRENCY: Numbers,
                WORKER_HEARTBEAT_INTERVAL_SECONDS: Numbers,
                WORKER_OFFLINE_AFTER_SECONDS: Numbers,
                ENABLE_SHELL_EXECUTOR: {"true", "false", Malformed, Unset}]

Required(value) == value = "text"

(* Every number must be positive: interval would panic on a zero. *)
MutantReadable(value) == value # Malformed

Readable(value) == value \notin {Malformed, 0}

OrDefault(value, default) == IF value = Unset THEN default ELSE value

Accepts(env) ==
    /\ \A name \in {"DATABASE_URL", "REDIS_URL", "ACCESS_TOKEN", "WORKER_ID"} :
         Required(env[name])
    /\ \A name \in {"WORKER_MAX_CONCURRENCY", "WORKER_HEARTBEAT_INTERVAL_SECONDS",
                    "WORKER_OFFLINE_AFTER_SECONDS"} : Readable(env[name])
    /\ env.WORKER_LABELS # Malformed
    /\ env.ENABLE_SHELL_EXECUTOR # Malformed

(* What the loop of an accepted worker goes by.  Nothing relates the two.  *)
WorkerConfig(env) ==
    [heartbeat_interval |-> OrDefault(env.WORKER_HEARTBEAT_INTERVAL_SECONDS, DefaultInterval),
     offline_after |-> OrDefault(env.WORKER_OFFLINE_AFTER_SECONDS, DefaultOffline)]
===============================================================================
