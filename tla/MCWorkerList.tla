----------------------------- MODULE MCWorkerList -----------------------------
(* WorkerList for TLC: a time unit is five seconds.  The environments are  *)
(* complete, lack a required text, or differ in the numbers: the least     *)
(* room for delays, one second too little, none at all, and no number.     *)
EXTENDS WorkerList

CONSTANTS w1, w2

Complete == [DATABASE_URL |-> "text", REDIS_URL |-> "text", ACCESS_TOKEN |-> "text",
             WORKER_ID |-> "text", WORKER_LABELS |-> Unset, WORKER_MAX_CONCURRENCY |-> Unset,
             WORKER_HEARTBEAT_INTERVAL_SECONDS |-> Unset,
             WORKER_OFFLINE_AFTER_SECONDS |-> Unset, ENABLE_SHELL_EXECUTOR |-> Unset]

Tight(n) == [Complete EXCEPT !.WORKER_HEARTBEAT_INTERVAL_SECONDS = 1,
                             !.WORKER_OFFLINE_AFTER_SECONDS = n]

Various ==
    {Complete, Tight(3), Tight(4),
     [Complete EXCEPT !.WORKER_ID = "blank"],
     [Complete EXCEPT !.WORKER_MAX_CONCURRENCY = Malformed],
     [Complete EXCEPT !.WORKER_HEARTBEAT_INTERVAL_SECONDS = 0],
     [Complete EXCEPT !.WORKER_OFFLINE_AFTER_SECONDS = 1]}

MCEnvironments == [w \in Workers |-> IF w = w1 THEN Various ELSE {Tight(2)}]
===============================================================================
