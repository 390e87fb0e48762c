----------------------------- MODULE MCDecisions -----------------------------
(* Decisions for TLC: texts of up to three parts, lists of up to three     *)
(* workers below, at and above their capacity, keys whose hash wraps, and  *)
(* fire times in any order, repeated, at both ends of the window.          *)
EXTENDS Decisions

UpTo(n, S) == UNION {[1 .. k -> S] : k \in 0 .. n}

MCSelectors == UpTo(3, Parts)
MCKeys == UpTo(3, {3, 97, 255})
MCWorkerLists == UpTo(3, [active_count: 0 .. 2, capacity: 1 .. 2])
MCFireTimes == UpTo(3, 1 .. 5)
===============================================================================
