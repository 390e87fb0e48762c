--------------------------- MODULE MCSchedulerTick ---------------------------
(* SchedulerTick for TLC: two admins; in units of ten seconds, with a lock *)
(* of three of them and a period of six.                                   *)
EXTENDS SchedulerTick, TLC

CONSTANTS a1, a2, j1, j2

(* A fire time every ten seconds, and one every two minutes. *)
MCOften == [j \in Jobs |-> Times \ {NoTime}]
MCSeldom == [j \in Jobs |-> {2, 14}]

MCSymmetry == Permutations({a1, a2}) \cup Permutations({j1, j2})
===============================================================================
