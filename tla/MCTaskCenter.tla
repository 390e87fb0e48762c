---------------------------- MODULE MCTaskCenter ----------------------------
(* TaskCenter for TLC: two workers; the second is not allowed to run what  *)
(* the labels let it claim of the second execution.                        *)
EXTENDS TaskCenter, TLC

CONSTANTS w1, w2, e1, e2

MCEligible == Workers \X Executions
MCDisabled == {<<w2, e2>>} \cap (Workers \X Executions)
MCSymmetry == Permutations({w1, w2})    \* where e2 is not there
===============================================================================
