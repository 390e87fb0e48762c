--------------------------- MODULE MCDispatchQueue ---------------------------
(* Instances of DispatchQueue for TLC.  Two workers that differ in one     *)
(* label; one execution for either, and one whose selector only the second *)
(* worker reads to its malformed part: the first one rotates it.           *)
EXTENDS DispatchQueue, TLC

CONSTANTS w1, w2, e1, e2

Shell == [key |-> "executor", value |-> "shell"]
Http == [key |-> "executor", value |-> "http"]
Trusted == [key |-> "trusted", value |-> "true"]

MCLabelKeys == {"executor", "trusted"}
MCLabelValues == {"shell", "http", "true"}

MCWorkerLabels == (w1 :> {Shell, Trusted}) @@ (w2 :> {Http, Trusted})

MCSelector == (e1 :> <<Trusted>>) @@ (e2 :> <<Http, Malformed>>)
===============================================================================
