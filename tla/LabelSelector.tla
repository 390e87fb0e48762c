--------------------------- MODULE LabelSelector ---------------------------
(***************************************************************************)
(* A job's label selector is a text "k1=v1,k2=v2,..." that says which      *)
(* workers may run it.  Two pieces of code read it: the Lua script that    *)
(* claims an item for a worker, and domain/labels.rs.  A selector is a     *)
(* sequence of parts in the order of the text, blank parts dropped (both   *)
(* readers skip them); a part is a key and a value, or Malformed when it   *)
(* has no "=", or an empty key or value.  Labels are a set of pairs with   *)
(* at most one value per key.                                              *)
(***************************************************************************)
EXTENDS Naturals, Sequences

CONSTANTS LabelKeys, LabelValues

Malformed == [key |-> "", value |-> ""]

Parts == [key: LabelKeys, value: LabelValues] \cup {Malformed}

Verdicts == {"match", "mismatch", "invalid"}

(* A part the loop of the script goes on from. *)
PartHolds(labels, part) == part # Malformed /\ part \in labels

(* selector_matches: the parts are read left to right and the first one    *)
(* that is malformed or does not hold decides; later parts are not read.   *)
FirstUnmet(labels, selector, i) ==
    /\ i \in DOMAIN selector
    /\ ~PartHolds(labels, selector[i])
    /\ \A j \in 1 .. (i - 1) : PartHolds(labels, selector[j])

MutantSelectorMatches(labels, selector) ==
    IF selector = <<>> \/ \E i \in DOMAIN selector : PartHolds(labels, selector[i])
    THEN "match"
    ELSE "mismatch"

SelectorMatches(labels, selector) ==
    IF \A i \in DOMAIN selector : PartHolds(labels, selector[i])
    THEN "match"
    ELSE IF \E i \in DOMAIN selector :
               /\ FirstUnmet(labels, selector, i)
               /\ selector[i] = Malformed
         THEN "invalid"
         ELSE "mismatch"
=============================================================================
