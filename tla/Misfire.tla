-------------------------------- MODULE Misfire --------------------------------
(***************************************************************************)
(* apply_misfire: which of a job's fire times, given in any order and      *)
(* perhaps more than once, are executed now.                               *)
(***************************************************************************)
EXTENDS Integers, FiniteSets, SequencesExt

Modes == {"ignore", "fire_once_now", "catch_up_all", "catch_up_window"}

(* sort, filter and last of a vector (SortSeq and SelectSeq have no        *)
(* definition that proofs can use)                                         *)
Sorted(times) ==
    LET order == CHOOSE p \in Bijection(DOMAIN times, DOMAIN times) :
                    \A i, j \in DOMAIN times : i < j => times[p[i]] <= times[p[j]]
    IN [i \in DOMAIN times |-> times[order[i]]]

Kept(times, Keep) ==
    FoldLeft(LAMBDA kept, time : IF time \in Keep THEN Append(kept, time) ELSE kept, <<>>, times)

LastOf(times) == IF times = <<>> THEN <<>> ELSE <<times[Len(times)]>>

MutantInWindow(time, now, grace) == time > now - grace

InWindow(time, now, grace) == time >= now - grace

ApplyMisfire(mode, fire_times, now, grace) ==
    LET passed == Kept(Sorted(fire_times), {t \in Int : t <= now})
    IN CASE mode = "ignore" -> <<>>
         [] mode = "fire_once_now" -> LastOf(passed)
         [] mode = "catch_up_all" -> passed
         [] mode = "catch_up_window" -> Kept(passed, {t \in Int : InWindow(t, now, grace)})

-----------------------------------------------------------------------------
Count(times, t) == Cardinality({i \in DOMAIN times : times[i] = t})

(* How often a time is to be executed *)
Due(mode, fire_times, now, grace, t) ==
    LET missed == {fire_times[i] : i \in DOMAIN fire_times} \cap {s \in Int : s <= now}
    IN CASE mode = "ignore" -> 0
         [] mode = "fire_once_now" -> IF t \in missed /\ \A s \in missed : s <= t THEN 1 ELSE 0
         [] mode = "catch_up_all" -> IF t \in missed THEN Count(fire_times, t) ELSE 0
         [] mode = "catch_up_window" ->
              IF t \in missed /\ now - t <= grace THEN Count(fire_times, t) ELSE 0

(* The answer has each time as often as the mode asks for, in order, and   *)
(* none that is still to come.                                             *)
RightTimes(mode, fire_times, now, grace, answer) ==
    /\ \A t \in {fire_times[i] : i \in DOMAIN fire_times} \cup {answer[i] : i \in DOMAIN answer} :
         Count(answer, t) = Due(mode, fire_times, now, grace, t)
    /\ \A i, j \in DOMAIN answer : i < j => answer[i] <= answer[j]
===============================================================================
