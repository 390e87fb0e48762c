------------------------------- MODULE Decisions -------------------------------
(***************************************************************************)
(* The pure decisions of the program, each with any of its inputs: a       *)
(* question is asked and answered.                                         *)
(***************************************************************************)
EXTENDS SelectorReaders, Routing, Misfire

CONSTANTS
    Selectors,      \* selectors, and settings of labels
    Keys,           \* keys of the hash, as bytes
    WorkerLists,    \* live workers that match
    FireTimes, Nows, Graces

ASSUME DecisionsAssumption ==
    /\ Selectors \subseteq Seq(Parts)
    /\ Keys \subseteq Seq(Nat)
    /\ WorkerLists \subseteq Seq([active_count: Nat, capacity: Nat])
    /\ FireTimes \subseteq Seq(Int) /\ Nows \subseteq Int /\ Graces \subseteq Int

VARIABLES question, answered, answer

vars == <<question, answered, answer>>

Questions ==
    [about: {"selector"}, selector: Selectors,
     labels: {Entries(text) : text \in {t \in Selectors : WellFormed(t)}}]
    \cup [about: {"worker"}, strategy: RouteStrategies, key: Keys, workers: WorkerLists]
    \cup [about: {"misfire"}, mode: Modes, fire_times: FireTimes, now: Nows, grace: Graces]

Init == question \in Questions /\ answered = FALSE /\ answer = <<>>

Answer(q) ==
    CASE q.about = "selector" -> <<SelectorMatches(q.labels, q.selector), RustMatches(q.labels, q.selector)>>
      [] q.about = "worker" -> SelectWorker(q.strategy, q.key, q.workers)
      [] q.about = "misfire" -> ApplyMisfire(q.mode, q.fire_times, q.now, q.grace)

Decide ==
    /\ ~answered
    /\ answered' = TRUE
    /\ answer' = Answer(question)
    /\ UNCHANGED question

Spec == Init /\ [][Decide]_vars

Answered(about) == answered /\ question.about = about

(* The two readers of a job's selector, the claim script's and the one of  *)
(* domain/labels.rs, give the same verdict where no key has two values     *)
(* and nothing is malformed, and elsewhere the script matches no more than *)
(* the other and rejects no more.                                          *)
ReadersAgree == Answered("selector") => Agree(question.selector, answer[1], answer[2])

(* select_worker answers with a worker its strategy permits, and with an   *)
(* error only if there is none: the first, the first of the least active,  *)
(* the first that is not full, the one the whole key hashes to, and for    *)
(* "random" and "round_robin" any worker of the list.                      *)
RoutedRight ==
    Answered("worker") =>
        RightWorker(question.strategy, question.key, question.workers, answer)

(* apply_misfire fires what the policy asks for, as often and in order.    *)
MisfiredRight ==
    Answered("misfire") =>
        RightTimes(question.mode, question.fire_times, question.now, question.grace, answer)
===============================================================================
