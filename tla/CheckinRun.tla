------------------------------ MODULE CheckinRun ------------------------------
(***************************************************************************)
(* BugutvBuiltin and the job it runs: log in, read the points, check in,   *)
(* read the points again, log out.  Each request is awaited without a time *)
(* limit, and each await, the sleeps between requests included, ends when  *)
(* the job's future is dropped for a cancel.                               *)
(***************************************************************************)
EXTENDS TaskExecutor, Naturals, Sequences

VARIABLE checkin        \* the step it is at, 0 before, past the last one after

Requests == <<"config", "home page", "login", "points", "user page",
              "check in", "points", "user page", "logout">>

LastRequest == Len(Requests)
Under == 1 .. LastRequest

CheckinInit == checkin = 0

(* The site answers, with what the next request needs.  Its answer to the  *)
(* check-in itself may as well be a refusal: it is only logged, as is a    *)
(* failure of the last request.  The token is looked at before the first.  *)
RequestDone ==
    /\ checkin \in 1 .. LastRequest - 1 /\ ~Finished
    /\ Requests[checkin] = "config" => ~cancelled
    /\ checkin' = checkin + 1
    /\ heard' = (heard \/ Requests[checkin] = "check in")
    /\ MayServe(Requests[checkin] = "check in")
    /\ UNCHANGED <<cancelled, result>>

CheckinReturns ==
    /\ checkin = LastRequest /\ ~Finished
    /\ checkin' = LastRequest + 1
    /\ Return("succeeded")

(* A config that cannot be read, no answer, a refused login, a page        *)
(* without what is looked for.  The check-in may have been taken although  *)
(* its answer is lost.                                                     *)
RequestFails ==
    /\ checkin \in 1 .. LastRequest - 1 /\ ~Finished
    /\ checkin' = LastRequest + 1
    /\ result' = "error"
    /\ MayServe(Requests[checkin] = "check in")
    /\ UNCHANGED <<cancelled, heard>>

MutantCancelCheckin ==
    /\ cancelled
    /\ checkin \in {1, 2}
    /\ checkin' = LastRequest + 1
    /\ Return("cancelled")

CancelCheckin ==
    /\ cancelled
    /\ checkin \in Under
    /\ checkin' = LastRequest + 1
    /\ Return("cancelled")

CheckinDropped ==
    /\ checkin \in Under
    /\ checkin' = LastRequest + 1

SiteStep == RequestDone \/ RequestFails \/ CheckinReturns

CheckinTypeOK == checkin \in 0 .. LastRequest + 1
===============================================================================
