------------------------------- MODULE HttpRun -------------------------------
(***************************************************************************)
(* HttpExecutor::execute: one request, whose time limit covers the whole   *)
(* exchange, and the beginning of its body.  A cancel is heard while the   *)
(* answer and each chunk of the body are awaited.                          *)
(***************************************************************************)
EXTENDS TaskExecutor, Naturals

CONSTANT BodyLimit      \* chunks of the body that are kept

ASSUME BodyAssumption == BodyLimit \in Nat

VARIABLES
    http,       \* where execute is
    expected,   \* the status is an expected one
    chunks      \* what is kept of the body

httpVars == <<http, expected, chunks>>

HttpInit == http = "off" /\ expected = FALSE /\ chunks = 0

(* The answer's status is all a success takes of the outside. *)
Respond ==
    /\ http = "send"
    /\ http' = "body"
    /\ expected' \in BOOLEAN
    /\ heard' = TRUE
    /\ done' = expected'
    /\ UNCHANGED <<cancelled, result, chunks>>

BodyAwaited == http = "body" /\ chunks < BodyLimit

Chunk ==
    /\ BodyAwaited
    /\ chunks' = chunks + 1
    /\ UNCHANGED <<executorVars, http, expected>>

(* The config cannot be read, the connection breaks, the time is up. *)
HttpFails ==
    /\ http = "send" \/ BodyAwaited
    /\ http' = "ended"
    /\ Return("error")
    /\ UNCHANGED <<expected, chunks>>

CancelHttp ==
    /\ cancelled
    /\ http = "send" \/ BodyAwaited
    /\ http' = "ended"
    /\ Return("cancelled")
    /\ UNCHANGED <<expected, chunks>>

(* The body is at its end, or there is enough of it. *)
HttpReturns ==
    /\ http = "body"
    /\ http' = "ended"
    /\ Return(IF expected THEN "succeeded" ELSE "failed")
    /\ UNCHANGED <<expected, chunks>>

HttpDropped ==
    /\ http \in {"send", "body"}
    /\ http' = "ended"
    /\ UNCHANGED <<expected, chunks>>

HttpStep == Respond \/ Chunk \/ HttpFails \/ CancelHttp \/ HttpReturns

HttpTypeOK ==
    /\ http \in {"off", "send", "body", "ended"}
    /\ expected \in BOOLEAN
    /\ chunks \in 0 .. BodyLimit
===============================================================================
