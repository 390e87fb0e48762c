----------------------------- MODULE TaskRun_proofs -----------------------------
(* Proofs about TaskRun: for any jobs, any limits of what is kept, any     *)
(* capacity of a pipe and any number of challenge pages.                   *)
EXTENDS TaskRun, TLAPS

Answers == {"succeeded", "failed", "cancelled", "error"}
Answered == result \in Answers

(* At most one executor is at work, and none before the dispatch.  What is *)
(* said of each part below is about its own variables while it is off, so  *)
(* that no step of another part concerns it.                               *)
OneExecutor ==
    /\ shell # "off" => http = "off" /\ checkin = 0 /\ driver = "off"
    /\ http # "off" => shell = "off" /\ checkin = 0 /\ driver = "off"
    /\ checkin # 0 => shell = "off" /\ http = "off" /\ driver = "off"
    /\ driver # "off" => shell = "off" /\ http = "off" /\ checkin = 0

CommonInv ==
    /\ cancelled \in BOOLEAN /\ result \in Results \cup {"none"}
    /\ heard \in BOOLEAN /\ done \in BOOLEAN
    /\ job \in Jobs /\ dispatched \in BOOLEAN
    /\ ~dispatched => /\ result = "none" /\ ~done
                      /\ shell = "off" /\ http = "off" /\ checkin = 0 /\ driver = "off"
    /\ OneExecutor
    /\ checkin # 0 \/ driver # "off" => ~Judges

HttpInv ==
    /\ HttpTypeOK
    /\ http \in {"send", "body"} => result = "none"
    /\ http = "send" => ~done
    /\ http = "body" => heard /\ (expected => done)

CheckinInv ==
    /\ checkin \in 0 .. 10
    /\ checkin \in 1 .. 9 => result = "none"
    /\ checkin \in 7 .. 9 => heard

(* A stream's summary is the beginning of all that was read from its pipe; *)
(* a reader ends when nobody is left to write, and is given up only when   *)
(* the one that is left has left the group.                                *)
Summary(s) ==
    /\ stream[s].piped <= stream[s].written
    /\ stream[s].reader # "aborted" =>
         stream[s].stored = Min2(Limit, stream[s].written - stream[s].piped)
    /\ stream[s].reader = "ended" => live = {} /\ stream[s].piped = 0
    /\ stream[s].reader = "aborted" => "escaped" \in started
    /\ stream[s].reader = "off" =>
         shell \in {"off", "spawn"} \/ (shell = "ended" /\ result \in {"error", "dropped"})

(* s is done with when execute is past its join. *)
PastJoin(s) ==
    \/ shell = "return" \/ (shell = "stderr" /\ s = "stdout")
    \/ shell = "ended" /\ Answered

ShellInv ==
    /\ ShellTypeOK
    /\ shell \in {"off", "spawn"} =>
         /\ live = {} /\ exit = "none" /\ outcome = "none"
         /\ \A s \in Streams : stream[s] = UnreadStream
    /\ \A s \in Streams : Summary(s)
    /\ shell # "off" =>
         /\ Finished <=> shell = "ended"
         /\ exit = "zero" => heard /\ done
         /\ outcome = "cancelled" => cancelled
         /\ shell \in {"stdout", "stderr", "return"} \/ Answered => live \cap Group = {}
         /\ \A s \in Streams : PastJoin(s) => stream[s].reader # "reading"

HeadlessInv ==
    /\ HeadlessTypeOK
    /\ driver \in {"off", "start"} => watcher = "none" /\ browser = "none" /\ step = 1
    /\ driver \in {"off", "start", "between", "calling"} => verdict = "none" /\ titles < MaxTitles
    /\ driver \in {"closing", "ended"} => watcher \in {"none", "gone"}
    /\ driver = "ended" => browser \in {"none", "reaped"}
    /\ watcher \in {"look", "check", "signal"} => browser \in {"running", "dead"}
    /\ driver # "off" =>
         /\ Answered => driver = "ended"
         /\ step > 16 => heard
         /\ verdict = "succeeded" => heard
         /\ verdict = "cancelled" => cancelled

IInv == CommonInv /\ HttpInv /\ CheckinInv /\ ShellInv /\ HeadlessInv

(* Where the check-in's outcome is looked at, and that a run neither       *)
(* begins nor ends with a sleep.                                           *)
LEMMA InFirst ==
    ASSUME NEW S, NEW s \in Seq(S), NEW t \in Seq(S), NEW i \in 1 .. Len(s)
    PROVE  (s \o t)[i] = s[i]
  OBVIOUS

LEMMA InSecond ==
    ASSUME NEW S, NEW s \in Seq(S), NEW t \in Seq(S), NEW i \in 1 .. Len(t),
           NEW j, j = Len(s) + i
    PROVE  (s \o t)[j] = t[i]
  OBVIOUS

LEMMA StepsAre == Last = 19 /\ Steps[1] = "launch" /\ Steps[16] = "outcome" /\ Steps[19] = "points"
  <1> DEFINE S == {"launch", "new tab", "home page", "sleep", "title", "log in", "logged in",
                   "user page", "points", "click", "outcome"}
             A == <<"launch", "new tab">> \o HomePage \o LogIn \o Points
             B == A \o CheckIn
  <1>1. Last = 19 /\ Steps[1] = "launch" /\ Len(B) = 16 /\ Len(A) = 11
    BY DEF Last, Steps, HomePage, LogIn, Points, CheckIn
  <1>2. A \in Seq(S) /\ B \in Seq(S) /\ Points \in Seq(S) /\ CheckIn \in Seq(S)
    BY DEF HomePage, LogIn, Points, CheckIn
  <1>3. /\ 3 \in 1 .. Len(Points) /\ Points[3] = "points" /\ 19 = Len(B) + 3
        /\ 5 \in 1 .. Len(CheckIn) /\ CheckIn[5] = "outcome" /\ 16 = Len(A) + 5 /\ 16 \in 1 .. Len(B)
    BY <1>1 DEF Points, CheckIn
  <1>4. B = A \o CheckIn /\ Steps = B \o Points
    BY DEF Steps
  <1> HIDE DEF S, A, B
  <1>5. (A \o CheckIn)[16] = CheckIn[5]
    BY <1>2, <1>3, InSecond
  <1>6. (B \o Points)[19] = Points[3]
    BY <1>2, <1>3, InSecond
  <1>7. (B \o Points)[16] = B[16]
    BY <1>2, <1>3, InFirst
  <1> QED BY <1>1, <1>3, <1>4, <1>5, <1>6, <1>7

LEMMA RequestsAre == LastRequest = 9
  BY DEF LastRequest, Requests

LEMMA SixthChecksIn == Requests[6] = "check in"
  BY DEF Requests

LEMMA ImpliesInvariants ==
    ASSUME IInv
    PROVE  TypeOK /\ NothingLeftBehind /\ SummaryComplete /\ SignalsOwnBrowser
  <1>1. TypeOK
    BY RequestsAre DEF IInv, CommonInv, HttpInv, CheckinInv, ShellInv, HeadlessInv, CheckinTypeOK, TypeOK
  <1>2. SignalsOwnBrowser
    BY DEF IInv, HeadlessInv, SignalsOwnBrowser
  <1>3. NothingLeftBehind
    <2> SUFFICES ASSUME Answered
                 PROVE  /\ live \cap Group = {}
                        /\ \A s \in Streams : stream[s].reader # "reading"
                        /\ watcher \in {"none", "gone"}
                        /\ browser \in {"none", "reaped"}
      BY DEF NothingLeftBehind, Answered, Answers
    <2>1. watcher \in {"none", "gone"} /\ browser \in {"none", "reaped"}
      BY DEF IInv, HeadlessInv
    <2>2. live \cap Group = {} /\ \A s \in Streams : stream[s].reader # "reading"
      BY DEF IInv, ShellInv, PastJoin, UnreadStream, Finished, Answered, Answers
    <2> QED BY <2>1, <2>2
  <1>4. SummaryComplete
    <2> SUFFICES ASSUME shell = "ended", result \in {"succeeded", "failed", "cancelled"},
                        NEW s \in Streams
                 PROVE  \/ stream[s].stored = Min2(Limit, stream[s].written)
                        \/ stream[s].reader = "aborted" /\ "escaped" \in started
      BY DEF SummaryComplete
    <2>1. Summary(s) /\ stream[s].reader # "reading"
      BY DEF IInv, ShellInv, PastJoin, Answered, Answers
    <2>2. /\ stream[s].reader \in {"off", "reading", "ended", "aborted"}
          /\ stream[s].written \in Nat
      <3>1. ShellTypeOK
        BY DEF IInv, ShellInv
      <3>2. stream[s] \in [written: 0 .. MaxWritten, piped: 0 .. Capacity, stored: 0 .. Limit,
                           reader: {"off", "reading", "ended", "aborted"}]
        BY <3>1 DEF ShellTypeOK
      <3> QED BY <3>2, ShellAssumption
    <2> QED BY <2>1, <2>2 DEF Summary
  <1> QED BY <1>1, <1>2, <1>3, <1>4

-----------------------------------------------------------------------------
(* What a step is for the worker, and for the parts it does not concern *)

Promised == ExecutorNext(Judges) \/ UNCHANGED executorVars

LEMMA OffStays ==
    ASSUME IInv
    PROVE  /\ http = "off" /\ UNCHANGED httpVars => HttpInv'
           /\ checkin = 0 /\ UNCHANGED checkin => CheckinInv'
           /\ shell = "off" /\ UNCHANGED shellVars => ShellInv'
           /\ driver = "off" /\ UNCHANGED headlessVars => HeadlessInv'
  <1>1. http = "off" /\ UNCHANGED httpVars => HttpInv'
    BY DEF IInv, HttpInv, HttpTypeOK, httpVars
  <1>2. checkin = 0 /\ UNCHANGED checkin => CheckinInv'
    BY DEF IInv, CheckinInv
  <1>3. shell = "off" /\ UNCHANGED shellVars => ShellInv'
    BY DEF IInv, ShellInv, ShellTypeOK, shellVars, Summary
  <1>4. driver = "off" /\ UNCHANGED headlessVars => HeadlessInv'
    BY DEF IInv, HeadlessInv, HeadlessTypeOK, headlessVars
  <1> QED BY <1>1, <1>2, <1>3, <1>4

ExecutorTyped ==
    /\ cancelled \in BOOLEAN /\ result \in Results \cup {"none"}
    /\ heard \in BOOLEAN /\ done \in BOOLEAN

(* What a step that may serve the purpose does, and that it is an act of   *)
(* the outside.                                                            *)
LEMMA Serves ==
    ASSUME done \in BOOLEAN, NEW now, MayServe(now)
    PROVE  /\ done' \in BOOLEAN
           /\ done' = done \/ done' = TRUE
           /\ MayServe(TRUE)
  BY DEF MayServe

LEMMA CommonStays ==
    ASSUME IInv, UNCHANGED jobVars, ExecutorTyped',
           \/ shell # "off" /\ UNCHANGED <<http, checkin, driver>>
           \/ http # "off" /\ UNCHANGED <<shell, checkin, driver>>
           \/ checkin # 0 /\ UNCHANGED <<shell, http, driver>>
           \/ driver # "off" /\ UNCHANGED <<shell, http, checkin>>
    PROVE  CommonInv'
  BY DEF IInv, CommonInv, OneExecutor, ExecutorTyped, jobVars, Judges

-----------------------------------------------------------------------------
(* The request *)
LEMMA HttpKeeps ==
    ASSUME IInv, InHttp(HttpStep)
    PROVE  IInv' /\ Promised
  <1>1. http \in {"send", "body"}
    BY DEF InHttp, HttpStep, Respond, Chunk, HttpFails, CancelHttp, HttpReturns, BodyAwaited
  <1>2. result = "none" /\ shell = "off" /\ checkin = 0 /\ driver = "off"
    BY <1>1 DEF IInv, HttpInv, CommonInv, OneExecutor
  <1>3. UNCHANGED <<shellVars, checkin, headlessVars, jobVars>>
    BY DEF InHttp
  <1>4. HttpInv' /\ ExecutorTyped' /\ Promised
    <2> USE <1>2 DEF IInv, CommonInv, HttpInv, HttpTypeOK, ExecutorTyped, Promised, ExecutorNext,
                     Answer, Act, MayServe, Return, Finished, executorVars, Results
    <2>1. CASE Respond
      BY <2>1 DEF Respond
    <2>2. CASE Chunk
      BY <2>2, BodyAssumption DEF Chunk, BodyAwaited
    <2>3. CASE HttpFails
      BY <2>3 DEF HttpFails
    <2>4. CASE CancelHttp
      BY <2>4 DEF CancelHttp
    <2>5. CASE HttpReturns
      BY <2>5 DEF HttpReturns
    <2> QED BY <2>1, <2>2, <2>3, <2>4, <2>5 DEF InHttp, HttpStep
  <1>5. CommonInv'
    BY <1>1, <1>3, <1>4, CommonStays DEF shellVars, headlessVars
  <1> QED BY <1>2, <1>3, <1>4, <1>5, OffStays DEF IInv

(* The check-in by requests *)
LEMMA CheckinKeeps ==
    ASSUME IInv, InCheckin(SiteStep \/ CancelCheckin)
    PROVE  IInv' /\ Promised
  <1>1. checkin \in 1 .. 9
    <2>1. checkin \in 1 .. LastRequest - 1 \/ checkin = LastRequest \/ checkin \in 1 .. LastRequest
      BY Zenon DEF Under, InCheckin, SiteStep, RequestDone, CheckinReturns, RequestFails, CancelCheckin
    <2> QED BY <2>1, RequestsAre
  <1>2. result = "none" /\ shell = "off" /\ http = "off" /\ driver = "off"
    BY <1>1 DEF IInv, CheckinInv, CommonInv, OneExecutor
  <1>3. UNCHANGED <<shellVars, httpVars, headlessVars, jobVars>>
    BY DEF InCheckin
  <1>4. CheckinInv' /\ ExecutorTyped' /\ Promised
    <2> USE <1>1, <1>2, RequestsAre DEF IInv, CommonInv, CheckinInv, ExecutorTyped, Promised,
            ExecutorNext, Answer, Act, ActAndFail, Return, Finished, executorVars, Results
    <2>0. ~Judges /\ Judges' = Judges
      BY <1>1, <1>3 DEF Judges, jobVars
    <2>1. CASE RequestDone
      <3>1. /\ checkin \in 1 .. LastRequest - 1 /\ checkin' = checkin + 1
            /\ cancelled' = cancelled /\ result' = result
        BY <2>1, Zenon DEF RequestDone
      <3>2. heard' = (heard \/ Requests[checkin] = "check in") /\ heard \in BOOLEAN
        BY <2>1 DEF RequestDone
      <3>3. heard' \in BOOLEAN /\ (heard => heard') /\ (heard' = heard \/ heard' = TRUE)
        BY <3>2, Zenon
      <3>4. checkin = 6 => heard'
        BY <3>2, SixthChecksIn, Zenon
      <3>5. done' \in BOOLEAN /\ MayServe(TRUE)
        BY <2>1, Serves DEF RequestDone
      <3>6. Act
        BY <3>1, <3>3, <3>5
      <3>7. CheckinInv'
        BY <3>1, <3>3, <3>4
      <3> QED BY <3>1, <3>3, <3>5, <3>6, <3>7
    <2>2. CASE CheckinReturns
      BY <2>0, <2>2 DEF CheckinReturns
    <2>3. CASE RequestFails
      <3>1. /\ checkin' = LastRequest + 1 /\ cancelled' = cancelled /\ result' = "error"
            /\ heard' = heard
        BY <2>3, Zenon DEF RequestFails
      <3>4. done' = done \/ done' = TRUE
        BY <2>3, Serves DEF RequestFails
      <3>2. CASE done' = done
        <4>1. Answer(Judges, "error")
          BY <3>1, <3>2
        <4> QED BY <3>1, <3>2, <4>1
      <3>3. CASE done' = TRUE
        <4>1. ActAndFail
          BY <3>1, <3>3
        <4> QED BY <3>1, <3>3, <4>1
      <3> QED BY <3>2, <3>3, <3>4
    <2>4. CASE CancelCheckin
      BY <2>4 DEF CancelCheckin
    <2> QED BY <2>1, <2>2, <2>3, <2>4 DEF InCheckin, SiteStep
  <1>5. CommonInv'
    BY <1>1, <1>3, <1>4, CommonStays DEF shellVars, httpVars, headlessVars
  <1> QED BY <1>2, <1>3, <1>4, <1>5, OffStays DEF IInv

-----------------------------------------------------------------------------
(* The check-in by a browser *)
LEMMA HeadlessKeeps ==
    ASSUME IInv, InHeadless(DriverStep \/ CallEnds \/ WatcherStep \/ BrowserDies)
    PROVE  IInv' /\ Promised
  <1> DEFINE A == DriverStep \/ CallEnds \/ WatcherStep \/ BrowserDies
  <1>1. UNCHANGED <<shellVars, httpVars, checkin, jobVars>> /\ A
    BY DEF InHeadless
  <1> HIDE DEF A
  <1>2. driver # "off"
    BY <1>1 DEF A, DriverStep, CallEnds, WatcherStep, BrowserDies, HeadlessConfigError, CancelledEarly,
          SpawnDriver, HeadlessReturns, Check, SleepOver, Call, DropGuard, JoinWatcher, DropBrowser,
          Launched, CallReturns, Challenged, CallFails, InPage, WatcherLooks, WatcherChecks,
          WatcherSignals, IInv, HeadlessInv
  <1>3. shell = "off" /\ http = "off" /\ checkin = 0
    BY <1>2 DEF IInv, CommonInv, OneExecutor
  <1>4. HeadlessInv' /\ ExecutorTyped' /\ Promised
    <2>1. /\ HeadlessInv /\ ExecutorTyped
          /\ step \in 1 .. 19 /\ MaxTitles \in Nat \ {0}
          /\ ~Judges
      BY <1>2, StepsAre, TitlesAssumption DEF IInv, HeadlessInv, HeadlessTypeOK, CommonInv, ExecutorTyped
    <2> USE <1>2, <2>1, StepsAre DEF HeadlessInv, HeadlessTypeOK, ExecutorTyped, Promised, ExecutorNext,
            Answer, Act, Return, Finished, executorVars, headlessVars, Results, Answered, Answers
    <2>2. CASE HeadlessConfigError
      BY <2>2 DEF HeadlessConfigError
    <2>3. CASE CancelledEarly
      BY <2>3 DEF CancelledEarly
    <2>4. CASE SpawnDriver
      BY <2>4 DEF SpawnDriver
    <2>5. CASE HeadlessReturns
      BY <2>5 DEF HeadlessReturns
    <2>6. CASE Check
      BY <2>6 DEF Check, Leave
    <2>7. CASE SleepOver
      BY <2>7 DEF SleepOver
    <2>8. CASE Call
      BY <2>8 DEF Call
    <2>9. CASE DropGuard \/ JoinWatcher \/ DropBrowser
      <3>1. CASE DropGuard
        BY <3>1 DEF DropGuard
      <3>2. CASE JoinWatcher
        BY <3>2 DEF JoinWatcher
      <3>3. CASE DropBrowser
        BY <3>3 DEF DropBrowser
      <3> QED BY <2>9, <3>1, <3>2, <3>3
    <2>10. CASE Launched
      BY <2>10 DEF Launched
    <2>11. CASE CallReturns
      <3>1. /\ driver = "calling" /\ cancelled' = cancelled /\ result' = result /\ titles' = titles
            /\ watcher' = watcher /\ browser' = browser
            /\ \/ step = 19 /\ step' = step /\ driver' = "leaving" /\ verdict' = "succeeded"
               \/ step # 19 /\ step' = step + 1 /\ driver' = "between" /\ verdict' = verdict
        BY <2>11 DEF CallReturns, InPage, Leave
      <3>2. heard' = (heard \/ Steps[step] = "outcome") /\ heard \in BOOLEAN
        BY <2>11 DEF CallReturns
      <3>3. heard' \in BOOLEAN /\ (heard => heard') /\ (heard' = heard \/ heard' = TRUE)
        BY <3>2, Zenon
      <3>4. step = 16 => heard'
        BY <3>2, Zenon
      <3>5. done' \in BOOLEAN /\ MayServe(TRUE)
        BY <2>11, Serves DEF CallReturns
      <3>6. Act
        BY <3>1, <3>3, <3>5
      <3>7. HeadlessInv'
        BY <3>1, <3>3, <3>4
      <3> QED BY <3>1, <3>3, <3>5, <3>6, <3>7
    <2>12. CASE Challenged
      BY <2>12 DEF Challenged, InPage, Leave
    <2>13. CASE CallFails
      <3>1. done' \in BOOLEAN /\ MayServe(TRUE)
        BY <2>13, Serves DEF CallFails
      <3>2. Act
        BY <2>13, <3>1 DEF CallFails
      <3>3. HeadlessInv'
        BY <2>13 DEF CallFails, Leave
      <3> QED BY <2>13, <3>1, <3>2, <3>3 DEF CallFails
    <2>14. CASE WatcherStep
      <3>1. CASE WatcherLooks
        BY <3>1 DEF WatcherLooks, Done
      <3>2. CASE WatcherChecks
        BY <3>2 DEF WatcherChecks
      <3>3. CASE WatcherSignals
        BY <3>3 DEF WatcherSignals
      <3> QED BY <2>14, <3>1, <3>2, <3>3 DEF WatcherStep
    <2>15. CASE BrowserDies
      BY <2>15 DEF BrowserDies
    <2> QED BY <1>1, <2>2, <2>3, <2>4, <2>5, <2>6, <2>7, <2>8, <2>9, <2>10, <2>11, <2>12, <2>13, <2>14,
                <2>15
            DEF A, DriverStep, CallEnds
  <1>5. CommonInv'
    BY <1>1, <1>2, <1>4, CommonStays DEF shellVars, httpVars
  <1> QED BY <1>1, <1>3, <1>4, <1>5, OffStays DEF IInv

-----------------------------------------------------------------------------
(* The command *)

(* What the rest of the invariant says of a command that is at work *)
LEMMA ShellAtWork ==
    ASSUME IInv, shell # "off"
    PROVE  http = "off" /\ checkin = 0 /\ driver = "off" /\ ShellInv /\ ExecutorTyped
  BY DEF IInv, CommonInv, OneExecutor, ExecutorTyped

(* The command and its readers are started, or are not. *)
LEMMA SpawnKeeps ==
    ASSUME ShellInv, ExecutorTyped, Spawn(job.allowed)
    PROVE  ShellInv' /\ ExecutorTyped' /\ Promised
  <1>1. /\ shell = "spawn" /\ shell' = "wait" /\ live' = {"command"} /\ started' = {"command"}
        /\ UNCHANGED <<executorVars, outcome, exit>>
    BY DEF Spawn
  <1>2. /\ exit = "none" /\ result = "none" /\ outcome \in {"none", "exited", "timed out", "cancelled"}
        /\ outcome = "cancelled" => cancelled
    BY <1>1 DEF ShellInv, ShellTypeOK, Finished
  <1>3. \A s \in Streams : UnreadStream = stream[s]
    BY <1>1 DEF ShellInv
  <1>4. stream' = [s \in Streams |-> [written |-> 0, piped |-> 0, stored |-> 0, reader |-> "reading"]]
    BY DEF Spawn, UnreadStream
  <1>5. Min2(Limit, 0) = 0 /\ 0 \in 0 .. Limit /\ 0 \in 0 .. Capacity /\ 0 \in 0 .. MaxWritten
    BY ShellAssumption DEF Min2
  <1>6. ASSUME NEW s \in Streams
        PROVE  Summary(s)'
    <2>1. stream'[s] = [written |-> 0, piped |-> 0, stored |-> 0, reader |-> "reading"]
      BY <1>4
    <2> QED BY <1>5, <2>1 DEF Summary, Min2
  <1>7. stream' \in [Streams -> [written: 0 .. MaxWritten, piped: 0 .. Capacity, stored: 0 .. Limit,
                                reader: {"off", "reading", "ended", "aborted"}]]
    BY <1>4, <1>5
  <1>8. ShellTypeOK'
    BY <1>1, <1>2, <1>7 DEF ShellTypeOK, Processes, Group
  <1>9. ~PastJoin("stdout")' /\ ~PastJoin("stderr")'
    BY <1>1 DEF PastJoin
  <1> QED BY <1>1, <1>2, <1>6, <1>8, <1>9 DEF ShellInv, ExecutorTyped, Promised, executorVars, Finished,
          Answered, Answers, Streams

LEMMA SpawnFailsKeeps ==
    ASSUME ShellInv, ExecutorTyped, SpawnFails
    PROVE  ShellInv' /\ ExecutorTyped' /\ Promised
  <1>1. /\ shell = "spawn" /\ shell' = "ended" /\ result = "none" /\ result' = "error"
        /\ UNCHANGED <<outcome, exit, live, started, stream, cancelled, heard, done>>
    BY DEF SpawnFails, Return, Finished
  <1>2. /\ live = {} /\ exit = "none"
        /\ \A s \in Streams : stream[s] = [written |-> 0, piped |-> 0, stored |-> 0, reader |-> "off"]
        /\ outcome = "cancelled" => cancelled
    BY <1>1 DEF ShellInv, UnreadStream
  <1>3. ASSUME NEW s \in Streams
        PROVE  Summary(s)' /\ stream'[s].reader # "reading"
    BY <1>1, <1>2 DEF ShellInv, Summary
  <1>4. ShellTypeOK'
    BY <1>1 DEF ShellInv, ShellTypeOK
  <1>5. ExecutorTyped' /\ Answer(Judges, "error")
    BY <1>1 DEF ExecutorTyped, Results, Answer, Return, Finished
  <1> QED BY <1>1, <1>2, <1>3, <1>4, <1>5 DEF ShellInv, Promised, ExecutorNext, Results, Finished

(* A reader is given up. *)
LEMMA GiveUpKeeps ==
    ASSUME ShellInv, ExecutorTyped, NEW s \in Streams, GiveUpReader(s)
    PROVE  ShellInv' /\ ExecutorTyped' /\ Promised
  <1>1. /\ shell = s /\ shell' = AfterJoin(s) /\ live # {}
        /\ stream' = [stream EXCEPT ![s].reader = "aborted", ![s].piped = 0, ![s].stored = 0]
        /\ UNCHANGED <<cancelled, result, heard, done, outcome, exit, live, started>>
    BY DEF GiveUpReader, executorVars
  <1>2. shell \in {"stdout", "stderr"} /\ live \cap Group = {} /\ result = "none"
    BY <1>1 DEF ShellInv, Streams, Finished
  <1>3. "escaped" \in started
    BY <1>1, <1>2 DEF ShellInv, ShellTypeOK, Processes, Group
  <1>4. /\ stream \in [Streams -> [written: 0 .. MaxWritten, piped: 0 .. Capacity, stored: 0 .. Limit,
                                  reader: {"off", "reading", "ended", "aborted"}]]
        /\ 0 \in 0 .. Limit /\ 0 \in 0 .. Capacity /\ \A n \in 0 .. MaxWritten : 0 <= n
    <2>1. 0 \in 0 .. Limit /\ 0 \in 0 .. Capacity /\ \A n \in 0 .. MaxWritten : 0 <= n
      BY ShellAssumption
    <2> QED BY <2>1 DEF ShellInv, ShellTypeOK
  <1>5. stream' \in [Streams -> [written: 0 .. MaxWritten, piped: 0 .. Capacity, stored: 0 .. Limit,
                                reader: {"off", "reading", "ended", "aborted"}]]
    BY <1>1, <1>4
  <1>6. shell' \in {"stderr", "return"}
    BY <1>1 DEF AfterJoin
  <1>7. ShellTypeOK'
    BY <1>1, <1>5, <1>6 DEF ShellInv, ShellTypeOK, Streams
  <1>8. ASSUME NEW t \in Streams
        PROVE  Summary(t)' /\ (PastJoin(t)' => stream'[t].reader # "reading")
    <2>1. CASE t = s
      <3>1. /\ stream'[s].written = stream[s].written /\ stream[s].written \in 0 .. MaxWritten
            /\ stream'[s].piped = 0 /\ stream'[s].reader = "aborted"
        BY <1>1, <1>4
      <3> QED BY <1>1, <1>3, <1>4, <2>1, <3>1 DEF Summary
    <2>2. CASE t # s
      <3>1. stream'[t] = stream[t]
        BY <1>1, <1>4, <2>2
      <3>2. Summary(t)'
        BY <1>1, <1>2, <1>6, <3>1 DEF ShellInv, Summary
      <3>3. PastJoin(t)' => PastJoin(t)
        BY <1>1, <1>2, <2>2 DEF PastJoin, AfterJoin, Streams, Answered, Answers
      <3> QED BY <1>2, <3>1, <3>2, <3>3 DEF ShellInv
    <2> QED BY <2>1, <2>2
  <1> QED BY <1>1, <1>2, <1>6, <1>7, <1>8 DEF ShellInv, ExecutorTyped, Promised, executorVars, Finished,
          Answered, Answers

LEMMA ExecuteKeeps ==
    ASSUME ShellInv, ExecutorTyped, ExecuteStep(job.allowed)
    PROVE  ShellInv' /\ ExecutorTyped' /\ Promised /\ shell # "off"
  <1>1. shell # "off"
    BY DEF ExecuteStep, Spawn, SpawnFails, CommandExited, TimeOut, CancelShell, Interrupt, Reap,
           Sweep, Join, GiveUpReader, ShellReturns, Streams
  <1> USE <1>1 DEF ShellInv, ShellTypeOK, ExecutorTyped, Promised, ExecutorNext, Answer, Return,
        Finished, executorVars, Results, Answered, Answers, Summary, PastJoin
  <1>2. CASE Spawn(job.allowed)
    BY <1>2, SpawnKeeps
  <1>3. CASE SpawnFails
    BY <1>3, SpawnFailsKeeps
  <1>4. CASE CommandExited
    BY <1>4 DEF CommandExited
  <1>5. ASSUME NEW why \in {"timed out", "cancelled"}, Interrupt(why), why = "cancelled" => cancelled
        PROVE  ShellInv' /\ ExecutorTyped' /\ Promised
    BY <1>5 DEF Interrupt, Kill
  <1>6. CASE Reap
    BY <1>6 DEF Reap
  <1>7. CASE Sweep
    <2>1. /\ shell = "sweep" /\ shell' = "stdout" /\ live' = live \ Group
          /\ exit' = exit \/ exit' = "signal"
          /\ UNCHANGED <<cancelled, result, heard, done, outcome, started, stream>>
      BY <1>7 DEF Sweep, Kill
    <2>2. ShellTypeOK' /\ live' \cap Group = {}
      BY <2>1 DEF Streams
    <2>3. \A s \in Streams : Summary(s)'
      BY <2>1
    <2> QED BY <2>1, <2>2, <2>3
  <1>8. ASSUME NEW s \in Streams, Join(s)
        PROVE  ShellInv' /\ ExecutorTyped' /\ Promised
    BY <1>8 DEF Join, AfterJoin, Streams
  <1>9. ASSUME NEW s \in Streams, GiveUpReader(s)
        PROVE  ShellInv' /\ ExecutorTyped' /\ Promised
    BY <1>9, GiveUpKeeps
  <1>10. CASE ShellReturns
    BY <1>10 DEF ShellReturns, ShellResult
  <1> QED BY <1>1, <1>2, <1>3, <1>4, <1>5, <1>6, <1>7, <1>8, <1>9, <1>10
          DEF ExecuteStep, TimeOut, CancelShell

(* What is written, piped and read changes nothing but the streams. *)
LEMMA StreamsMove ==
    ASSUME ShellInv, ExecutorTyped, shell \notin {"off", "spawn"},
           UNCHANGED <<cancelled, result, heard, done, shell, outcome, exit, live, started>>,
           stream' \in [Streams -> [written: 0 .. MaxWritten, piped: 0 .. Capacity, stored: 0 .. Limit,
                                    reader: {"off", "reading", "ended", "aborted"}]],
           \A t \in Streams : Summary(t)',
           \A t \in Streams : stream'[t].reader = "reading" => stream[t].reader = "reading"
    PROVE  ShellInv' /\ ExecutorTyped' /\ Promised /\ shell # "off"
  <1>1. ExecutorTyped' /\ Promised
    BY DEF ExecutorTyped, Promised, executorVars
  <1>2. ShellTypeOK'
    BY DEF ShellInv, ShellTypeOK
  <1>3. \A t \in Streams : PastJoin(t)' => stream'[t].reader # "reading"
    <2>1. \A t \in Streams : PastJoin(t)' => PastJoin(t)
      BY DEF PastJoin, Answered
    <2>2. \A t \in Streams : PastJoin(t) => stream[t].reader # "reading"
      BY DEF ShellInv
    <2> QED BY <2>1, <2>2
  <1>4. /\ Finished' <=> shell' = "ended"
        /\ exit' = "zero" => heard' /\ done'
        /\ outcome' = "cancelled" => cancelled'
        /\ shell' \in {"stdout", "stderr", "return"} \/ Answered' => live' \cap Group = {}
    BY DEF ShellInv, Finished, Answered
  <1> QED BY <1>1, <1>2, <1>3, <1>4 DEF ShellInv

(* The processes run, write and end, and the readers read. *)
LEMMA ReadKeeps ==
    ASSUME ShellInv, ExecutorTyped, NEW s \in Streams, Read(s)
    PROVE  ShellInv' /\ ExecutorTyped' /\ Promised /\ shell # "off"
  <1>1. PICK n \in 1 .. stream[s].piped :
          stream' = [stream EXCEPT ![s].piped = @ - n, ![s].stored = Kept(@, n)]
    BY DEF Read
  <1>2. /\ stream[s].reader = "reading"
        /\ UNCHANGED <<cancelled, result, heard, done, shell, outcome, exit, live, started>>
    BY DEF Read, executorVars
  <1>3. stream \in [Streams -> [written: 0 .. MaxWritten, piped: 0 .. Capacity, stored: 0 .. Limit,
                                reader: {"off", "reading", "ended", "aborted"}]]
    BY DEF ShellInv, ShellTypeOK
  <1>4. /\ stream[s].piped \in 0 .. Capacity /\ stream[s].written \in 0 .. MaxWritten
        /\ stream[s].stored \in 0 .. Limit
    BY <1>3
  <1>5. stream[s].piped <= stream[s].written /\ stream[s].stored = Min2(Limit, stream[s].written - stream[s].piped)
    BY <1>2 DEF ShellInv, Summary
  <1>6. /\ stream[s].piped - n \in 0 .. Capacity
        /\ Kept(stream[s].stored, n) \in 0 .. Limit
        /\ stream[s].piped - n <= stream[s].written
        /\ Kept(stream[s].stored, n) = Min2(Limit, stream[s].written - (stream[s].piped - n))
    <2>1. /\ stream[s].piped \in Nat /\ stream[s].written \in Nat /\ n \in Nat
          /\ Limit \in Nat /\ Capacity \in Nat
      BY <1>4, ShellAssumption
    <2> QED BY <1>4, <1>5, <2>1 DEF Kept, Min2
  <1>7. stream' \in [Streams -> [written: 0 .. MaxWritten, piped: 0 .. Capacity, stored: 0 .. Limit,
                                reader: {"off", "reading", "ended", "aborted"}]]
    BY <1>1, <1>3, <1>6
  <1>8. ASSUME NEW t \in Streams
        PROVE  Summary(t)' /\ stream'[t].reader = stream[t].reader
    <2>1. CASE t = s
      <3>1. /\ stream'[s].piped = stream[s].piped - n /\ stream'[s].stored = Kept(stream[s].stored, n)
            /\ stream'[s].written = stream[s].written /\ stream'[s].reader = stream[s].reader
        BY <1>1, <1>3
      <3> QED BY <1>2, <1>6, <2>1, <3>1 DEF Summary
    <2>2. CASE t # s
      BY <1>1, <1>2, <1>3, <2>2 DEF ShellInv, Summary
    <2> QED BY <2>1, <2>2
  <1>9. shell \notin {"off", "spawn"}
    BY <1>2 DEF ShellInv, UnreadStream
  <1> QED BY <1>2, <1>7, <1>8, <1>9, StreamsMove

LEMMA EndOfFileKeeps ==
    ASSUME ShellInv, ExecutorTyped, NEW s \in Streams, EndOfFile(s)
    PROVE  ShellInv' /\ ExecutorTyped' /\ Promised /\ shell # "off"
  <1>1. /\ stream' = [stream EXCEPT ![s].reader = "ended"]
        /\ stream[s].reader = "reading" /\ stream[s].piped = 0 /\ live = {}
        /\ UNCHANGED <<cancelled, result, heard, done, shell, outcome, exit, live, started>>
    BY DEF EndOfFile, executorVars
  <1>2. shell \notin {"off", "spawn"}
    BY <1>1 DEF ShellInv, UnreadStream
  <1>3. stream' \in [Streams -> [written: 0 .. MaxWritten, piped: 0 .. Capacity, stored: 0 .. Limit,
                                reader: {"off", "reading", "ended", "aborted"}]]
    BY <1>1 DEF ShellInv, ShellTypeOK
  <1>4. ASSUME NEW t \in Streams
        PROVE  Summary(t)' /\ (stream'[t].reader = "reading" => stream[t].reader = "reading")
    BY <1>1 DEF ShellInv, ShellTypeOK, Summary
  <1> QED BY <1>1, <1>2, <1>3, <1>4, StreamsMove

LEMMA WriteKeeps ==
    ASSUME ShellInv, ExecutorTyped, NEW s \in Streams, Write(s)
    PROVE  ShellInv' /\ ExecutorTyped' /\ Promised /\ shell # "off"
  <1>1. /\ stream' = [stream EXCEPT ![s].piped = @ + 1, ![s].written = @ + 1]
        /\ live # {} /\ stream[s].reader # "aborted"
        /\ stream[s].piped < Capacity /\ stream[s].written < MaxWritten
        /\ UNCHANGED <<cancelled, result, heard, done, shell, outcome, exit, live, started>>
    BY DEF Write, executorVars
  <1>2. shell \notin {"off", "spawn"} /\ stream[s].reader # "ended"
    BY <1>1 DEF ShellInv, Summary
  <1>3. stream \in [Streams -> [written: 0 .. MaxWritten, piped: 0 .. Capacity, stored: 0 .. Limit,
                                reader: {"off", "reading", "ended", "aborted"}]]
    BY DEF ShellInv, ShellTypeOK
  <1>4. stream[s].piped \in 0 .. Capacity /\ stream[s].written \in 0 .. MaxWritten
    BY <1>3
  <1>5. /\ stream[s].piped + 1 \in 0 .. Capacity /\ stream[s].written + 1 \in 0 .. MaxWritten
        /\ stream[s].piped <= stream[s].written => stream[s].piped + 1 <= stream[s].written + 1
        /\ (stream[s].written + 1) - (stream[s].piped + 1) = stream[s].written - stream[s].piped
    BY <1>1, <1>4, ShellAssumption
  <1>6. stream' \in [Streams -> [written: 0 .. MaxWritten, piped: 0 .. Capacity, stored: 0 .. Limit,
                                reader: {"off", "reading", "ended", "aborted"}]]
    BY <1>1, <1>3, <1>5
  <1>7. ASSUME NEW t \in Streams
        PROVE  Summary(t)' /\ stream'[t].reader = stream[t].reader
    <2>1. CASE t = s
      <3>1. /\ stream'[s].piped = stream[s].piped + 1 /\ stream'[s].written = stream[s].written + 1
            /\ stream'[s].stored = stream[s].stored /\ stream'[s].reader = stream[s].reader
        BY <1>1, <1>3
      <3> QED BY <1>1, <1>2, <1>5, <2>1, <3>1 DEF ShellInv, Summary
    <2>2. CASE t # s
      BY <1>1, <1>3, <2>2 DEF ShellInv, Summary
    <2> QED BY <2>1, <2>2
  <1> QED BY <1>1, <1>2, <1>6, <1>7, StreamsMove

LEMMA ForkKeeps ==
    ASSUME ShellInv, ExecutorTyped, NEW p \in Processes, Fork(p)
    PROVE  ShellInv' /\ ExecutorTyped' /\ Promised /\ shell # "off"
  <1>1. /\ live \cap Group # {} /\ p \notin started \cup {"command"}
        /\ live' = live \cup {p} /\ started' = started \cup {p}
        /\ UNCHANGED <<cancelled, result, heard, done, shell, outcome, exit, stream>>
    BY DEF Fork, executorVars
  <1>2. shell \notin {"off", "spawn"}
    BY <1>1 DEF ShellInv
  <1>3. ShellTypeOK'
    BY <1>1 DEF ShellInv, ShellTypeOK
  <1>4. \A s \in Streams : Summary(s)'
    BY <1>1 DEF ShellInv, Summary
  <1> QED BY <1>1, <1>2, <1>3, <1>4 DEF ShellInv, ExecutorTyped, Promised, executorVars,
          Finished, PastJoin, Answered

LEMMA ProcessEndsKeeps ==
    ASSUME ShellInv, ExecutorTyped, NEW p \in Processes, ProcessEnds(p)
    PROVE  ShellInv' /\ ExecutorTyped' /\ Promised /\ shell # "off"
  <1>1. /\ p \in live /\ live' = live \ {p}
        /\ exit' \in IF p = "command" THEN {"zero", "nonzero"} ELSE {exit}
        /\ UNCHANGED <<cancelled, result, shell, outcome, started, stream>>
    BY DEF ProcessEnds
  <1>2. /\ heard' = (heard \/ p = "command")
        /\ done' = (done \/ (p = "command" /\ exit' = "zero"))
    BY DEF ProcessEnds
  <1>3. /\ heard' \in BOOLEAN /\ (heard => heard')
        /\ done' \in BOOLEAN /\ (done => done')
        /\ p = "command" => heard'
        /\ p = "command" /\ exit' = "zero" => done'
    BY <1>2, Zenon DEF ExecutorTyped
  <1>4. /\ heard' = heard \/ (heard' = TRUE /\ p = "command")
        /\ done' = done \/ (done' = TRUE /\ p = "command")
    BY <1>2, Zenon DEF ExecutorTyped
  <1>5. shell \notin {"off", "spawn"}
    BY <1>1 DEF ShellInv
  <1>6. p = "command" => result \in {"none", "dropped"}
    BY <1>1, <1>5 DEF ShellInv, Group, ExecutorTyped, Results, Answered, Answers
  <1>7. ShellTypeOK'
    BY <1>1 DEF ShellInv, ShellTypeOK
  <1>8. \A s \in Streams : Summary(s)'
    BY <1>1 DEF ShellInv, Summary
  <1>9. exit' = "zero" => heard' /\ done'
    BY <1>1, <1>3, <1>5 DEF ShellInv
  <1>10. Promised
    BY <1>1, <1>4, <1>6 DEF Promised, ExecutorNext, Act, MayServe, executorVars
  <1> QED BY <1>1, <1>3, <1>5, <1>7, <1>8, <1>9, <1>10 DEF ShellInv, ExecutorTyped, Finished, PastJoin, Answered

LEMMA ShellKeeps ==
    ASSUME IInv, InShell(ExecuteStep(job.allowed) \/ ProcessStep \/ \E s \in Streams : ReaderStep(s))
    PROVE  IInv' /\ Promised
  <1>1. ShellInv /\ ExecutorTyped
    BY DEF IInv, CommonInv, ExecutorTyped
  <1>2. ShellInv' /\ ExecutorTyped' /\ Promised /\ shell # "off"
    BY <1>1, ExecuteKeeps, ReadKeeps, EndOfFileKeeps, WriteKeeps, ForkKeeps, ProcessEndsKeeps
       DEF InShell, ProcessStep, ReaderStep
  <1>3. UNCHANGED <<httpVars, checkin, headlessVars, jobVars>>
    BY DEF InShell
  <1>4. CommonInv'
    BY <1>2, <1>3, CommonStays DEF httpVars, headlessVars
  <1> QED BY <1>2, <1>3, <1>4, ShellAtWork, OffStays DEF IInv

-----------------------------------------------------------------------------
(* The steps of the worker: a cancel, the dispatch, and the end of its     *)
(* await                                                                   *)
LEMMA CancelKeeps ==
    ASSUME IInv, Cancel, UNCHANGED <<shellVars, httpVars, checkin, headlessVars, jobVars>>
    PROVE  IInv' /\ Promised
  <1>1. cancelled' = TRUE /\ UNCHANGED <<result, heard, done>>
    BY DEF Cancel
  <1>2. CommonInv'
    BY <1>1 DEF IInv, CommonInv, OneExecutor, shellVars, httpVars, headlessVars, jobVars, Judges
  <1>3. HttpInv' /\ CheckinInv'
    BY <1>1 DEF IInv, HttpInv, HttpTypeOK, CheckinInv, httpVars
  <1>4. ShellInv'
    BY <1>1 DEF IInv, ShellInv, ShellTypeOK, Summary, PastJoin, Finished, Answered, shellVars
  <1>5. HeadlessInv'
    BY <1>1 DEF IInv, HeadlessInv, HeadlessTypeOK, Answered, headlessVars
  <1> QED BY <1>2, <1>3, <1>4, <1>5 DEF IInv, Promised, ExecutorNext

(* Whichever executor the job calls for is started from its beginning, and *)
(* no other; a job that runs nowhere is answered with an error.            *)
LEMMA DispatchKeeps ==
    ASSUME IInv, Dispatch
    PROVE  IInv' /\ Promised
  <1>1. /\ result = "none" /\ ~done
        /\ shell = "off" /\ http = "off" /\ checkin = 0 /\ driver = "off"
        /\ cancelled \in BOOLEAN /\ heard \in BOOLEAN /\ done \in BOOLEAN
    BY DEF IInv, CommonInv, Dispatch
  <1>2. /\ dispatched' = TRUE /\ job' = job /\ cancelled' = cancelled
        /\ heard' = heard /\ done' = done
        /\ UNCHANGED <<outcome, exit, live, started, stream, expected, chunks,
                       step, titles, verdict, watcher, browser>>
    BY DEF Dispatch, Return, executorVars
  <1>3. \/ ~RunsHere /\ result' = "error" /\ UNCHANGED <<shell, http, checkin, driver>>
        \/ result' = "none" /\ http' = "send" /\ UNCHANGED <<shell, checkin, driver>>
        \/ result' = "none" /\ shell' = "spawn" /\ UNCHANGED <<http, checkin, driver>>
        \/ result' = "none" /\ checkin' = 1 /\ ~Judges /\ UNCHANGED <<http, shell, driver>>
        \/ result' = "none" /\ driver' = "start" /\ ~Judges /\ UNCHANGED <<http, shell, checkin>>
        \/ result' = "none" /\ UNCHANGED <<http, shell, checkin, driver>>
    BY <1>1 DEF Dispatch, Runs, Return, executorVars, Judges
  <1>4. result' \in {"none", "error"}
    BY <1>3
  <1>5. CommonInv'
    BY <1>1, <1>2, <1>3, <1>4 DEF IInv, CommonInv, OneExecutor, Results, Judges
  <1>6. HttpInv'
    BY <1>1, <1>2, <1>3 DEF IInv, HttpInv, HttpTypeOK
  <1>7. CheckinInv'
    BY <1>1, <1>3 DEF CheckinInv
  <1>8. ShellInv'
    <2>1. /\ live = {} /\ exit = "none" /\ ShellTypeOK
          /\ \A s \in Streams : stream[s] = UnreadStream /\ Summary(s)
      BY <1>1 DEF IInv, ShellInv
    <2>2. shell' \in {"off", "spawn"} /\ (shell' = "spawn" => result' = "none")
      BY <1>1, <1>3
    <2>3. ShellTypeOK'
      BY <1>2, <2>1, <2>2 DEF ShellTypeOK
    <2>4. \A s \in Streams : Summary(s)'
      BY <1>2, <2>1, <2>2 DEF Summary, UnreadStream
    <2>5. outcome = "none"
      BY <1>1 DEF IInv, ShellInv
    <2> QED BY <1>2, <2>1, <2>2, <2>3, <2>4, <2>5 DEF ShellInv, Finished, PastJoin, Answered, Answers
  <1>9. HeadlessInv'
    BY <1>1, <1>2, <1>3, <1>4 DEF IInv, HeadlessInv, HeadlessTypeOK, Answered, Answers
  <1>10. Promised
    BY <1>1, <1>2, <1>4 DEF Promised, ExecutorNext, Answer, Return, Finished, Results, executorVars
  <1> QED BY <1>5, <1>6, <1>7, <1>8, <1>9, <1>10 DEF IInv

LEMMA DropKeeps ==
    ASSUME IInv, Drop
    PROVE  IInv' /\ Promised
  <1>1. /\ result = "none" /\ result' = "dropped" /\ UNCHANGED <<cancelled, heard, done, job, dispatched>>
        /\ dispatched
    BY DEF Drop, Return, Finished, jobVars
  <1>2. Promised /\ ExecutorTyped'
    BY <1>1 DEF Promised, ExecutorNext, Answer, Return, Finished, Results, ExecutorTyped, IInv, CommonInv
  <1>3. CASE HttpDropped /\ UNCHANGED <<shellVars, checkin, headlessVars>>
    <2>1. http # "off" /\ HttpInv'
      BY <1>1, <1>3 DEF HttpDropped, IInv, HttpInv, HttpTypeOK
    <2> QED BY <1>1, <1>2, <1>3, <2>1, OffStays, CommonStays
            DEF IInv, CommonInv, OneExecutor, shellVars, headlessVars, jobVars
  <1>4. CASE CheckinDropped /\ UNCHANGED <<shellVars, httpVars, headlessVars>>
    <2>1. checkin # 0 /\ CheckinInv'
      BY <1>1, <1>4, RequestsAre DEF CheckinDropped, Under, IInv, CheckinInv
    <2> QED BY <1>1, <1>2, <1>4, <2>1, OffStays, CommonStays
            DEF IInv, CommonInv, OneExecutor, shellVars, httpVars, headlessVars, jobVars
  <1>5. CASE HeadlessDropped /\ UNCHANGED <<shellVars, httpVars, checkin>>
    <2>1. driver # "off" /\ HeadlessInv'
      BY <1>1, <1>5 DEF HeadlessDropped, IInv, HeadlessInv, HeadlessTypeOK, Answered, Answers
    <2> QED BY <1>1, <1>2, <1>5, <2>1, OffStays, CommonStays
            DEF IInv, CommonInv, OneExecutor, shellVars, httpVars, jobVars
  <1>6. CASE ShellDropped /\ UNCHANGED <<httpVars, checkin, headlessVars>>
    <2>1. /\ shell \notin {"off", "ended"} /\ shell' = "ended" /\ live' = live \ {"command"}
          /\ exit' = exit \/ exit' = "signal"
          /\ UNCHANGED <<outcome, started, stream>>
      BY <1>6 DEF ShellDropped, Kill
    <2>2. ShellTypeOK'
      BY <2>1 DEF IInv, ShellInv, ShellTypeOK
    <2>3. \A s \in Streams : Summary(s)'
      BY <1>1, <2>1 DEF IInv, ShellInv, Summary
    <2>4. ShellInv'
      BY <1>1, <2>1, <2>2, <2>3 DEF IInv, ShellInv, Finished, PastJoin, Answered, Answers
    <2> QED BY <1>1, <1>2, <1>6, <2>1, <2>4, ShellAtWork, OffStays, CommonStays
            DEF IInv, httpVars, headlessVars, jobVars
  <1> QED BY <1>3, <1>4, <1>5, <1>6 DEF Drop

-----------------------------------------------------------------------------
LEMMA InitIInv == Init => IInv /\ ExecutorInit
  <1> SUFFICES ASSUME Init PROVE IInv
    BY DEF Init
  <1> USE DEF Init, ExecutorInit, ShellInit, HttpInit, CheckinInit, HeadlessInit
  <1>1. CommonInv
    BY DEF CommonInv, OneExecutor
  <1>2. HttpInv /\ CheckinInv
    <2>1. 0 \in 0 .. BodyLimit
      BY BodyAssumption
    <2>2. HttpInv
      BY <2>1 DEF HttpInv, HttpTypeOK
    <2>3. CheckinInv
      BY DEF CheckinInv
    <2> QED BY <2>2, <2>3
  <1>3. ShellInv
    <2>1. /\ Min2(Limit, 0) = 0 /\ 0 \in 0 .. Limit /\ 0 \in 0 .. Capacity /\ 0 \in 0 .. MaxWritten
      BY ShellAssumption DEF Min2
    <2>2. stream = [s \in Streams |-> [written |-> 0, piped |-> 0, stored |-> 0, reader |-> "off"]]
      BY DEF UnreadStream
    <2>3. stream \in [Streams -> [written: 0 .. MaxWritten, piped: 0 .. Capacity, stored: 0 .. Limit,
                                 reader: {"off", "reading", "ended", "aborted"}]]
      BY <2>1, <2>2
    <2>4. ASSUME NEW s \in Streams
          PROVE  Summary(s)
      <3>1. stream[s] = [written |-> 0, piped |-> 0, stored |-> 0, reader |-> "off"]
        BY <2>2
      <3> QED BY <2>1, <3>1 DEF Summary, Min2
    <2>5. ShellTypeOK
      BY <2>3 DEF ShellTypeOK
    <2> QED BY <2>4, <2>5 DEF ShellInv
  <1>4. HeadlessInv
    BY StepsAre, TitlesAssumption DEF HeadlessInv, HeadlessTypeOK
  <1> QED BY <1>1, <1>2, <1>3, <1>4 DEF IInv

LEMMA StutterKeeps ==
    ASSUME IInv, UNCHANGED vars
    PROVE  IInv' /\ Promised
  <1>1. UNCHANGED <<executorVars, shellVars, httpVars, checkin, headlessVars, jobVars>>
    BY DEF vars
  <1>2. CommonInv' /\ HttpInv' /\ CheckinInv'
    BY <1>1 DEF IInv, CommonInv, OneExecutor, HttpInv, HttpTypeOK, CheckinInv, executorVars, shellVars,
                httpVars, headlessVars, jobVars, Judges
  <1>3. ShellInv'
    BY <1>1 DEF IInv, ShellInv, ShellTypeOK, Summary, PastJoin, Finished, Answered, executorVars, shellVars
  <1>4. HeadlessInv'
    BY <1>1 DEF IInv, HeadlessInv, HeadlessTypeOK, Answered, executorVars, headlessVars
  <1> QED BY <1>1, <1>2, <1>3, <1>4 DEF IInv, Promised

LEMMA NextKeeps == IInv /\ [Next]_vars => IInv' /\ [ExecutorNext(Judges)]_executorVars
  <1> SUFFICES ASSUME IInv, [Next]_vars
               PROVE  IInv' /\ Promised
    BY DEF Promised
  <1> QED BY CancelKeeps, DispatchKeeps, DropKeeps, ShellKeeps, HttpKeeps, CheckinKeeps, HeadlessKeeps,
             StutterKeeps
          DEF Next

LEMMA AlwaysIInv == Spec => []IInv
  <1>1. Init => IInv
    BY InitIInv
  <1>2. IInv /\ [Next]_vars => IInv'
    BY NextKeeps
  <1> QED BY <1>1, <1>2, PTL DEF Spec

(* Every state of every executor has its type. *)
THEOREM ExecutorsHaveTypes == Spec => []TypeOK
  <1>1. IInv => TypeOK
    BY ImpliesInvariants
  <1> QED BY <1>1, AlwaysIInv, PTL

(* With an answer, no process of the command's group, no reader, no        *)
(* browser and no watcher is left on the worker's machine.                 *)
THEOREM AnswersLeaveNothing == Spec => []NothingLeftBehind
  <1>1. IInv => NothingLeftBehind
    BY ImpliesInvariants
  <1> QED BY <1>1, AlwaysIInv, PTL

(* The summary of a stream is the beginning of all that was written to it, *)
(* unless a process that left the group held the pipe.                     *)
THEOREM SummariesAreComplete == Spec => []SummaryComplete
  <1>1. IInv => SummaryComplete
    BY ImpliesInvariants
  <1> QED BY <1>1, AlwaysIInv, PTL

(* As long as the watcher may signal its pid, it is the browser's.         *)
THEOREM WatcherSignalsBrowser == Spec => []SignalsOwnBrowser
  <1>1. IInv => SignalsOwnBrowser
    BY ImpliesInvariants
  <1> QED BY <1>1, AlwaysIInv, PTL

(* Every executor keeps the promise: a success was answered, a request or  *)
(* a command that is called one had the expected status or exit code,      *)
(* nothing is called cancelled that was not, and nothing is done after an  *)
(* answer.                                                                 *)
THEOREM ExecutorsKeepPromise == Spec => RefinesTaskExecutor
  <1>1. Init => ExecutorInit
    BY InitIInv
  <1>2. IInv /\ [Next]_vars => [ExecutorNext(Judges)]_executorVars
    BY NextKeeps
  <1> QED BY <1>1, <1>2, AlwaysIInv, PTL DEF Spec, RefinesTaskExecutor

===============================================================================
