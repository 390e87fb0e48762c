----------------------------- MODULE HeadlessRun -----------------------------
(***************************************************************************)
(* BugutvHeadlessBuiltin: a blocking thread drives a browser page by page, *)
(* and a watcher thread ends the browser on a cancel, since the driver     *)
(* cannot hear of one while it is inside a call.  The executor awaits the  *)
(* driver; when the executor is dropped the driver goes on.  Before each   *)
(* call, and during each sleep, the driver looks at the token.             *)
(***************************************************************************)
EXTENDS TaskExecutor, Naturals, Sequences

CONSTANT MaxTitles      \* how often a title may be the one of a challenge page

ASSUME TitlesAssumption == MaxTitles \in Nat \ {0}

VARIABLES
    driver,     \* where the driver is
    step,       \* the step of the check-in it is at
    titles,     \* challenge pages seen
    verdict,    \* what run_checkin_blocking returns
    watcher,    \* where the watcher is
    browser     \* the browser's process

headlessVars == <<driver, step, titles, verdict, watcher, browser>>

HomePage == <<"home page", "sleep", "title">>
LogIn == <<"log in", "sleep", "logged in">>
Points == <<"user page", "sleep", "points">>
CheckIn == <<"user page", "sleep", "click", "sleep", "outcome">>

Steps == <<"launch", "new tab">> \o HomePage \o LogIn \o Points \o CheckIn \o Points

Last == Len(Steps)

HeadlessInit ==
    /\ driver = "off"
    /\ step = 1
    /\ titles = 0
    /\ verdict = "none"
    /\ watcher = "none"
    /\ browser = "none"

-----------------------------------------------------------------------------
(* The executor's future *)

(* A config that cannot be read. *)
HeadlessConfigError ==
    /\ driver = "start"
    /\ driver' = "ended"
    /\ Return("error")
    /\ UNCHANGED <<step, titles, verdict, watcher, browser>>

(* The token is looked at before a thread is started. *)
CancelledEarly ==
    /\ driver = "start"
    /\ cancelled
    /\ driver' = "ended"
    /\ Return("cancelled")
    /\ UNCHANGED <<step, titles, verdict, watcher, browser>>

SpawnDriver ==
    /\ driver = "start"
    /\ ~cancelled
    /\ driver' = "between"
    /\ UNCHANGED <<executorVars, step, titles, verdict, watcher, browser>>

(* Nobody awaits the executor any more; the thread cannot be told. *)
HeadlessDropped ==
    /\ driver # "off"
    /\ driver' = IF driver = "start" THEN "ended" ELSE driver
    /\ UNCHANGED <<step, titles, verdict, watcher, browser>>

(* The thread's result becomes the executor's, the words of a cancelled    *)
(* check its own answer.                                                   *)
HeadlessReturns ==
    /\ driver = "ended" /\ verdict # "none"
    /\ Return(verdict)
    /\ UNCHANGED headlessVars

-----------------------------------------------------------------------------
(* The driver *)

Leave(v) == driver' = "leaving" /\ verdict' = v

(* check_cancelled, alone or within cancellable_sleep *)
Check ==
    /\ driver = "between"
    /\ cancelled
    /\ Leave("cancelled")
    /\ UNCHANGED <<executorVars, step, titles, watcher, browser>>

SleepOver ==
    /\ driver = "between"
    /\ Steps[step] = "sleep"
    /\ ~cancelled
    /\ step' = step + 1
    /\ UNCHANGED <<executorVars, driver, titles, verdict, watcher, browser>>

Call ==
    /\ driver = "between"
    /\ Steps[step] # "sleep"
    /\ ~cancelled
    /\ driver' = "calling"
    /\ UNCHANGED <<executorVars, step, titles, verdict, watcher, browser>>

(* Browser::new, and the guard with its watcher. *)
Launched ==
    /\ driver = "calling" /\ Steps[step] = "launch"
    /\ browser' = "running"
    /\ watcher' = "look"
    /\ driver' = "between"
    /\ step' = step + 1
    /\ UNCHANGED <<executorVars, titles, verdict>>

InPage == driver = "calling" /\ browser = "running"

(* The page's call returns.  What is clicked may be any button that        *)
(* submits, and any content of the page afterwards, "unknown" too, ends    *)
(* the step well.                                                          *)
CallReturns ==
    /\ InPage
    /\ IF step = Last
       THEN Leave("succeeded") /\ step' = step
       ELSE driver' = "between" /\ step' = step + 1 /\ verdict' = verdict
    /\ heard' = (heard \/ Steps[step] = "outcome")
    /\ MayServe(Steps[step] = "click")
    /\ UNCHANGED <<cancelled, result, titles, watcher, browser>>

(* A challenge page: sleep and look again, five times. *)
Challenged ==
    /\ InPage /\ Steps[step] = "title"
    /\ titles' = titles + 1
    /\ IF titles' = MaxTitles
       THEN Leave("error") /\ step' = step
       ELSE driver' = "between" /\ step' = step - 1 /\ verdict' = verdict
    /\ UNCHANGED <<executorVars, watcher, browser>>

(* No such element, not logged in, no browser any more.  A click may have  *)
(* got through.                                                            *)
CallFails ==
    /\ driver = "calling"
    /\ Leave("error")
    /\ MayServe(Steps[step] = "click")
    /\ UNCHANGED <<cancelled, result, heard, step, titles, watcher, browser>>

(* The locals are dropped last first: the guard, which sets its flag and   *)
(* joins the watcher, and then the browser.                                *)
Done == driver \in {"joining", "closing", "ended"}

DropGuard ==
    /\ driver = "leaving"
    /\ driver' = "joining"
    /\ UNCHANGED <<executorVars, step, titles, verdict, watcher, browser>>

MutantJoinWatcher ==
    /\ driver = "joining"
    /\ driver' = "closing"
    /\ UNCHANGED <<executorVars, step, titles, verdict, watcher, browser>>

JoinWatcher ==
    /\ driver = "joining"
    /\ watcher \in {"none", "gone"}
    /\ driver' = "closing"
    /\ UNCHANGED <<executorVars, step, titles, verdict, watcher, browser>>

DropBrowser ==
    /\ driver = "closing"
    /\ driver' = "ended"
    /\ browser' = IF browser = "none" THEN "none" ELSE "reaped"
    /\ UNCHANGED <<executorVars, step, titles, verdict, watcher>>

-----------------------------------------------------------------------------
(* The watcher: flag, token, signal, each read or sent by itself. *)
WatcherLooks ==
    /\ watcher = "look"
    /\ watcher' = IF Done THEN "gone" ELSE "check"
    /\ UNCHANGED <<executorVars, driver, step, titles, verdict, browser>>

WatcherChecks ==
    /\ watcher = "check"
    /\ watcher' = IF cancelled THEN "signal" ELSE "look"
    /\ UNCHANGED <<executorVars, driver, step, titles, verdict, browser>>

WatcherSignals ==
    /\ watcher = "signal"
    /\ watcher' = "gone"
    /\ browser' = IF browser = "running" THEN "dead" ELSE browser
    /\ UNCHANGED <<executorVars, driver, step, titles, verdict>>

BrowserDies ==
    /\ browser = "running"
    /\ browser' = "dead"
    /\ UNCHANGED <<executorVars, driver, step, titles, verdict, watcher>>

(* Steps that are taken in any case, and those a page waits for: a call    *)
(* ends by itself when there is no browser (yet, or any more).             *)
DriverStep ==
    \/ HeadlessConfigError \/ CancelledEarly \/ SpawnDriver \/ HeadlessReturns
    \/ Check \/ SleepOver \/ Call \/ DropGuard \/ JoinWatcher \/ DropBrowser

CallEnds == Launched \/ CallReturns \/ Challenged \/ CallFails
CallEndsWithoutBrowser == browser # "running" /\ CallEnds

WatcherStep == WatcherLooks \/ WatcherChecks \/ WatcherSignals

-----------------------------------------------------------------------------
HeadlessTypeOK ==
    /\ driver \in {"off", "start", "between", "calling", "leaving", "joining", "closing", "ended"}
    /\ step \in 1 .. Last
    /\ titles \in 0 .. MaxTitles
    /\ verdict \in {"none", "succeeded", "cancelled", "error"}
    /\ watcher \in {"none", "look", "check", "signal", "gone"}
    /\ browser \in {"none", "running", "dead", "reaped"}

(* The watcher signals a pid of the browser it was started for: as long as *)
(* it may, the browser, dead or alive, has not been reaped and its pid     *)
(* belongs to no other process.                                            *)
SignalsOwnBrowser == watcher = "signal" => browser \in {"running", "dead"}
===============================================================================
