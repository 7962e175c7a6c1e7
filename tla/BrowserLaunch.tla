---------------------------- MODULE BrowserLaunch ----------------------------
(***************************************************************************)
(* The launches a user sees: launchBrowserSession of backend/src/vault.ts  *)
(* and the headed Chromium sessions of backend/src/browserManager.ts.      *)
(*                                                                         *)
(* Everything lives in one Node process and interleaves at its awaits: the *)
(* HTTP request that launches, runPlaywrightLaunch() which nobody awaits,  *)
(* the ticks of the monitor interval (a tick that is slow overlaps the     *)
(* next), the 'disconnected' event, requests that close the session, and   *)
(* the user at the window.                                                 *)
(*                                                                         *)
(* What the page shows (a login form, a challenge, the success condition)  *)
(* is a nondeterministic outcome of looking at it.                         *)
(***************************************************************************)
EXTENDS Naturals, FiniteSets

CONSTANTS
    Sessions,    \* session ids, each drawn by one launch
    Ticks,       \* ticks of one monitor that may be in flight together
    Closers,     \* requests of POST /launch-sessions/:id/close in flight
    None

VARIABLES
    request,   \* the launching request
    status,    \* session.status
    listed,    \* sessions in the map activeSessions
    run,       \* the await runPlaywrightLaunch stands at
    browser,   \* session.browser: the Chromium process
    page,      \* session.page: its window
    monitor,   \* session.monitor
    tick,      \* tick[s][k]: the await a tick of the monitor stands at
    closer,    \* closer[c]: the session a closing request awaits
    late       \* sessions past expiresAt

vars == <<request, status, listed, run, browser, page, monitor, tick, closer, late>>

Final == {"CLOSED", "FAILED", "EXPIRED"}

Status == {"STARTING", "AUTHENTICATING", "AUTHENTICATED", "CHALLENGE_REQUIRED"} \cup Final

ASSUME LaunchAssumption == None \notin Sessions \cup Status

Running == {"launch", "fallback", "context", "page", "goto", "form", "observe", "catch"}

Objects == {"none", "open", "closed"}

Init ==
    /\ request = [s \in Sessions |-> "idle"]
    /\ status = [s \in Sessions |-> None]
    /\ listed = {}
    /\ run = [s \in Sessions |-> "idle"]
    /\ browser = [s \in Sessions |-> "none"]
    /\ page = [s \in Sessions |-> "none"]
    /\ monitor = [s \in Sessions |-> "none"]
    /\ tick = [s \in Sessions |-> [k \in Ticks |-> "idle"]]
    /\ closer = [c \in Closers |-> None]
    /\ late = {}

-----------------------------------------------------------------------------
(* POST /applications/:id/launch *)

ManagerVars == <<status, listed, run, browser, page, monitor, tick, closer, late>>

Step(s, from, to) == request[s] = from /\ request' = [request EXCEPT ![s] = to]

(* The application, its credential and the username are read. *)
ReadRows(s) == Step(s, "idle", "found") /\ UNCHANGED ManagerVars

AuditLaunch(s) == Step(s, "found", "audited") /\ UNCHANGED ManagerVars

(* launchApplicationSession() inside withUnsealedSecret(): the session is  *)
(* listed and runPlaywrightLaunch() runs up to its first await; a target   *)
(* outside the domain of the application fails there and then.             *)
Launch(s) ==
    /\ Step(s, "audited", "launched")
    /\ listed' = listed \cup {s}
    /\ \/ /\ status' = [status EXCEPT ![s] = "STARTING"]
          /\ run' = [run EXCEPT ![s] = "launch"]
       \/ /\ status' = [status EXCEPT ![s] = "FAILED"]
          /\ run' = [run EXCEPT ![s] = "done"]
    /\ UNCHANGED <<browser, page, monitor, tick, closer, late>>

(* last_used_at is set and the transaction commits. *)
Answer(s) == Step(s, "launched", "answered") /\ UNCHANGED ManagerVars

(* The request fails at an await; a launch it has started goes on.         *)
RequestFails(s) ==
    /\ request[s] \in {"idle", "found", "audited", "launched"}
    /\ request' = [request EXCEPT ![s] = "failed"]
    /\ UNCHANGED ManagerVars

-----------------------------------------------------------------------------
(* Chromium *)

(* The process ends: 'disconnected' is heard once the page is there.       *)
BrowserGone(s) ==
    /\ browser' = [browser EXCEPT ![s] = "closed"]
    /\ page' = [page EXCEPT ![s] = IF @ = "open" THEN "closed" ELSE @]
    /\ status' = [status EXCEPT ![s] =
           IF page[s] # "none" /\ @ \notin {"FAILED", "EXPIRED"} THEN "CLOSED" ELSE @]
    /\ monitor' = [monitor EXCEPT ![s] =
           IF page[s] # "none" /\ @ = "armed" THEN "cleared" ELSE @]

(* browser.close(): nothing happens to a browser that has gone.            *)
CloseBrowser(s) ==
    IF browser[s] = "open" THEN BrowserGone(s)
                           ELSE UNCHANGED <<browser, page, status, monitor>>

(* The user quits Chromium, or it crashes. *)
BrowserQuits(s) ==
    /\ browser[s] = "open"
    /\ BrowserGone(s)
    /\ UNCHANGED <<request, listed, run, tick, closer, late>>

(* The user closes the window and the process stays. *)
PageCloses(s) ==
    /\ page[s] = "open"
    /\ page' = [page EXCEPT ![s] = "closed"]
    /\ UNCHANGED <<request, status, listed, run, browser, monitor, tick, closer, late>>

-----------------------------------------------------------------------------
(* runPlaywrightLaunch *)

Proceed(s, from, to) == run[s] = from /\ run' = [run EXCEPT ![s] = to]

(* chromium.launch(), then once more with the installed Chrome. *)
StartBrowser(s) ==
    /\ \/ /\ run[s] \in {"launch", "fallback"}
          /\ run' = [run EXCEPT ![s] = "context"]
          /\ browser' = [browser EXCEPT ![s] = "open"]
       \/ /\ Proceed(s, "launch", "fallback")
          /\ UNCHANGED browser
    /\ UNCHANGED <<request, status, listed, page, monitor, tick, closer, late>>

OpenContext(s) ==
    /\ browser[s] = "open"
    /\ Proceed(s, "context", "page")
    /\ UNCHANGED <<request, status, listed, browser, page, monitor, tick, closer, late>>

OpenPage(s) ==
    /\ browser[s] = "open"
    /\ Proceed(s, "page", "goto")
    /\ page' = [page EXCEPT ![s] = "open"]
    /\ status' = [status EXCEPT ![s] = "AUTHENTICATING"]
    /\ UNCHANGED <<request, listed, browser, monitor, tick, closer, late>>

(* The page loads, and the form is filled and submitted. *)
UsePage(s) ==
    /\ page[s] = "open"
    /\ Proceed(s, "goto", "form") \/ Proceed(s, "form", "observe")
    /\ UNCHANGED <<request, status, listed, browser, page, monitor, tick, closer, late>>

(* What the page shows decides the status, and the monitor is set.  To     *)
(* look at a page that has gone is no error: no indicator is visible on it *)
(* and its last address is still compared with the success pattern.        *)
Observe(s) ==
    /\ Proceed(s, "observe", "done")
    /\ \E seen \in {"CHALLENGE_REQUIRED", "AUTHENTICATED", "AUTHENTICATING"} :
           status' = [status EXCEPT ![s] = seen]
    /\ monitor' = [monitor EXCEPT ![s] = "armed"]
    /\ UNCHANGED <<request, listed, browser, page, tick, closer, late>>

(* An await rejects: FAILED, whatever the session was. *)
Throw(s) ==
    /\ run[s] \in {"fallback", "context", "page", "goto", "form"}
    /\ run' = [run EXCEPT ![s] = IF browser[s] = "none" THEN "done" ELSE "catch"]
    /\ status' = [status EXCEPT ![s] = "FAILED"]
    /\ monitor' = [monitor EXCEPT ![s] = IF @ = "armed" THEN "cleared" ELSE @]
    /\ UNCHANGED <<request, listed, browser, page, tick, closer, late>>

(* Fault: the error path leaves the browser open. *)
CatchLeave(s) ==
    /\ Proceed(s, "catch", "done")
    /\ UNCHANGED <<request, status, listed, browser, page, monitor, tick, closer, late>>

CatchClose(s) ==
    /\ Proceed(s, "catch", "done")
    /\ CloseBrowser(s)
    /\ UNCHANGED <<request, listed, tick, closer, late>>

-----------------------------------------------------------------------------
(* The monitor *)

Beat(s, k, from, to) ==
    tick[s][k] = from /\ tick' = [tick EXCEPT ![s][k] = to]

Watched(s) == page[s] = "open" /\ status[s] \notin Final

(* Fault: the deadline is not looked at. *)
TickStartsLate(s, k) ==
    /\ monitor[s] = "armed"
    /\ tick[s][k] = "idle"
    /\ IF Watched(s) THEN Beat(s, k, "idle", "detect") /\ UNCHANGED monitor
                     ELSE /\ monitor' = [monitor EXCEPT ![s] = "cleared"]
                          /\ UNCHANGED tick
    /\ UNCHANGED <<request, status, listed, run, browser, page, closer, late>>

(* Fault: an expired session keeps its browser. *)
TickStartsLax(s, k) ==
    /\ monitor[s] = "armed"
    /\ tick[s][k] = "idle"
    /\ IF Watched(s) /\ s \notin late
       THEN Beat(s, k, "idle", "detect") /\ UNCHANGED <<monitor, status>>
       ELSE /\ monitor' = [monitor EXCEPT ![s] = "cleared"]
            /\ status' = [status EXCEPT ![s] = IF Watched(s) THEN "EXPIRED" ELSE @]
            /\ UNCHANGED tick
    /\ UNCHANGED <<request, listed, run, browser, page, closer, late>>

(* Fault: a tick that finds the session over leaves the interval set.      *)
TickStartsAgain(s, k) ==
    /\ monitor[s] = "armed"
    /\ tick[s][k] = "idle"
    /\ Watched(s)
    /\ IF s \in late THEN /\ monitor' = [monitor EXCEPT ![s] = "cleared"]
                          /\ status' = [status EXCEPT ![s] = "EXPIRED"]
                          /\ Beat(s, k, "idle", "closing")
                     ELSE Beat(s, k, "idle", "detect") /\ UNCHANGED <<monitor, status>>
    /\ UNCHANGED <<request, listed, run, browser, page, closer, late>>

(* A tick fires.  Where the page has gone or the session is over it only   *)
(* clears the interval; past the deadline it expires the session; else it  *)
(* looks at the page.                                                      *)
TickStarts(s, k) ==
    /\ monitor[s] = "armed"
    /\ tick[s][k] = "idle"
    /\ \/ /\ ~Watched(s)
          /\ monitor' = [monitor EXCEPT ![s] = "cleared"]
          /\ UNCHANGED <<status, tick>>
       \/ /\ Watched(s) /\ s \in late
          /\ monitor' = [monitor EXCEPT ![s] = "cleared"]
          /\ status' = [status EXCEPT ![s] = "EXPIRED"]
          /\ Beat(s, k, "idle", "closing")
       \/ /\ Watched(s) /\ s \notin late
          /\ Beat(s, k, "idle", "detect")
          /\ UNCHANGED <<monitor, status>>
    /\ UNCHANGED <<request, listed, run, browser, page, closer, late>>

(* detectChallenge() answers.  The status is looked at only now. *)
TickDetects(s, k) ==
    /\ tick[s][k] = "detect"
    /\ \/ /\ page[s] = "open"
          /\ status' = [status EXCEPT ![s] = "CHALLENGE_REQUIRED"]
          /\ Beat(s, k, "detect", "idle")
       \/ /\ Beat(s, k, "detect",
                  IF status[s] \in {"CHALLENGE_REQUIRED", "AUTHENTICATING"}
                  THEN "observe" ELSE "idle")
          /\ UNCHANGED status
    /\ UNCHANGED <<request, listed, run, browser, page, monitor, closer, late>>

(* hasExplicitSuccess() answers; the status is not looked at again.        *)
TickObserves(s, k) ==
    /\ Beat(s, k, "observe", "idle")
    /\ status' = status \/ status' = [status EXCEPT ![s] = "AUTHENTICATED"]
    /\ UNCHANGED <<request, listed, run, browser, page, monitor, closer, late>>

TickCloses(s, k) ==
    /\ Beat(s, k, "closing", "idle")
    /\ CloseBrowser(s)
    /\ UNCHANGED <<request, listed, run, closer, late>>

Lapse(s) ==
    /\ status[s] # None /\ s \notin late
    /\ late' = late \cup {s}
    /\ UNCHANGED <<request, status, listed, run, browser, page, monitor, tick, closer>>

-----------------------------------------------------------------------------
(* POST /launch-sessions/:id/close *)

(* Fault: the session is struck off and its browser forgotten.             *)
CloseForgets(c, s) ==
    /\ closer[c] = None
    /\ s \in listed
    /\ monitor' = [monitor EXCEPT ![s] = IF @ = "armed" THEN "cleared" ELSE @]
    /\ status' = [status EXCEPT ![s] = "CLOSED"]
    /\ listed' = listed \ {s}
    /\ UNCHANGED <<request, run, browser, page, tick, late, closer>>

(* closeSession() clears the interval and asks the browser to close.  A    *)
(* session that has no browser yet is closed at once: to await an absent   *)
(* browser takes no time in which anything else could happen.              *)
Close(c, s) ==
    /\ closer[c] = None
    /\ s \in listed
    /\ monitor' = [monitor EXCEPT ![s] = IF @ = "armed" THEN "cleared" ELSE @]
    /\ \/ /\ browser[s] # "none"
          /\ closer' = [closer EXCEPT ![c] = s]
          /\ UNCHANGED <<status, listed>>
       \/ /\ browser[s] = "none"
          /\ status' = [status EXCEPT ![s] = "CLOSED"]
          /\ listed' = listed \ {s}
          /\ UNCHANGED closer
    /\ UNCHANGED <<request, run, browser, page, tick, late>>

(* The browser has closed for a request: only then is it answered. *)
CloseAsked(c) ==
    /\ closer[c] # None
    /\ browser[closer[c]] = "open"
    /\ BrowserGone(closer[c])
    /\ UNCHANGED <<request, listed, run, tick, closer, late>>

CloseAnswered(c) ==
    LET s == closer[c] IN
    /\ s # None
    /\ browser[s] = "closed"
    /\ status' = [status EXCEPT ![s] = "CLOSED"]
    /\ listed' = listed \ {s}
    /\ closer' = [closer EXCEPT ![c] = None]
    /\ UNCHANGED <<request, run, browser, page, monitor, tick, late>>

-----------------------------------------------------------------------------
Asks(s) == ReadRows(s) \/ AuditLaunch(s) \/ Launch(s) \/ Answer(s) \/ RequestFails(s)

Runs(s) ==
    \/ StartBrowser(s) \/ OpenContext(s) \/ OpenPage(s) \/ UsePage(s)
    \/ Observe(s) \/ Throw(s) \/ CatchClose(s)

TickGoesOn(s, k) == TickDetects(s, k) \/ TickObserves(s, k) \/ TickCloses(s, k)

Closes(c) == CloseAsked(c) \/ CloseAnswered(c)

Next ==
    \/ \E s \in Sessions :
           \/ Asks(s) \/ Runs(s) \/ BrowserQuits(s) \/ PageCloses(s) \/ Lapse(s)
           \/ \E k \in Ticks : TickStarts(s, k) \/ TickGoesOn(s, k)
           \/ \E c \in Closers : Close(c, s)
    \/ \E c \in Closers : Closes(c)

Spec == Init /\ [][Next]_vars

(* Playwright gives every await a timeout, the interval keeps firing while *)
(* it is set, and time passes.                                             *)
Fairness ==
    /\ \A s \in Sessions :
           /\ WF_vars(Runs(s)) /\ WF_vars(Lapse(s))
           /\ WF_vars(\E k \in Ticks : TickStarts(s, k))
           /\ \A k \in Ticks : WF_vars(TickGoesOn(s, k))
    /\ \A c \in Closers : WF_vars(Closes(c))

FairSpec == Spec /\ Fairness

-----------------------------------------------------------------------------
(* Properties *)

(* Every variable holds a value of its kind.                               *)
TypeOK ==
    /\ request \in [Sessions -> {"idle", "found", "audited", "launched",
                                 "answered", "failed"}]
    /\ status \in [Sessions -> Status \cup {None}]
    /\ listed \subseteq Sessions
    /\ run \in [Sessions -> Running \cup {"idle", "done"}]
    /\ browser \in [Sessions -> Objects]
    /\ page \in [Sessions -> Objects]
    /\ monitor \in [Sessions -> {"none", "armed", "cleared"}]
    /\ tick \in [Sessions -> [Ticks -> {"idle", "detect", "observe", "closing"}]]
    /\ closer \in [Closers -> Sessions \cup {None}]
    /\ late \subseteq Sessions

(* A browser that holds a window onto the target is always in the hands of *)
(* something that will close it: the launch that still runs, the interval, *)
(* an expiring tick or a closing request.  That is so even when the        *)
(* session was closed before its browser had opened.                       *)
BrowserWatched ==
    \A s \in Sessions :
        browser[s] = "open" /\ page[s] # "closed" =>
            \/ run[s] \in Running
            \/ monitor[s] = "armed"
            \/ \E k \in Ticks : tick[s][k] = "closing"
            \/ \E c \in Closers : closer[c] = s

(* A session that failed has no interval, and no browser but the one its   *)
(* error path is about to close.                                           *)
FailedIsQuiet ==
    \A s \in Sessions : status[s] = "FAILED" =>
        /\ monitor[s] # "armed"
        /\ browser[s] = "open" => run[s] = "catch"
        /\ \A k \in Ticks : tick[s][k] = "idle"

(* A failed session reports its failure until it is closed: no tick that   *)
(* was on its way and no 'disconnected' event rewrites it.                 *)
FailedIsFinal ==
    [][\A s \in Sessions :
           status[s] = "FAILED" => status'[s] \in {"FAILED", "CLOSED"}]_vars

(* Every browser ends in bounded time, two hours after its launch at the   *)
(* latest, unless its window alone was closed under it.                    *)
BrowsersEnd ==
    \A s \in Sessions : browser[s] = "open" ~> browser[s] = "closed" \/ page[s] = "closed"

(* No interval fires for ever. *)
MonitorsEnd == \A s \in Sessions : monitor[s] = "armed" ~> monitor[s] # "armed"
=============================================================================
