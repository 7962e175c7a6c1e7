------------------------- MODULE BrowserLaunchProofs -------------------------
(***************************************************************************)
(* Theorems about BrowserLaunch and the dialogs of LaunchModal over it,    *)
(* for any number of sessions, ticks, closing requests and polls.          *)
(*                                                                         *)
(* The invariant is a conjunction over the sessions of what each of them   *)
(* has where its launch stands (Stage), of what its status says about its  *)
(* page (Honest), and of the two properties.  An action disturbs one       *)
(* session; for the others Frame carries the invariant over.               *)
(***************************************************************************)
EXTENDS LaunchModal, TLAPS

(* What a session has, where its launch stands.                            *)
Stage(s) ==
    /\ request[s] \in {"idle", "found", "audited"} =>
           run[s] = "idle" /\ status[s] = None /\ s \notin listed
    /\ run[s] \in {"idle", "launch", "fallback"} => browser[s] = "none"
    /\ run[s] \in {"idle", "launch", "fallback", "context", "page"} => page[s] = "none"
    /\ run[s] \in {"goto", "form", "observe"} => page[s] # "none"
    /\ run[s] \in Running \cup {"idle"} =>
           monitor[s] = "none" /\ \A k \in Ticks : tick[s][k] = "idle"
    /\ page[s] = "open" => browser[s] = "open"
    /\ monitor[s] = "armed" => page[s] # "none"
    /\ \A c \in Closers : closer[c] = s => browser[s] # "none"

(* What its status says about the rest.                                    *)
Honest(s) ==
    /\ status[s] = "FAILED" => run[s] \in {"catch", "done"}
    /\ status[s] = "EXPIRED" => monitor[s] # "armed"
    /\ status[s] = "CLOSED" => page[s] # "open"

(* BrowserWatched and FailedIsQuiet, of one session.                       *)
WatchedBy(s) ==
    browser[s] = "open" /\ page[s] # "closed" =>
        \/ run[s] \in Running
        \/ monitor[s] = "armed"
        \/ \E k \in Ticks : tick[s][k] = "closing"
        \/ \E c \in Closers : closer[c] = s

Quiet(s) ==
    status[s] = "FAILED" =>
        /\ monitor[s] # "armed"
        /\ browser[s] = "open" => run[s] = "catch"
        /\ \A k \in Ticks : tick[s][k] = "idle"

SInv(s) == Stage(s) /\ Honest(s) /\ WatchedBy(s) /\ Quiet(s)

IInv == TypeOK /\ \A s \in Sessions : SInv(s)

(* What a step may do to the status of a failed session.                   *)
FailKept(s) == status[s] = "FAILED" => status'[s] \in {"FAILED", "CLOSED"}

(* A step that keeps the invariant and does not revive a failed session.   *)
GoodStep == IInv' /\ \A s \in Sessions : FailKept(s)

(* Nothing of the session changes. *)
Same(q) ==
    /\ request'[q] = request[q] /\ (q \in listed' <=> q \in listed)
    /\ status'[q] = status[q] /\ run'[q] = run[q]
    /\ browser'[q] = browser[q] /\ page'[q] = page[q]
    /\ monitor'[q] = monitor[q] /\ tick'[q] = tick[q]
    /\ \A c \in Closers : closer'[c] = q <=> closer[c] = q

LEMMA Frame ==
    ASSUME NEW q \in Sessions, SInv(q), Same(q)
    PROVE  SInv(q)' /\ FailKept(q)
<1>1. Stage(q)' BY SMT DEF SInv, Stage, Same
<1>2. Honest(q)' BY SMT DEF SInv, Honest, Same
<1>3. WatchedBy(q)' BY SMT DEF SInv, WatchedBy, Same
<1>4. Quiet(q)' BY SMT DEF SInv, Quiet, Same
<1>5. FailKept(q) BY SMT DEF FailKept, Same
<1> QED BY <1>1, <1>2, <1>3, <1>4, <1>5 DEF SInv

(* An action of one session is good when it keeps the types, that          *)
(* session's part of the invariant, and the other sessions.                *)
LEMMA OneSession ==
    ASSUME IInv, NEW s \in Sessions, TypeOK', SInv(s)', FailKept(s),
           \A q \in Sessions \ {s} : Same(q)
    PROVE  GoodStep
<1>1. ASSUME NEW q \in Sessions PROVE SInv(q)' /\ FailKept(q)
  <2>1. CASE q = s BY <2>1
  <2>2. CASE q # s
    <3>1. SInv(q) /\ Same(q) BY <2>2 DEF IInv
    <3> QED BY <3>1, Frame
  <2> QED BY <2>1, <2>2
<1> QED BY <1>1 DEF IInv, GoodStep

LEMMA Initially == Init => IInv
<1> SUFFICES ASSUME Init PROVE IInv OBVIOUS
<1>1. TypeOK BY SMT DEF Init, TypeOK, Status, Final, Objects
<1>2. ASSUME NEW s \in Sessions PROVE SInv(s)
  <2>1. /\ status[s] = None /\ run[s] = "idle" /\ browser[s] = "none" /\ s \notin listed
        /\ page[s] = "none" /\ monitor[s] = "none"
        /\ \A k \in Ticks : tick[s][k] = "idle"
        /\ \A c \in Closers : closer[c] # s
    BY <1>2, LaunchAssumption, SMT DEF Init
  <2>2. Stage(s) BY <2>1, SMT DEF Stage
  <2>3. status[s] \notin {"FAILED", "EXPIRED", "CLOSED"}
    BY <2>1, LaunchAssumption, SMT DEF Status, Final
  <2> QED BY <2>1, <2>2, <2>3, SMT DEF SInv, Honest, WatchedBy, Quiet
<1> QED BY <1>1, <1>2 DEF IInv

(* Nothing changes at all. *)
LEMMA Stutter == ASSUME IInv, UNCHANGED vars PROVE GoodStep
<1>1. TypeOK' BY SMT DEF IInv, TypeOK, vars
<1>2. ASSUME NEW q \in Sessions PROVE SInv(q)' /\ FailKept(q)
  <2>1. Same(q) BY Zenon DEF Same, vars
  <2>2. SInv(q) BY DEF IInv
  <2> QED BY <2>1, <2>2, Frame
<1> QED BY <1>1, <1>2 DEF IInv, GoodStep

-----------------------------------------------------------------------------
(* The launching request *)

LEMMA RequestStep ==
    ASSUME IInv, NEW s \in Sessions,
           ReadRows(s) \/ AuditLaunch(s) \/ Answer(s) \/ RequestFails(s)
    PROVE  GoodStep
<1>t. TypeOK /\ SInv(s) BY DEF IInv
<1>1. UNCHANGED ManagerVars
  BY Zenon DEF ReadRows, AuditLaunch, Answer, RequestFails
<1>2. PICK to \in {"found", "audited", "answered", "failed"} :
          /\ request' = [request EXCEPT ![s] = to]
          /\ to \in {"found", "audited"} => request[s] \in {"idle", "found"}
  BY SMT DEF ReadRows, AuditLaunch, Answer, RequestFails, Step
<1>2a. /\ request' \in [Sessions -> {"idle", "found", "audited", "launched",
                                     "answered", "failed"}]
       /\ \A q \in Sessions \ {s} : request'[q] = request[q]
       /\ request'[s] \in {"idle", "found", "audited"} =>
              request[s] \in {"idle", "found", "audited"}
  BY <1>t, <1>2, SMT DEF TypeOK
<1>3. TypeOK' BY <1>t, <1>1, <1>2a, SMT DEF TypeOK, ManagerVars
<1>4. SInv(s)'
  <2>1. Stage(s)' BY <1>t, <1>1, <1>2a, SMT DEF SInv, Stage, ManagerVars
  <2>2. Honest(s)' /\ WatchedBy(s)' /\ Quiet(s)'
    BY <1>t, <1>1, SMT DEF SInv, Honest, WatchedBy, Quiet, ManagerVars
  <2> QED BY <2>1, <2>2 DEF SInv
<1>5. FailKept(s) BY <1>1, SMT DEF FailKept, ManagerVars
<1>6. \A q \in Sessions \ {s} : Same(q) BY <1>1, <1>2a, Zenon DEF Same, ManagerVars
<1> QED BY <1>3, <1>4, <1>5, <1>6, OneSession

LEMMA LaunchStep ==
    ASSUME IInv, NEW s \in Sessions, Launch(s)
    PROVE  GoodStep
<1>t. TypeOK /\ SInv(s) BY DEF IInv
<1>1. TypeOK'
  <2>1. /\ request' = [request EXCEPT ![s] = "launched"]
        /\ listed' = listed \cup {s}
        /\ UNCHANGED <<browser, page, monitor, tick, closer, late>>
    BY Zenon DEF Launch, Step
  <2>2. PICK st \in Status, to \in Running \cup {"idle", "done"} :
            /\ status' = [status EXCEPT ![s] = st]
            /\ run' = [run EXCEPT ![s] = to]
    <3>1. /\ "STARTING" \in Status /\ "FAILED" \in Status
          /\ "launch" \in Running \cup {"idle", "done"}
          /\ "done" \in Running \cup {"idle", "done"}
      BY SMT DEF Status, Final, Running
    <3> QED BY <3>1, Zenon DEF Launch
  <2>3. request' \in [Sessions -> {"idle", "found", "audited", "launched",
                                   "answered", "failed"}]
    BY <1>t, <2>1, SMT DEF TypeOK
  <2>4. status' \in [Sessions -> Status \cup {None}]
    BY <1>t, <2>2, Zenon DEF TypeOK
  <2>5. run' \in [Sessions -> Running \cup {"idle", "done"}]
    BY <1>t, <2>2, Zenon DEF TypeOK
  <2> QED BY <1>t, <2>1, <2>3, <2>4, <2>5, SMT DEF TypeOK
<1>2. /\ request'[s] = "launched"
      /\ \/ run'[s] = "launch" /\ status'[s] = "STARTING"
         \/ run'[s] = "done" /\ status'[s] = "FAILED"
      /\ run[s] = "idle" /\ status[s] = None
      /\ UNCHANGED <<browser, page, monitor, tick, closer>>
  BY <1>t, SMT DEF TypeOK, Launch, Step, SInv, Stage
<1>3. SInv(s)'
  BY <1>t, <1>2, SMT DEF SInv, Stage, Honest, WatchedBy, Quiet, Running
<1>4. FailKept(s) BY <1>2, LaunchAssumption, SMT DEF FailKept, Status, Final
<1>5. \A q \in Sessions \ {s} : Same(q) BY <1>t, SMT DEF TypeOK, Launch, Step, Same
<1> QED BY <1>1, <1>3, <1>4, <1>5, OneSession

-----------------------------------------------------------------------------
(* runPlaywrightLaunch *)

LEMMA StartBrowserStep ==
    ASSUME IInv, NEW s \in Sessions, StartBrowser(s)
    PROVE  GoodStep
<1>t. TypeOK /\ SInv(s) BY DEF IInv
<1>1. TypeOK'
  <2>1. PICK to \in {"context", "fallback"}, b \in {"open", browser[s]} :
            /\ run' = [run EXCEPT ![s] = to]
            /\ browser' = [browser EXCEPT ![s] = b]
    <3>1. browser = [browser EXCEPT ![s] = browser[s]] BY <1>t, SMT DEF TypeOK
    <3> QED BY <3>1, Zenon DEF StartBrowser, Proceed
  <2>2. run' \in [Sessions -> Running \cup {"idle", "done"}]
    BY <1>t, <2>1, SMT DEF TypeOK, Running
  <2>3. browser' \in [Sessions -> Objects] BY <1>t, <2>1, SMT DEF TypeOK, Objects
  <2> QED BY <1>t, <2>2, <2>3, SMT DEF TypeOK, StartBrowser
<1>2. /\ run[s] \in {"launch", "fallback"}
      /\ \/ run'[s] = "context" /\ browser'[s] = "open"
         \/ run'[s] = "fallback" /\ browser'[s] = browser[s]
      /\ UNCHANGED <<request, status, listed, page, monitor, tick, closer>>
  BY <1>t, SMT DEF TypeOK, StartBrowser, Proceed
<1>3. SInv(s)'
  BY <1>t, <1>2, SMT DEF SInv, Stage, Honest, WatchedBy, Quiet, Running
<1>4. FailKept(s) BY <1>2, SMT DEF FailKept
<1>5. \A q \in Sessions \ {s} : Same(q)
  BY <1>t, SMT DEF TypeOK, StartBrowser, Proceed, Same
<1> QED BY <1>1, <1>3, <1>4, <1>5, OneSession

(* The steps that only move the launch on.                                 *)
LEMMA MoveOnStep ==
    ASSUME IInv, NEW s \in Sessions, OpenContext(s) \/ UsePage(s)
    PROVE  GoodStep
<1>t. TypeOK /\ SInv(s) BY DEF IInv
<1>1. TypeOK' BY <1>t, SMT DEF TypeOK, OpenContext, UsePage, Proceed, Running
<1>2. /\ \/ run[s] = "context" /\ run'[s] = "page"
         \/ run[s] = "goto" /\ run'[s] = "form"
         \/ run[s] = "form" /\ run'[s] = "observe"
      /\ UNCHANGED <<request, status, listed, browser, page, monitor, tick, closer>>
  BY <1>t, SMT DEF TypeOK, OpenContext, UsePage, Proceed
<1>3. SInv(s)'
  BY <1>t, <1>2, SMT DEF SInv, Stage, Honest, WatchedBy, Quiet, Running
<1>4. FailKept(s) BY <1>2, SMT DEF FailKept
<1>5. \A q \in Sessions \ {s} : Same(q)
  BY <1>t, SMT DEF TypeOK, OpenContext, UsePage, Proceed, Same
<1> QED BY <1>1, <1>3, <1>4, <1>5, OneSession

LEMMA OpenPageStep ==
    ASSUME IInv, NEW s \in Sessions, OpenPage(s)
    PROVE  GoodStep
<1>t. TypeOK /\ SInv(s) BY DEF IInv
<1>1. TypeOK'
  BY <1>t, SMT DEF TypeOK, OpenPage, Proceed, Running, Objects, Status
<1>2. /\ run[s] = "page" /\ run'[s] = "goto" /\ browser[s] = "open"
      /\ page'[s] = "open" /\ status'[s] = "AUTHENTICATING"
      /\ UNCHANGED <<request, listed, browser, monitor, tick, closer>>
  BY <1>t, SMT DEF TypeOK, OpenPage, Proceed
<1>3. SInv(s)'
  BY <1>t, <1>2, SMT DEF SInv, Stage, Honest, WatchedBy, Quiet, Running
<1>4. FailKept(s) BY <1>t, <1>2, SMT DEF FailKept, SInv, Honest
<1>5. \A q \in Sessions \ {s} : Same(q)
  BY <1>t, SMT DEF TypeOK, OpenPage, Proceed, Same
<1> QED BY <1>1, <1>3, <1>4, <1>5, OneSession

LEMMA ObserveStep ==
    ASSUME IInv, NEW s \in Sessions, Observe(s)
    PROVE  GoodStep
<1>t. TypeOK /\ SInv(s) BY DEF IInv
<1>1. TypeOK' BY <1>t, SMT DEF TypeOK, Observe, Proceed, Status
<1>2. /\ run[s] = "observe" /\ run'[s] = "done" /\ monitor'[s] = "armed"
      /\ status'[s] \in {"CHALLENGE_REQUIRED", "AUTHENTICATED", "AUTHENTICATING"}
      /\ UNCHANGED <<request, listed, browser, page, tick, closer>>
  BY <1>t, SMT DEF TypeOK, Observe, Proceed
<1>3. SInv(s)'
  BY <1>t, <1>2, SMT DEF SInv, Stage, Honest, WatchedBy, Quiet, Running
<1>4. FailKept(s) BY <1>t, <1>2, SMT DEF FailKept, SInv, Honest
<1>5. \A q \in Sessions \ {s} : Same(q)
  BY <1>t, SMT DEF TypeOK, Observe, Proceed, Same
<1> QED BY <1>1, <1>3, <1>4, <1>5, OneSession

LEMMA ThrowStep ==
    ASSUME IInv, NEW s \in Sessions, Throw(s)
    PROVE  GoodStep
<1>t. TypeOK /\ SInv(s) BY DEF IInv
<1>1. TypeOK' BY <1>t, SMT DEF TypeOK, Throw, Running, Status, Final
<1>2. /\ run[s] \in {"fallback", "context", "page", "goto", "form"}
      /\ run'[s] = IF browser[s] = "none" THEN "done" ELSE "catch"
      /\ status'[s] = "FAILED"
      /\ monitor'[s] = IF monitor[s] = "armed" THEN "cleared" ELSE monitor[s]
      /\ UNCHANGED <<request, listed, browser, page, tick, closer>>
  BY <1>t, SMT DEF TypeOK, Throw
<1>3. SInv(s)'
  BY <1>t, <1>2, SMT DEF SInv, Stage, Honest, WatchedBy, Quiet, Running
<1>4. FailKept(s) BY <1>2, SMT DEF FailKept
<1>5. \A q \in Sessions \ {s} : Same(q) BY <1>t, SMT DEF TypeOK, Throw, Same
<1> QED BY <1>1, <1>3, <1>4, <1>5, OneSession

-----------------------------------------------------------------------------
(* The end of a browser *)

(* What browser.close() and 'disconnected' do to the objects.              *)
Ended(s) ==
    /\ browser' \in [Sessions -> Objects] /\ page' \in [Sessions -> Objects]
    /\ status' \in [Sessions -> Status \cup {None}]
    /\ monitor' \in [Sessions -> {"none", "armed", "cleared"}]
    /\ browser'[s] = IF browser[s] = "open" THEN "closed" ELSE browser[s]
    /\ page'[s] \in {page[s], "closed"}
    /\ browser[s] = "open" => page'[s] # "open"
    /\ page[s] # "open" => page'[s] = page[s]
    /\ status'[s] = status[s] \/ (status'[s] = "CLOSED" /\ browser[s] = "open")
    /\ status[s] = "FAILED" => status'[s] = "FAILED"
    /\ monitor'[s] = monitor[s] \/ (monitor[s] = "armed" /\ monitor'[s] = "cleared")
    /\ \A q \in Sessions \ {s} :
           /\ browser'[q] = browser[q] /\ page'[q] = page[q]
           /\ status'[q] = status[q] /\ monitor'[q] = monitor[q]

LEMMA Gone ==
    ASSUME TypeOK, NEW s \in Sessions, CloseBrowser(s)
    PROVE  Ended(s)
<1>1. CASE browser[s] = "open"
  <2>1. BrowserGone(s) BY <1>1 DEF CloseBrowser
  <2> QED BY <1>1, <2>1, SMT DEF TypeOK, BrowserGone, Ended, Objects, Status, Final
<1>2. CASE browser[s] # "open"
  <2>1. UNCHANGED <<browser, page, status, monitor>> BY <1>2 DEF CloseBrowser
  <2> QED BY <1>2, <2>1, SMT DEF TypeOK, Ended
<1> QED BY <1>1, <1>2

(* The user quits the browser, or a closing request ends it.               *)
LEMMA GoneStep ==
    ASSUME IInv, NEW s \in Sessions, browser[s] = "open", BrowserGone(s),
           UNCHANGED <<request, listed, run, tick, closer, late>>
    PROVE  GoodStep
<1>t. TypeOK /\ SInv(s) BY DEF IInv
<1>g. Ended(s) BY <1>t, Gone DEF CloseBrowser
<1>1. TypeOK' BY <1>t, <1>g, SMT DEF TypeOK, Ended
<1>2. Stage(s)' BY <1>t, <1>g, SMT DEF SInv, Stage, Running, Ended
<1>3. Honest(s)' BY <1>t, <1>g, SMT DEF SInv, Honest, Stage, Ended
<1>4. WatchedBy(s)' BY <1>g, SMT DEF WatchedBy, Ended
<1>5. Quiet(s)' BY <1>t, <1>g, SMT DEF SInv, Quiet, Ended
<1>6. FailKept(s) BY <1>g, SMT DEF FailKept, Ended
<1>7. \A q \in Sessions \ {s} : Same(q) BY <1>g, Zenon DEF Same, Ended
<1> QED BY <1>1, <1>2, <1>3, <1>4, <1>5, <1>6, <1>7, OneSession DEF SInv

LEMMA CatchCloseStep ==
    ASSUME IInv, NEW s \in Sessions, CatchClose(s)
    PROVE  GoodStep
<1>t. TypeOK /\ SInv(s) BY DEF IInv
<1>g. Ended(s) BY <1>t, Gone DEF CatchClose
<1>r. /\ run[s] = "catch" /\ run'[s] = "done"
      /\ run' \in [Sessions -> Running \cup {"idle", "done"}]
      /\ \A q \in Sessions \ {s} : run'[q] = run[q]
      /\ UNCHANGED <<request, listed, tick, closer, late>>
  BY <1>t, SMT DEF TypeOK, CatchClose, Proceed
<1>1. TypeOK' BY <1>t, <1>g, <1>r, SMT DEF TypeOK, Ended
<1>2. Stage(s)' BY <1>t, <1>g, <1>r, SMT DEF SInv, Stage, Running, Ended
<1>3. Honest(s)' BY <1>t, <1>g, <1>r, SMT DEF SInv, Honest, Stage, Ended
<1>4. WatchedBy(s)' BY <1>g, SMT DEF WatchedBy, Ended
<1>5. Quiet(s)' BY <1>t, <1>g, <1>r, SMT DEF SInv, Quiet, Ended
<1>6. FailKept(s) BY <1>g, SMT DEF FailKept, Ended
<1>7. \A q \in Sessions \ {s} : Same(q) BY <1>g, <1>r, Zenon DEF Same, Ended
<1> QED BY <1>1, <1>2, <1>3, <1>4, <1>5, <1>6, <1>7, OneSession DEF SInv

LEMMA PageClosesStep ==
    ASSUME IInv, NEW s \in Sessions, PageCloses(s)
    PROVE  GoodStep
<1>t. TypeOK /\ SInv(s) BY DEF IInv
<1>1. TypeOK' BY <1>t, SMT DEF TypeOK, PageCloses, Objects
<1>2. /\ page[s] = "open" /\ page'[s] = "closed"
      /\ UNCHANGED <<request, status, listed, run, browser, monitor, tick, closer>>
  BY <1>t, SMT DEF TypeOK, PageCloses
<1>3. SInv(s)' BY <1>t, <1>2, SMT DEF SInv, Stage, Honest, WatchedBy, Quiet, Running
<1>4. FailKept(s) BY <1>2, SMT DEF FailKept
<1>5. \A q \in Sessions \ {s} : Same(q) BY <1>t, SMT DEF TypeOK, PageCloses, Same
<1> QED BY <1>1, <1>3, <1>4, <1>5, OneSession

-----------------------------------------------------------------------------
(* The monitor *)

(* What a tick that moves on leaves as it was.                             *)
LEMMA Beats ==
    ASSUME TypeOK, NEW s \in Sessions, NEW k \in Ticks, NEW from,
           NEW to \in {"idle", "detect", "observe", "closing"}, Beat(s, k, from, to)
    PROVE  /\ tick[s][k] = from /\ tick'[s][k] = to
           /\ tick' \in [Sessions -> [Ticks -> {"idle", "detect", "observe", "closing"}]]
           /\ \A j \in Ticks \ {k} : tick'[s][j] = tick[s][j]
           /\ \A q \in Sessions \ {s} : tick'[q] = tick[q]
BY SMT DEF TypeOK, Beat

(* A tick that clears the interval leaves no browser behind: an armed      *)
(* interval means a page, and a session that is over while its page is     *)
(* open has no armed interval.                                             *)
LEMMA TickStartsStep ==
    ASSUME IInv, NEW s \in Sessions, NEW k \in Ticks, TickStarts(s, k)
    PROVE  GoodStep
<1>t. TypeOK /\ SInv(s) BY DEF IInv
<1>a. /\ monitor[s] = "armed" /\ tick[s][k] = "idle" /\ status[s] # "FAILED"
      /\ UNCHANGED <<request, listed, run, browser, page, closer, late>>
  BY <1>t, SMT DEF TickStarts, SInv, Quiet
<1>6. FailKept(s) BY <1>a DEF FailKept
<1>m. ASSUME monitor' = [monitor EXCEPT ![s] = "cleared"]
      PROVE  /\ monitor' \in [Sessions -> {"none", "armed", "cleared"}]
             /\ monitor'[s] = "cleared"
             /\ \A q \in Sessions \ {s} : monitor'[q] = monitor[q]
  BY <1>t, <1>m, SMT DEF TypeOK
<1>1. CASE ~Watched(s) /\ monitor' = [monitor EXCEPT ![s] = "cleared"]
           /\ UNCHANGED <<status, tick>>
  <2>1. TypeOK' BY <1>t, <1>a, <1>m, <1>1, SMT DEF TypeOK
  <2>2. page[s] = "closed"
    <3>1. page[s] # "none" BY <1>t, <1>a DEF SInv, Stage
    <3>2. page[s] # "open"
      BY <1>t, <1>a, <1>1, SMT DEF Watched, Final, SInv, Honest
    <3> QED BY <1>t, <3>1, <3>2, SMT DEF TypeOK, Objects
  <2>3. SInv(s)'
    BY <1>t, <1>a, <1>m, <1>1, <2>2, SMT DEF SInv, Stage, Honest, WatchedBy, Quiet, Running
  <2>4. \A q \in Sessions \ {s} : Same(q) BY <1>a, <1>m, <1>1, Zenon DEF Same
  <2> QED BY <2>1, <2>3, <1>6, <2>4, OneSession
<1>2. CASE /\ monitor' = [monitor EXCEPT ![s] = "cleared"]
           /\ status' = [status EXCEPT ![s] = "EXPIRED"]
           /\ Beat(s, k, "idle", "closing")
  <2>1. /\ status' \in [Sessions -> Status \cup {None}]
        /\ status'[s] = "EXPIRED"
        /\ \A q \in Sessions \ {s} : status'[q] = status[q]
    BY <1>t, <1>2, SMT DEF TypeOK, Status, Final
  <2>2. /\ tick'[s][k] = "closing"
        /\ tick' \in [Sessions -> [Ticks -> {"idle", "detect", "observe", "closing"}]]
        /\ \A q \in Sessions \ {s} : tick'[q] = tick[q]
    BY <1>t, <1>2, Beats
  <2>3. TypeOK' BY <1>t, <1>a, <1>m, <1>2, <2>1, <2>2, SMT DEF TypeOK
  <2>4. SInv(s)'
    BY <1>t, <1>a, <1>m, <1>2, <2>1, <2>2, SMT
    DEF SInv, Stage, Honest, WatchedBy, Quiet, Running
  <2>5. \A q \in Sessions \ {s} : Same(q) BY <1>a, <1>m, <1>2, <2>1, <2>2, Zenon DEF Same
  <2> QED BY <2>3, <2>4, <1>6, <2>5, OneSession
<1>3. CASE Beat(s, k, "idle", "detect") /\ UNCHANGED <<monitor, status>>
  <2>2. /\ tick'[s][k] = "detect"
        /\ tick' \in [Sessions -> [Ticks -> {"idle", "detect", "observe", "closing"}]]
        /\ \A q \in Sessions \ {s} : tick'[q] = tick[q]
    BY <1>t, <1>3, Beats
  <2>3. TypeOK' BY <1>t, <1>a, <1>3, <2>2, SMT DEF TypeOK
  <2>4. SInv(s)'
    BY <1>t, <1>a, <1>3, <2>2, SMT DEF SInv, Stage, Honest, WatchedBy, Quiet, Running
  <2>5. \A q \in Sessions \ {s} : Same(q) BY <1>a, <1>3, <2>2, Zenon DEF Same
  <2> QED BY <2>3, <2>4, <1>6, <2>5, OneSession
<1> QED BY <1>1, <1>2, <1>3, Zenon DEF TickStarts

(* A tick that looks at the page belongs to a session that has not failed. *)
LEMMA TickLooksStep ==
    ASSUME IInv, NEW s \in Sessions, NEW k \in Ticks,
           TickDetects(s, k) \/ TickObserves(s, k)
    PROVE  GoodStep
<1>t. TypeOK /\ SInv(s) BY DEF IInv
<1>1. PICK from \in {"detect", "observe"}, to \in {"idle", "observe"} :
          Beat(s, k, from, to)
  BY SMT DEF TickDetects, TickObserves
<1>2. PICK st \in {status[s], "CHALLENGE_REQUIRED", "AUTHENTICATED"} :
          status' = [status EXCEPT ![s] = st]
  <2>1. status = [status EXCEPT ![s] = status[s]] BY <1>t, SMT DEF TypeOK
  <2> QED BY <2>1, Zenon DEF TickDetects, TickObserves
<1>3. /\ tick[s][k] \in {"detect", "observe"} /\ tick'[s][k] \in {"idle", "observe"}
      /\ tick' \in [Sessions -> [Ticks -> {"idle", "detect", "observe", "closing"}]]
      /\ \A j \in Ticks \ {k} : tick'[s][j] = tick[s][j]
      /\ \A q \in Sessions \ {s} : tick'[q] = tick[q]
  <2>1. to \in {"idle", "detect", "observe", "closing"} BY SMT
  <2> QED BY <1>t, <1>1, <2>1, Beats
<1>4. /\ status' \in [Sessions -> Status \cup {None}]
      /\ status'[s] \in {status[s], "CHALLENGE_REQUIRED", "AUTHENTICATED"}
      /\ \A q \in Sessions \ {s} : status'[q] = status[q]
  BY <1>t, <1>2, SMT DEF TypeOK, Status
<1>5. UNCHANGED <<request, listed, run, browser, page, monitor, closer, late>>
  BY Zenon DEF TickDetects, TickObserves
<1>6. TypeOK' BY <1>t, <1>3, <1>4, <1>5, SMT DEF TypeOK
<1>7. status[s] # "FAILED" /\ run[s] \notin Running \cup {"idle"}
  BY <1>t, <1>3, SMT DEF SInv, Quiet, Stage
<1>8. Stage(s)'
  <2>1. request[s] \notin {"idle", "found", "audited"}
    BY <1>t, <1>7, SMT DEF SInv, Stage
  <2> QED BY <1>t, <1>5, <1>7, <2>1, SMT DEF SInv, Stage, Running
<1>9. Honest(s)' /\ Quiet(s)' BY <1>t, <1>4, <1>5, <1>7, SMT DEF SInv, Honest, Quiet
<1>10. WatchedBy(s)' BY <1>t, <1>3, <1>5, SMT DEF SInv, WatchedBy
<1>11. FailKept(s) BY <1>7 DEF FailKept
<1>12. \A q \in Sessions \ {s} : Same(q) BY <1>3, <1>4, <1>5, Zenon DEF Same
<1> QED BY <1>6, <1>8, <1>9, <1>10, <1>11, <1>12, OneSession DEF SInv

LEMMA TickClosesStep ==
    ASSUME IInv, NEW s \in Sessions, NEW k \in Ticks, TickCloses(s, k)
    PROVE  GoodStep
<1>t. TypeOK /\ SInv(s) BY DEF IInv
<1>g. Ended(s) BY <1>t, Gone DEF TickCloses
<1>b. /\ tick[s][k] = "closing" /\ tick'[s][k] = "idle"
      /\ tick' \in [Sessions -> [Ticks -> {"idle", "detect", "observe", "closing"}]]
      /\ \A j \in Ticks \ {k} : tick'[s][j] = tick[s][j]
      /\ \A q \in Sessions \ {s} : tick'[q] = tick[q]
  BY <1>t, Beats DEF TickCloses
<1>u. UNCHANGED <<request, listed, run, closer, late>> BY DEF TickCloses
<1>1. TypeOK' BY <1>t, <1>g, <1>b, <1>u, SMT DEF TypeOK, Ended
<1>2. Stage(s)'
  <2>1. run[s] \notin Running \cup {"idle"} BY <1>t, <1>b, SMT DEF SInv, Stage
  <2> QED BY <1>t, <1>g, <1>u, <2>1, SMT DEF SInv, Stage, Running, Ended
<1>3. Honest(s)' BY <1>t, <1>g, <1>u, SMT DEF SInv, Honest, Stage, Ended
<1>4. WatchedBy(s)' BY <1>g, SMT DEF WatchedBy, Ended
<1>5. Quiet(s)' BY <1>t, <1>g, <1>b, <1>u, SMT DEF SInv, Quiet, Ended
<1>6. FailKept(s) BY <1>g, SMT DEF FailKept, Ended
<1>7. \A q \in Sessions \ {s} : Same(q) BY <1>g, <1>b, <1>u, Zenon DEF Same, Ended
<1> QED BY <1>1, <1>2, <1>3, <1>4, <1>5, <1>6, <1>7, OneSession DEF SInv

LEMMA LapseStep ==
    ASSUME IInv, NEW s \in Sessions, Lapse(s)
    PROVE  GoodStep
<1>t. TypeOK BY DEF IInv
<1>1. TypeOK' BY <1>t, SMT DEF TypeOK, Lapse
<1>2. ASSUME NEW q \in Sessions PROVE SInv(q)' /\ FailKept(q)
  <2>1. Same(q) BY Zenon DEF Same, Lapse
  <2>2. SInv(q) BY DEF IInv
  <2> QED BY <2>1, <2>2, Frame
<1> QED BY <1>1, <1>2 DEF IInv, GoodStep

-----------------------------------------------------------------------------
(* Closing requests *)

LEMMA CloseStep ==
    ASSUME IInv, NEW c \in Closers, NEW s \in Sessions, Close(c, s)
    PROVE  GoodStep
<1>t. TypeOK /\ SInv(s) BY DEF IInv
<1>m. /\ monitor' \in [Sessions -> {"none", "armed", "cleared"}]
      /\ monitor'[s] # "armed"
      /\ monitor[s] = "none" => monitor'[s] = "none"
      /\ \A q \in Sessions \ {s} : monitor'[q] = monitor[q]
  BY <1>t, SMT DEF TypeOK, Close
<1>u. closer[c] = None /\ s \in listed /\ UNCHANGED <<request, run, browser, page, tick, late>>
  BY DEF Close
<1>r. request[s] \notin {"idle", "found", "audited"} BY <1>t, <1>u DEF SInv, Stage
<1>1. CASE browser[s] # "none" /\ closer' = [closer EXCEPT ![c] = s]
           /\ UNCHANGED <<status, listed>>
  <2>1. /\ closer' \in [Closers -> Sessions \cup {None}] /\ closer'[c] = s
        /\ \A q \in Sessions \ {s} : \A d \in Closers : closer'[d] = q <=> closer[d] = q
    BY <1>t, <1>u, <1>1, LaunchAssumption, SMT DEF TypeOK
  <2>2. TypeOK' BY <1>t, <1>m, <1>u, <1>1, <2>1, SMT DEF TypeOK
  <2>3. SInv(s)'
    BY <1>t, <1>m, <1>u, <1>r, <1>1, <2>1, SMT DEF SInv, Stage, Honest, WatchedBy, Quiet, Running
  <2>4. FailKept(s) BY <1>1, SMT DEF FailKept
  <2>5. \A q \in Sessions \ {s} : Same(q) BY <1>m, <1>u, <1>1, <2>1, Zenon DEF Same
  <2> QED BY <2>2, <2>3, <2>4, <2>5, OneSession
<1>2. CASE browser[s] = "none" /\ status' = [status EXCEPT ![s] = "CLOSED"]
           /\ listed' = listed \ {s} /\ UNCHANGED closer
  <2>1. /\ status' \in [Sessions -> Status \cup {None}] /\ status'[s] = "CLOSED"
        /\ \A q \in Sessions \ {s} : status'[q] = status[q]
    BY <1>t, <1>2, SMT DEF TypeOK, Status, Final
  <2>2. TypeOK' BY <1>t, <1>m, <1>u, <1>2, <2>1, SMT DEF TypeOK
  <2>3. SInv(s)'
    BY <1>t, <1>m, <1>u, <1>r, <1>2, <2>1, SMT DEF SInv, Stage, Honest, WatchedBy, Quiet, Running
  <2>4. FailKept(s) BY <2>1, SMT DEF FailKept
  <2>5. \A q \in Sessions \ {s} : Same(q) BY <1>m, <1>u, <1>2, <2>1, Zenon DEF Same
  <2> QED BY <2>2, <2>3, <2>4, <2>5, OneSession
<1> QED BY <1>1, <1>2, Zenon DEF Close

LEMMA CloseAskedStep ==
    ASSUME IInv, NEW c \in Closers, CloseAsked(c)
    PROVE  GoodStep
<1>1. closer[c] \in Sessions BY SMT DEF IInv, TypeOK, CloseAsked
<1> QED BY <1>1, GoneStep DEF CloseAsked

LEMMA CloseAnsweredStep ==
    ASSUME IInv, NEW c \in Closers, CloseAnswered(c)
    PROVE  GoodStep
<1>s. PICK s \in Sessions : closer[c] = s
  BY SMT DEF IInv, TypeOK, CloseAnswered
<1>t. TypeOK /\ SInv(s) BY DEF IInv
<1>c. /\ browser[s] = "closed" /\ status' = [status EXCEPT ![s] = "CLOSED"]
      /\ listed' = listed \ {s} /\ closer' = [closer EXCEPT ![c] = None]
      /\ UNCHANGED <<request, run, browser, page, monitor, tick, late>>
  BY <1>s DEF CloseAnswered
<1>r. request[s] \notin {"idle", "found", "audited"}
  BY <1>t, <1>c, SMT DEF SInv, Stage
<1>1. /\ status' \in [Sessions -> Status \cup {None}] /\ status'[s] = "CLOSED"
      /\ \A q \in Sessions \ {s} : status'[q] = status[q]
  BY <1>t, <1>c, <1>s, SMT DEF TypeOK, Status, Final
<1>2. /\ closer' \in [Closers -> Sessions \cup {None}]
      /\ \A q \in Sessions \ {s} : \A d \in Closers : closer'[d] = q <=> closer[d] = q
  BY <1>t, <1>c, <1>s, LaunchAssumption, SMT DEF TypeOK
<1>3. TypeOK' BY <1>t, <1>c, <1>1, <1>2, SMT DEF TypeOK
<1>4. SInv(s)'
  BY <1>t, <1>c, <1>r, <1>1, <1>2, SMT DEF SInv, Stage, Honest, WatchedBy, Quiet, Running
<1>5. FailKept(s) BY <1>1, SMT DEF FailKept
<1>6. \A q \in Sessions \ {s} : Same(q) BY <1>c, <1>1, <1>2, Zenon DEF Same
<1> QED BY <1>3, <1>4, <1>5, <1>6, OneSession

-----------------------------------------------------------------------------
(* Theorems *)

LEMMA NextStep == ASSUME IInv, [Next]_vars PROVE GoodStep
<1>1. CASE UNCHANGED vars BY <1>1, Stutter
<1>2. ASSUME NEW s \in Sessions, Asks(s) PROVE GoodStep
  BY <1>2, RequestStep, LaunchStep DEF Asks
<1>3. ASSUME NEW s \in Sessions, Runs(s) PROVE GoodStep
  BY <1>3, StartBrowserStep, MoveOnStep, OpenPageStep, ObserveStep, ThrowStep,
     CatchCloseStep DEF Runs
<1>4. ASSUME NEW s \in Sessions, BrowserQuits(s) \/ PageCloses(s) \/ Lapse(s)
      PROVE  GoodStep
  BY <1>4, GoneStep, PageClosesStep, LapseStep DEF BrowserQuits
<1>5. ASSUME NEW s \in Sessions, NEW k \in Ticks, TickStarts(s, k) \/ TickGoesOn(s, k)
      PROVE  GoodStep
  BY <1>5, TickStartsStep, TickLooksStep, TickClosesStep DEF TickGoesOn
<1>6. ASSUME NEW c \in Closers, Closes(c) PROVE GoodStep
  BY <1>6, CloseAskedStep, CloseAnsweredStep DEF Closes
<1>7. ASSUME NEW c \in Closers, NEW s \in Sessions, Close(c, s) PROVE GoodStep
  BY <1>7, CloseStep
<1> QED BY <1>1, <1>2, <1>3, <1>4, <1>5, <1>6, <1>7, Zenon DEF Next

(* The invariant holds in every reachable state.                           *)
THEOREM Invariance == Spec => []IInv
<1>1. IInv /\ [Next]_vars => IInv' BY NextStep DEF GoodStep
<1> QED BY Initially, <1>1, PTL DEF Spec

(* Every variable of a launch keeps its type.                              *)
THEOREM TypeCorrect == Spec => []TypeOK
<1>1. IInv => TypeOK BY DEF IInv
<1> QED BY Invariance, <1>1, PTL

(* No browser with a window is left without something that will close it,  *)
(* whatever the order of closing requests, ticks, errors and the user.     *)
THEOREM NoOrphanBrowser == Spec => []BrowserWatched
<1>1. IInv => BrowserWatched BY DEF IInv, SInv, WatchedBy, BrowserWatched
<1> QED BY Invariance, <1>1, PTL

(* A failed session keeps neither an interval nor a browser its error path *)
(* is not about to close.                                                  *)
THEOREM FailureQuiet == Spec => []FailedIsQuiet
<1>1. IInv => FailedIsQuiet BY DEF IInv, SInv, Quiet, FailedIsQuiet
<1> QED BY Invariance, <1>1, PTL

(* A failure is reported until the session is closed.                      *)
THEOREM FailureFinal == Spec => FailedIsFinal
<1>1. IInv /\ [Next]_vars =>
          [\A s \in Sessions :
               status[s] = "FAILED" => status'[s] \in {"FAILED", "CLOSED"}]_vars
  BY NextStep DEF GoodStep, FailKept
<1> QED BY Invariance, <1>1, PTL DEF Spec, FailedIsFinal

-----------------------------------------------------------------------------
(* The dialogs *)

(* Each step of a dialog, or of what goes on apart from it, is a step of   *)
(* BrowserLaunch or leaves its variables alone.                            *)
LEMMA DialogStep ==
    ASSUME NEW s \in Sessions, Dialog(s)
    PROVE  \/ Requested(s) /\ Asks(s)
           \/ \E c \in Closers : CloseServed(s, c) /\ Close(c, s)
           \/ UNCHANGED vars
<1>1. ASSUME NEW c \in Closers, CloseServed(s, c)
      PROVE  Close(c, s) \/ UNCHANGED vars
  BY <1>1, Zenon DEF CloseServed
<1>2. ASSUME \/ Open(s) \/ LaunchAnswered(s) \/ Leave(s)
             \/ \E p \in Polls : Poll(s, p) \/ PollAnswered(s, p) \/ PollLost(s, p)
             \/ \E c \in Closers : CloseSession(s, c) \/ CloseSessionAnswered(s, c)
      PROVE  UNCHANGED vars
  BY <1>2, Zenon DEF Open, LaunchAnswered, Leave, Poll, PollAnswered, PollLost,
                     CloseSession, CloseSessionAnswered
<1>3. ASSUME Requested(s) PROVE Asks(s) BY <1>3, Zenon DEF Requested
<1> QED BY <1>1, <1>2, <1>3, Zenon DEF Dialog

LEMMA DialogImplements == [MNext]_allVars => [Next]_vars
<1> SUFFICES ASSUME [MNext]_allVars PROVE [Next]_vars OBVIOUS
<1>1. CASE UNCHANGED allVars BY <1>1 DEF allVars
<1>2. CASE Server
  <2>1. ASSUME NEW s \in Sessions,
               \/ Runs(s) \/ BrowserQuits(s) \/ PageCloses(s) \/ Lapse(s)
               \/ \E k \in Ticks : TickStarts(s, k) \/ TickGoesOn(s, k)
        PROVE  Next
    BY <2>1, Zenon DEF Next
  <2>2. ASSUME NEW c \in Closers, Closes(c) PROVE Next BY <2>2, Zenon DEF Next
  <2> QED BY <1>2, <2>1, <2>2, Zenon DEF Server
<1>c. CASE CookieChanges BY <1>c, Zenon DEF CookieChanges
<1>3. ASSUME NEW s \in Sessions, Dialog(s) PROVE [Next]_vars
  <2>1. Asks(s) => Next BY Zenon DEF Next
  <2>2. (\E c \in Closers : Close(c, s)) => Next BY Zenon DEF Next
  <2> QED BY <1>3, DialogStep, <2>1, <2>2
<1> QED BY <1>1, <1>2, <1>c, <1>3 DEF MNext

(* What has been seen to fail: nothing opens a browser for it again, and   *)
(* its error path closes the one it has.                                   *)
Over(s) ==
    /\ run[s] \in {"catch", "done"}
    /\ browser[s] = "open" => run[s] = "catch"

HasStatus(s) == s \in listed => status[s] # None

(* What a dialog knows of a failure, on its error screen or in an answer   *)
(* under way, was true of the session and has not been undone.             *)
HeardRight(s) ==
    (error[s] /\ known[s]) \/ (\E p \in Polls : poll[s][p] = "FAILED") => Over(s)

MInv == /\ IInv /\ ModalTypeOK
        /\ \A s \in Sessions : HasStatus(s) /\ HeardRight(s)

(* A session that is over stays so, and one that is listed has a status:   *)
(* the steps that only touch the request, the launch and its ticks first,  *)
(* then those that end a browser, then those that end the session.         *)
Lasts(q) == (Over(q) => Over(q)') /\ (HasStatus(q) => HasStatus(q)')

LEMMA LaunchLasts ==
    ASSUME IInv, NEW s \in Sessions, NEW q \in Sessions,
           \/ Asks(s) \/ StartBrowser(s) \/ OpenContext(s) \/ OpenPage(s)
           \/ UsePage(s) \/ Observe(s) \/ Throw(s)
    PROVE  Lasts(q)
<1>t. TypeOK /\ Stage(s) BY DEF IInv, SInv
<1>1. CASE ReadRows(s) \/ AuditLaunch(s) \/ Answer(s) \/ RequestFails(s)
  BY <1>1, Zenon DEF Lasts, Over, HasStatus, ReadRows, AuditLaunch, Answer, RequestFails,
                   ManagerVars
<1>2. CASE Launch(s)
  <2>1. Over(q) => Over(q)'
    BY <1>t, <1>2, SMT DEF TypeOK, Stage, Over, Launch, Step
  <2>2. HasStatus(q) => HasStatus(q)'
    BY <1>t, <1>2, LaunchAssumption, SMT
    DEF TypeOK, HasStatus, Launch, Status, Final
  <2> QED BY <2>1, <2>2 DEF Lasts
<1>3. CASE StartBrowser(s) \/ OpenContext(s) \/ UsePage(s)
  BY <1>t, <1>3, SMT
  DEF TypeOK, Lasts, Over, HasStatus, StartBrowser, OpenContext, UsePage, Proceed
<1>4. CASE OpenPage(s) \/ Observe(s) \/ Throw(s)
  <2>1. Over(q) => Over(q)'
    BY <1>t, <1>4, SMT DEF TypeOK, Over, OpenPage, Observe, Throw, Proceed
  <2>2. HasStatus(q) => HasStatus(q)'
    BY <1>t, <1>4, LaunchAssumption, SMT
    DEF TypeOK, HasStatus, OpenPage, Observe, Throw, Proceed, Status, Final
  <2> QED BY <2>1, <2>2 DEF Lasts
<1> QED BY <1>1, <1>2, <1>3, <1>4, Zenon DEF Asks

LEMMA TickLasts ==
    ASSUME IInv, NEW s \in Sessions, NEW k \in Ticks, NEW q \in Sessions,
           \/ TickStarts(s, k) \/ TickDetects(s, k) \/ TickObserves(s, k)
    PROVE  Lasts(q)
<1>1. UNCHANGED <<run, browser, listed>>
  BY Zenon DEF TickStarts, TickDetects, TickObserves
<1>2. status[q] # None => status'[q] # None
  BY LaunchAssumption, SMT
  DEF IInv, TypeOK, TickStarts, TickDetects, TickObserves, Status, Final
<1> QED BY <1>1, <1>2 DEF Lasts, Over, HasStatus

LEMMA GoneLasts ==
    ASSUME IInv, NEW s \in Sessions, Ended(s), NEW q \in Sessions,
           UNCHANGED listed, run' = run \/ Proceed(s, "catch", "done")
    PROVE  Lasts(q)
<1>t. TypeOK BY DEF IInv
<1>1. Over(q) => Over(q)'
  BY <1>t, SMT DEF TypeOK, Over, Ended, Proceed, Objects
<1>2. HasStatus(q) => HasStatus(q)'
  BY LaunchAssumption, SMT DEF HasStatus, Ended, Status, Final
<1> QED BY <1>1, <1>2 DEF Lasts

LEMMA CloseLasts ==
    ASSUME IInv, NEW c \in Closers, NEW s \in Sessions, NEW q \in Sessions,
           Close(c, s) \/ (closer[c] = s /\ CloseAnswered(c))
    PROVE  Lasts(q)
<1>1. UNCHANGED <<run, browser>> /\ listed' \subseteq listed
  BY SMT DEF Close, CloseAnswered
<1>2. status[q] # None => status'[q] # None
  BY LaunchAssumption, SMT DEF IInv, TypeOK, Close, CloseAnswered, Status, Final
<1> QED BY <1>1, <1>2 DEF Lasts, Over, HasStatus

LEMMA NextLasts ==
    ASSUME IInv, [Next]_vars, NEW q \in Sessions
    PROVE  Lasts(q)
<1>t. TypeOK BY DEF IInv
<1>1. CASE UNCHANGED vars BY <1>1, Zenon DEF vars, Lasts, Over, HasStatus
<1>2. ASSUME NEW s \in Sessions, Asks(s) PROVE Lasts(q) BY <1>2, LaunchLasts
<1>3. ASSUME NEW s \in Sessions, Runs(s) PROVE Lasts(q)
  <2>1. CASE CatchClose(s)
    BY <1>t, <2>1, Gone, GoneLasts DEF CatchClose
  <2> QED BY <1>3, <2>1, LaunchLasts DEF Runs
<1>4. ASSUME NEW s \in Sessions, BrowserQuits(s) PROVE Lasts(q)
  <2>1. CloseBrowser(s) BY <1>4 DEF BrowserQuits, CloseBrowser
  <2> QED BY <1>t, <1>4, <2>1, Gone, GoneLasts DEF BrowserQuits
<1>5. ASSUME NEW s \in Sessions, PageCloses(s) \/ Lapse(s) PROVE Lasts(q)
  BY <1>5, LaunchAssumption, Zenon DEF PageCloses, Lapse, Lasts, Over, HasStatus
<1>6. ASSUME NEW s \in Sessions, NEW k \in Ticks, TickStarts(s, k) \/ TickGoesOn(s, k)
      PROVE  Lasts(q)
  <2>1. CASE TickCloses(s, k)
    BY <1>t, <2>1, Gone, GoneLasts DEF TickCloses
  <2> QED BY <1>6, <2>1, TickLasts DEF TickGoesOn
<1>7. ASSUME NEW c \in Closers, Closes(c) PROVE Lasts(q)
  <2>1. closer[c] \in Sessions BY <1>7, SMT DEF IInv, TypeOK, Closes, CloseAsked, CloseAnswered
  <2>2. CASE CloseAsked(c)
    <3>1. CloseBrowser(closer[c]) BY <2>2 DEF CloseAsked, CloseBrowser
    <3> QED BY <1>t, <2>1, <2>2, <3>1, Gone, GoneLasts DEF CloseAsked
  <2> QED BY <1>7, <2>1, <2>2, CloseLasts DEF Closes
<1>8. ASSUME NEW c \in Closers, NEW s \in Sessions, Close(c, s) PROVE Lasts(q)
  BY <1>8, CloseLasts
<1> QED BY <1>1, <1>2, <1>3, <1>4, <1>5, <1>6, <1>7, <1>8, Zenon DEF Next

(* A step that spreads no news of a failure keeps what was heard right.    *)
LEMMA NoNews ==
    ASSUME MInv, [Next]_vars, NEW q \in Sessions,
           error'[q] /\ known'[q] => error[q] /\ known[q],
           \A p \in Polls : poll'[q][p] = "FAILED" => poll[q][p] = "FAILED"
    PROVE  HeardRight(q)'
<1>1. HeardRight(q) /\ Lasts(q) BY NextLasts DEF MInv
<1> QED BY <1>1 DEF HeardRight, Lasts

(* What a step leaves of the dialogs. *)
DialogGood == ModalTypeOK' /\ \A q \in Sessions : HeardRight(q)'

LEMMA ApartGood ==
    ASSUME MInv, [Next]_vars, UNCHANGED modalVars PROVE DialogGood
<1>1. UNCHANGED <<modal, known, shown, error, said, poll, asked, cookie>> BY DEF modalVars
<1>2. ModalTypeOK' BY <1>1 DEF MInv, ModalTypeOK
<1> QED BY <1>1, <1>2, NoNews, Zenon DEF DialogGood

LEMMA CookieGood == ASSUME MInv, [Next]_vars, CookieChanges PROVE DialogGood
<1>1. UNCHANGED <<modal, known, shown, error, said, poll, asked>> /\ cookie' = ~cookie
  BY DEF CookieChanges
<1>2. ModalTypeOK' BY <1>1, Zenon DEF MInv, ModalTypeOK
<1> QED BY <1>1, <1>2, NoNews, Zenon DEF DialogGood

(* The launch: an error screen that the failed request brings is that of a *)
(* dialog without a session, and it stays without.                         *)
LEMMA LaunchDialogGood ==
    ASSUME MInv, [Next]_vars, NEW s \in Sessions,
           Open(s) \/ Requested(s) \/ LaunchAnswered(s)
    PROVE  DialogGood
<1>t. TypeOK /\ ModalTypeOK BY DEF MInv, IInv
<1>1. CASE Open(s)
  <2>1. ModalTypeOK' BY <1>t, <1>1, SMT DEF ModalTypeOK, Open
  <2> QED BY <1>1, <2>1, NoNews, Zenon DEF DialogGood, Open
<1>2. CASE Requested(s)
  <2>1. Launch(s) => status'[s] \in Status
    BY <1>t, SMT DEF TypeOK, Launch, Status, Final
  <2>2. said' \in [Sessions -> Status]
    BY <1>t, <1>2, <2>1, SMT DEF ModalTypeOK, Requested
  <2>3. ModalTypeOK' BY <1>t, <1>2, <2>2 DEF ModalTypeOK, Requested
  <2> QED BY <1>2, <2>3, NoNews, Zenon DEF DialogGood, Requested
<1>3. CASE LaunchAnswered(s)
  <2> DEFINE Spreads == \A q \in Sessions : error'[q] /\ known'[q] => error[q] /\ known[q]
  <2>a. ASSUME known' = [known EXCEPT ![s] = TRUE] /\ UNCHANGED error
             /\ shown' = [shown EXCEPT ![s] = said[s]]
        PROVE  ModalTypeOK' /\ Spreads
    <3>1. known' \in [Sessions -> BOOLEAN] /\ shown' \in [Sessions -> Status]
      BY <1>t, <2>a, Zenon DEF ModalTypeOK
    <3>2. ModalTypeOK' BY <1>t, <1>3, <2>a, <3>1, Zenon DEF ModalTypeOK, LaunchAnswered
    <3>3. \A q \in Sessions \ {s} : known'[q] = known[q]
      BY <1>t, <2>a, Zenon DEF ModalTypeOK
    <3> QED BY <1>3, <2>a, <3>2, <3>3, Zenon DEF LaunchAnswered
  <2>b. ASSUME error' = [error EXCEPT ![s] = TRUE] /\ UNCHANGED known
             /\ shown' = [shown EXCEPT ![s] = "FAILED"]
        PROVE  ModalTypeOK' /\ Spreads
    <3>1. "FAILED" \in Status BY DEF Status, Final
    <3>2. error' \in [Sessions -> BOOLEAN] /\ shown' \in [Sessions -> Status]
      BY <1>t, <2>b, <3>1, Zenon DEF ModalTypeOK
    <3>3. ModalTypeOK' BY <1>t, <1>3, <2>b, <3>2, Zenon DEF ModalTypeOK, LaunchAnswered
    <3>4. \A q \in Sessions \ {s} : error'[q] = error[q]
      BY <1>t, <2>b, Zenon DEF ModalTypeOK
    <3> QED BY <1>3, <2>b, <3>3, <3>4, Zenon DEF LaunchAnswered
  <2>1. ModalTypeOK' /\ Spreads BY <1>3, <2>a, <2>b, Zenon DEF LaunchAnswered
  <2>2. poll' = poll BY <1>3 DEF LaunchAnswered
  <2> QED BY <2>1, <2>2, NoNews, Zenon DEF DialogGood
<1> QED BY <1>1, <1>2, <1>3

(* The polls: one that reads FAILED reads it of a session that is over.    *)
LEMMA PollGood ==
    ASSUME MInv, NEW s \in Sessions, NEW p \in Polls, Poll(s, p)
    PROVE  DialogGood
<1>t. TypeOK /\ ModalTypeOK /\ Honest(s) /\ Quiet(s) /\ HasStatus(s)
  BY DEF MInv, IInv, SInv
<1>1. UNCHANGED <<vars, modal, known, shown, error, said, asked, cookie>> BY DEF Poll
<1>2. status[s] \in Status BY <1>t, SMT DEF TypeOK, HasStatus, Poll
<1>3. ModalTypeOK' BY <1>t, <1>2, SMT DEF ModalTypeOK, Poll
<1>4. ASSUME NEW q \in Sessions PROVE HeardRight(q)'
  <2>1. CASE poll'[q] = poll[q] BY <1>1, <2>1, NoNews
  <2>2. CASE q = s /\ status[s] # "FAILED"
    <3>1. \A r \in Polls : poll'[s][r] = "FAILED" => poll[s][r] = "FAILED"
      BY <1>t, <2>2, SMT DEF ModalTypeOK, Poll
    <3> QED BY <1>1, <2>2, <3>1, NoNews
  <2>3. CASE q = s /\ status[s] = "FAILED"
    <3>1. Over(s) BY <1>t, <2>3 DEF Honest, Quiet, Over
    <3>2. Over(s)' BY <1>1, <3>1, Zenon DEF vars, Over
    <3> QED BY <2>3, <3>2 DEF HeardRight
  <2>4. q # s => poll'[q] = poll[q] BY <1>t, SMT DEF ModalTypeOK, Poll
  <2> QED BY <2>1, <2>2, <2>3, <2>4
<1> QED BY <1>3, <1>4 DEF DialogGood

LEMMA PollEndsGood ==
    ASSUME MInv, NEW s \in Sessions, NEW p \in Polls,
           PollAnswered(s, p) \/ PollLost(s, p)
    PROVE  DialogGood
<1>t. ModalTypeOK BY DEF MInv
<1>1. UNCHANGED <<vars, modal, known, said, asked, cookie>> BY DEF PollAnswered, PollLost
<1>p. /\ poll' = [poll EXCEPT ![s][p] = Idle]
      /\ poll \in [Sessions -> [Polls -> Status \cup {Idle}]]
  BY <1>t, Zenon DEF ModalTypeOK, PollAnswered, PollLost
<1>2. ModalTypeOK'
  <2>1. poll' \in [Sessions -> [Polls -> Status \cup {Idle}]] BY <1>p, SMT
  <2>2. shown' \in [Sessions -> Status]
    <3>1. shown \in [Sessions -> Status] BY <1>t DEF ModalTypeOK
    <3>2. CASE PollLost(s, p) BY <3>1, <3>2 DEF PollLost
    <3>3. CASE PollAnswered(s, p)
      <4>1. poll[s][p] \in Status BY <1>p, <3>3, SMT DEF PollAnswered
      <4> QED BY <3>1, <3>3, <4>1, Zenon DEF PollAnswered
    <3> QED BY <3>2, <3>3
  <2>3. error' \in [Sessions -> BOOLEAN]
    BY <1>t, Zenon DEF ModalTypeOK, PollAnswered, PollLost
  <2> QED BY <1>t, <1>1, <2>1, <2>2, <2>3 DEF ModalTypeOK
<1>3. ASSUME NEW q \in Sessions, NEW r \in Polls
      PROVE  poll'[q][r] = "FAILED" => poll[q][r] = "FAILED"
  BY <1>p, SMT DEF Idle
<1>4. ASSUME NEW q \in Sessions PROVE HeardRight(q)'
  <2>1. HeardRight(q) /\ Lasts(q) BY <1>1, NextLasts DEF MInv
  <2>2. error'[q] => error[q] \/ (q = s /\ poll[s][p] = "FAILED")
    BY <1>t, Zenon DEF ModalTypeOK, PollAnswered, PollLost
  <2> QED BY <1>1, <1>3, <2>1, <2>2, Zenon DEF HeardRight, Lasts
<1> QED BY <1>2, <1>4 DEF DialogGood

(* The dialog goes, or asks for its session to be closed.                  *)
LEMMA LeaveGood ==
    ASSUME MInv, NEW s \in Sessions, UNCHANGED <<vars, said, cookie>>,
           \/ Leave(s)
           \/ \E c \in Closers : CloseSessionAnswered(s, c)
    PROVE  DialogGood
<1>t. ModalTypeOK BY DEF MInv
<1>1. Unmount(s) /\ asked' \in [Sessions -> [Closers -> Asked]]
  <2>1. CASE Leave(s) BY <1>t, <2>1, Zenon DEF ModalTypeOK, Leave
  <2>2. ASSUME NEW c \in Closers, CloseSessionAnswered(s, c)
        PROVE  asked' \in [Sessions -> [Closers -> Asked]]
    BY <1>t, <2>2, SMT DEF ModalTypeOK, CloseSessionAnswered, Asked
  <2> QED BY <2>1, <2>2, Zenon DEF CloseSessionAnswered
<1>2. ModalTypeOK' BY <1>t, <1>1, SMT DEF ModalTypeOK, Unmount, Status, Final
<1>3. ASSUME NEW q \in Sessions
      PROVE  /\ error'[q] /\ known'[q] => error[q] /\ known[q]
             /\ \A r \in Polls : poll'[q][r] = "FAILED" => poll[q][r] = "FAILED"
  BY <1>t, <1>1, SMT DEF ModalTypeOK, Unmount, Idle
<1> QED BY <1>2, <1>3, NoNews DEF DialogGood

LEMMA CloseSessionGood ==
    ASSUME MInv, [Next]_vars, NEW s \in Sessions, NEW c \in Closers,
           CloseSession(s, c) \/ CloseServed(s, c)
    PROVE  DialogGood
<1>t. ModalTypeOK BY DEF MInv
<1>1. UNCHANGED <<modal, known, shown, error, said, poll, cookie>> BY DEF CloseSession, CloseServed
<1>2. asked' \in [Sessions -> [Closers -> Asked]]
  <2>1. PICK to \in Asked : asked' = [asked EXCEPT ![s][c] = to]
    BY SMT DEF CloseSession, CloseServed, Served, Asked
  <2> QED BY <1>t, <2>1, SMT DEF ModalTypeOK
<1>3. ModalTypeOK' BY <1>t, <1>1, <1>2 DEF ModalTypeOK
<1> QED BY <1>1, <1>3, NoNews, Zenon DEF DialogGood

LEMMA DialogKeeps == ASSUME MInv, [MNext]_allVars PROVE MInv'
<1>n. [Next]_vars BY DialogImplements
<1>1. IInv' BY <1>n, NextStep DEF MInv, GoodStep
<1>2. \A q \in Sessions : HasStatus(q)' BY <1>n, NextLasts DEF MInv, Lasts
<1>3. DialogGood
  <2>1. CASE UNCHANGED allVars \/ Server
    <3>1. UNCHANGED modalVars BY <2>1 DEF allVars, Server
    <3> QED BY <1>n, <3>1, ApartGood
  <2>2. ASSUME NEW s \in Sessions, Dialog(s) PROVE DialogGood
    <3>1. CASE Open(s) \/ Requested(s) \/ LaunchAnswered(s)
      BY <1>n, <3>1, LaunchDialogGood
    <3>2. CASE Leave(s) BY <3>2, LeaveGood DEF Leave
    <3>3. ASSUME NEW p \in Polls, Poll(s, p) \/ PollAnswered(s, p) \/ PollLost(s, p)
          PROVE  DialogGood
      BY <3>3, PollGood, PollEndsGood
    <3>4. ASSUME NEW c \in Closers, CloseSession(s, c) \/ CloseServed(s, c)
          PROVE  DialogGood
      BY <1>n, <3>4, CloseSessionGood
    <3>5. ASSUME NEW c \in Closers, CloseSessionAnswered(s, c) PROVE DialogGood
      BY <3>5, LeaveGood DEF CloseSessionAnswered
    <3> QED BY <2>2, <3>1, <3>2, <3>3, <3>4, <3>5, Zenon DEF Dialog
  <2>3. CASE CookieChanges BY <1>n, <2>3, CookieGood
  <2> QED BY <2>1, <2>2, <2>3, Zenon DEF MNext
<1> QED BY <1>1, <1>2, <1>3 DEF MInv, DialogGood

(* A launch under its dialog is a launch: every step of the composition is *)
(* one of BrowserLaunch or leaves its variables alone.                     *)
THEOREM DialogImplementsLaunch == MSpec => Spec
<1>1. MInit => Init BY DEF MInit
<1> QED BY <1>1, DialogImplements, PTL DEF MSpec, Spec

THEOREM DialogInvariance == MSpec => []MInv
<1>1. MInit => MInv
  <2> SUFFICES ASSUME MInit PROVE MInv OBVIOUS
  <2>1. IInv BY Initially DEF MInit
  <2>2. ModalTypeOK BY SMT DEF MInit, ModalTypeOK, Status, Idle, Asked
  <2>3. ASSUME NEW s \in Sessions PROVE HasStatus(s) /\ HeardRight(s)
    BY <2>3, SMT DEF MInit, Init, HasStatus, HeardRight, Idle
  <2> QED BY <2>1, <2>2, <2>3 DEF MInv
<1>2. MInv /\ [MNext]_allVars => MInv' BY DialogKeeps
<1> QED BY <1>1, <1>2, PTL DEF MSpec

(* A dialog's state keeps its type, its polls included: no poll brings a   *)
(* status that the session cannot have.                                    *)
THEOREM DialogTypeCorrect == MSpec => []ModalTypeOK
<1>1. MInv => ModalTypeOK BY DEF MInv
<1> QED BY DialogInvariance, <1>1, PTL

(* Under any interleaving of launch, polls and closing requests, the error *)
(* screen of a dialog that knows its session leaves no browser behind that *)
(* the session's error path is not about to close.                         *)
THEOREM ErrorScreenSafe == MSpec => []ErrorScreenIsSafe
<1>1. MInv => ErrorScreenIsSafe BY DEF MInv, HeardRight, Over, ErrorScreenIsSafe
<1> QED BY DialogInvariance, <1>1, PTL

(* What the launches promise, they promise under their dialogs.            *)
THEOREM NoOrphanUnderDialog == MSpec => []BrowserWatched
BY DialogImplementsLaunch, NoOrphanBrowser, PTL

THEOREM FailureQuietUnderDialog == MSpec => []FailedIsQuiet
BY DialogImplementsLaunch, FailureQuiet, PTL
=============================================================================
