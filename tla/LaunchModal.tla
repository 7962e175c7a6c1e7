----------------------------- MODULE LaunchModal -----------------------------
(***************************************************************************)
(* The console's launch dialog (LaunchModal of screens/Launcher.tsx) over  *)
(* the browser sessions of BrowserLaunch: one dialog per session asks for  *)
(* the launch, polls the session once a second, and may ask to close it.   *)
(* Polls that are slow overlap and are applied in the order they arrive;   *)
(* an answer that comes after the dialog has gone changes nothing.         *)
(*                                                                         *)
(* Every request carries the access cookie, which lasts five minutes from  *)
(* the login (ACCESS_TTL of auth.ts) and which the console never renews: a *)
(* request without it is answered 401.                                     *)
(*                                                                         *)
(* Every step is a step of BrowserLaunch or leaves its variables alone.    *)
(* Bound: Polls is the number of polls of one dialog in flight.            *)
(***************************************************************************)
EXTENDS BrowserLaunch

CONSTANT Polls

VARIABLES
    modal,   \* the dialog of the session: "none", "open" or "gone"
    known,   \* its session: the answer to the launch has arrived
    shown,   \* its status
    error,   \* it shows the error screen
    said,    \* the status in the answer to the launch
    poll,    \* poll[s][p]: the status a poll has read and not yet brought
    asked,   \* asked[s][c]: the request to close the dialog awaits, by the
             \* label its button had
    cookie   \* the browser holds an access cookie that has not lapsed

modalVars == <<modal, known, shown, error, said, poll, asked, cookie>>
allVars == <<vars, modalVars>>

Idle == "idle"
Settled == {"AUTHENTICATED", "FAILED", "CLOSED"}
Asked == {"no", "cancel", "cancelled", "hide", "hidden"}

MInit == /\ Init
         /\ modal = [s \in Sessions |-> "none"]
         /\ known = [s \in Sessions |-> FALSE]
         /\ shown = [s \in Sessions |-> "STARTING"]
         /\ error = [s \in Sessions |-> FALSE]
         /\ said = [s \in Sessions |-> "STARTING"]
         /\ poll = [s \in Sessions |-> [p \in Polls |-> Idle]]
         /\ asked = [s \in Sessions |-> [c \in Closers |-> "no"]]
         /\ cookie = TRUE

(* The cookie lapses, or a login, which may be another tab's, renews it.   *)
CookieChanges == /\ cookie' = ~cookie
                 /\ UNCHANGED <<vars, modal, known, shown, error, said, poll, asked>>

-----------------------------------------------------------------------------
(* The dialog opens, and its first effect posts the launch. *)
Open(s) == /\ modal[s] = "none" /\ modal' = [modal EXCEPT ![s] = "open"]
           /\ UNCHANGED <<vars, known, shown, error, said, poll, asked, cookie>>

(* The server's side of that request, which principal() lets in with the   *)
(* cookie only; its answer carries the status the session had when the     *)
(* launch was started.                                                     *)
Requested(s) == /\ modal[s] # "none"
                /\ Asks(s) /\ (request'[s] = "found" => cookie)
                /\ said' = IF Launch(s) THEN [said EXCEPT ![s] = status'[s]] ELSE said
                /\ UNCHANGED <<modal, known, shown, error, poll, asked, cookie>>

LaunchAnswered(s) ==
    /\ modal[s] = "open" /\ ~known[s] /\ ~error[s]
    /\ \/ /\ request[s] = "answered"
          /\ known' = [known EXCEPT ![s] = TRUE] /\ shown' = [shown EXCEPT ![s] = said[s]]
          /\ UNCHANGED error
       \/ /\ error' = [error EXCEPT ![s] = TRUE] /\ shown' = [shown EXCEPT ![s] = "FAILED"]
          /\ UNCHANGED known
    /\ UNCHANGED <<vars, modal, said, poll, asked, cookie>>

(* The interval polls while the status is not settled.  A session that is  *)
(* no longer listed answers 404, and a cookie that has lapsed 401: the     *)
(* dialog ignores both.                                                    *)
(* Fault: the polls stop with the first step the launch makes. *)
PollingAtFirst(s) == modal[s] = "open" /\ known[s] /\ shown[s] = "STARTING"
Polling(s) == modal[s] = "open" /\ known[s] /\ shown[s] \notin Settled

Poll(s, p) == /\ Polling(s) /\ poll[s][p] = Idle /\ s \in listed /\ cookie
              /\ poll' = [poll EXCEPT ![s][p] = status[s]]
              /\ UNCHANGED <<vars, modal, known, shown, error, said, asked, cookie>>

(* The answer is shown; a failed session brings its error. *)
PollAnswered(s, p) ==
    LET seen == poll[s][p]
    IN /\ seen # Idle
       /\ poll' = [poll EXCEPT ![s][p] = Idle]
       /\ shown' = [shown EXCEPT ![s] = seen]
       /\ error' = [error EXCEPT ![s] = @ \/ seen = "FAILED"]
       /\ UNCHANGED <<vars, modal, known, said, asked, cookie>>

(* The poll fails. *)
PollLost(s, p) == /\ poll[s][p] # Idle
                  /\ poll' = [poll EXCEPT ![s][p] = Idle]
                  /\ UNCHANGED <<vars, modal, known, shown, error, said, asked, cookie>>

-----------------------------------------------------------------------------
(* The dialog goes, its state with it; what it still awaits finds nothing. *)
Unmount(s) == /\ modal' = [modal EXCEPT ![s] = "gone"]
              /\ known' = [known EXCEPT ![s] = FALSE]
              /\ shown' = [shown EXCEPT ![s] = "STARTING"]
              /\ error' = [error EXCEPT ![s] = FALSE]
              /\ poll' = [poll EXCEPT ![s] = [p \in Polls |-> Idle]]

(* The error screen, and a dialog that does not know its session yet, just *)
(* close.  Leaving the page takes any dialog away.                         *)
Leave(s) == /\ modal[s] = "open" /\ Unmount(s)
            /\ UNCHANGED <<vars, said, asked, cookie>>

(* handleCloseSession(): the button reads "Done / Hide Modal" where the    *)
(* session is AUTHENTICATED and "Cancel & Close Browser" elsewhere, and    *)
(* does the same.  The dialog stays until the answer.                      *)
CloseSession(s, c) ==
    /\ modal[s] = "open" /\ known[s] /\ ~error[s]
    /\ asked[s][c] = "no"
    /\ asked' = [asked EXCEPT ![s][c] =
                    IF shown[s] = "AUTHENTICATED" THEN "hide" ELSE "cancel"]
    /\ UNCHANGED <<vars, modal, known, shown, error, said, poll, cookie>>

Served(ask) == IF ask = "hide" THEN "hidden" ELSE "cancelled"

CloseServed(s, c) == /\ asked[s][c] \in {"hide", "cancel"} /\ cookie
                     /\ asked' = [asked EXCEPT ![s][c] = Served(@)]
                     /\ \/ Close(c, s)
                        \/ s \notin listed /\ UNCHANGED vars
                     /\ UNCHANGED <<modal, known, shown, error, said, poll, cookie>>

(* The answer, or a failure at any time before, which is ignored. *)
CloseSessionAnswered(s, c) ==
    /\ asked[s][c] # "no"
    /\ asked' = [asked EXCEPT ![s][c] = "no"]
    /\ Unmount(s)
    /\ UNCHANGED <<vars, said, cookie>>

(* What happens to the session apart from the dialog. *)
Server == /\ \/ \E s \in Sessions :
                   \/ Runs(s) \/ BrowserQuits(s) \/ PageCloses(s) \/ Lapse(s)
                   \/ \E k \in Ticks : TickStarts(s, k) \/ TickGoesOn(s, k)
             \/ \E c \in Closers : Closes(c)
          /\ UNCHANGED modalVars

Dialog(s) == \/ Open(s) \/ Requested(s) \/ LaunchAnswered(s) \/ Leave(s)
             \/ \E p \in Polls : Poll(s, p) \/ PollAnswered(s, p) \/ PollLost(s, p)
             \/ \E c \in Closers :
                   CloseSession(s, c) \/ CloseServed(s, c) \/ CloseSessionAnswered(s, c)

MNext == Server \/ CookieChanges \/ \E s \in Sessions : Dialog(s)

MSpec == MInit /\ [][MNext]_allVars

(* The interval fires again and again while it may, and a poll that the    *)
(* server lets in does not fail for ever.  Nobody has to renew the cookie, *)
(* and a closing request may go unanswered.  The browser's side is as fair *)
(* as before.                                                              *)
MFairSpec == /\ MSpec /\ Fairness
             /\ \A s \in Sessions, p \in Polls :
                   WF_allVars(Poll(s, p)) /\ SF_allVars(PollAnswered(s, p))

-----------------------------------------------------------------------------
ModalTypeOK ==
    /\ modal \in [Sessions -> {"none", "open", "gone"}]
    /\ known \in [Sessions -> BOOLEAN] /\ error \in [Sessions -> BOOLEAN]
    /\ shown \in [Sessions -> Status] /\ said \in [Sessions -> Status]
    /\ poll \in [Sessions -> [Polls -> Status \cup {Idle}]]
    /\ asked \in [Sessions -> [Closers -> Asked]]
    /\ cookie \in BOOLEAN

(* The error screen leaves the session as it is: it may, for a session it  *)
(* knows has no browser but the one its error path is about to close.      *)
ErrorScreenIsSafe ==
    \A s \in Sessions : error[s] /\ known[s] => (browser[s] = "open" => run[s] = "catch")

(* A failure reaches the dialog that polls, whatever order its polls       *)
(* arrive in, unless its cookie lapses first.                              *)
FailureIsShown ==
    \A s \in Sessions : (modal[s] = "open" /\ known[s] /\ status[s] = "FAILED")
        ~> \/ modal[s] = "gone" \/ s \notin listed \/ ~cookie
           \/ shown[s] \in {"FAILED", "CLOSED"}

(* A dialog under a session that waits for its user, or that has expired,  *)
(* comes to show it while the cookie lasts, unless the session moves on,   *)
(* the dialog goes or it has already settled.  Nothing is said of a dialog *)
(* whose cookie has lapsed: it shows what it last heard.                   *)
ModalCatchesUp ==
    \A s \in Sessions, x \in {"CHALLENGE_REQUIRED", "EXPIRED"} :
        (modal[s] = "open" /\ known[s] /\ s \in listed /\ status[s] = x /\ cookie)
        ~> \/ shown[s] = x \/ shown[s] \in Settled
           \/ modal[s] = "gone" \/ s \notin listed \/ status[s] # x \/ ~cookie

(* "Cancel & Close Browser" closes the browser that the dialog has heard   *)
(* of, once the server has the request.                                    *)
CancelCloses ==
    \A s \in Sessions, c \in Closers :
        (asked[s][c] = "cancelled" /\ shown[s] \in {"AUTHENTICATING", "CHALLENGE_REQUIRED"})
        ~> browser[s] = "closed"

(* The claim of the panel above "Done / Hide Modal" ("You can continue     *)
(* using your session."): no request this button sends closes a browser.   *)
(* It is refuted (HideModal.cfg): the button does what the other does.     *)
HideLeavesBrowser ==
    [][\A s \in Sessions, c \in Closers :
           asked[s][c] = "hidden" /\ CloseAsked(c) => closer[c] # s]_allVars
=============================================================================
