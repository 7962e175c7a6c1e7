---------------------------- MODULE ConsoleStore ----------------------------
(***************************************************************************)
(* The web console's store (state/store.tsx) in one browser tab, with the  *)
(* screens App.tsx chooses by its phase.  Every operation of the store is  *)
(* an asynchronous flow: it changes the state, awaits an answer, and       *)
(* changes the state again, whatever the other flows have done meanwhile.  *)
(* Nothing is cancelled: a flow outlives the screen and the user it was    *)
(* begun for.  The server is external: a request is answered for the       *)
(* cookie it was sent with, or fails.                                      *)
(*                                                                         *)
(* Bounds: Slots is the number of flows in flight at once.  Polls, logins, *)
(* logouts and page loads are not bounded.                                 *)
(***************************************************************************)
EXTENDS Naturals, FiniteSets

CONSTANTS Users,     \* the people who sign in from this browser
          MfaUsers,  \* those of them who are asked for a second factor
          Lists,     \* the lists the console shows (users, collections, ...)
          Slots,     \* flows in flight at once
          Nobody     \* no user, no cookie, an empty list

ASSUME MfaUsersAreUsers == MfaUsers \subseteq Users
ASSUME NobodyIsNoUser == Nobody \notin Users

VARIABLES phase,        \* the screen
          user,         \* the signed-in user of the store
          mfaCtx,       \* the user whose second factor is awaited
          shown,        \* whose data each list holds
          loading,      \* the store's own spinner
          loadingList,  \* the spinner of each list
          flow,         \* the asynchronous flows
          jar,          \* the browser's access cookie
          initialised,  \* the server has a tenant
          late          \* history: an answer came after its user had gone

vars == <<phase, user, mfaCtx, shown, loading, loadingList, flow, jar, initialised, late>>
server == <<jar, initialised>>

Ops == {"check", "init", "login", "mfa", "logout", "refresh"}
Somebody == Users \cup {Nobody}

Forms == {"init", "login", "mfa"}

(* op: what was begun; at: the answer awaited; who: the user it was begun  *)
(* for, then the cookie its request carried; left: the lists still         *)
(* unanswered; fresh: the server had no tenant when it was asked; old: a   *)
(* user has come or gone since; here: its form is still on the screen.     *)
Flow == [op: Ops, who: Somebody, at: {"sent", "me", "lists"},
         left: SUBSET Lists, fresh: BOOLEAN, old: BOOLEAN, here: BOOLEAN]
Idle == [op |-> "idle"]

Running == {s \in Slots : flow[s] # Idle}
Begun(op, u) == [op |-> op, who |-> u, at |-> "sent", left |-> {}, old |-> FALSE,
                 fresh |-> op = "check" /\ ~initialised, here |-> op \in Forms]
Me(f, u) == [f EXCEPT !.at = "me", !.who = u, !.fresh = FALSE]
Refreshing(f, ls, u) == [f EXCEPT !.at = "lists", !.who = u, !.left = ls, !.old = FALSE, !.here = FALSE]
LoginShown == phase \in {"login", "mfa"}
Submitting == \E s \in Running : flow[s].here

Start == /\ phase = "login" /\ user = Nobody /\ mfaCtx = Nobody
         /\ shown = [l \in Lists |-> Nobody]
         /\ loading = FALSE /\ loadingList = [l \in Lists |-> FALSE]
         /\ late = FALSE

Init == /\ Start
        /\ initialised \in BOOLEAN
        /\ jar \in IF initialised THEN Somebody ELSE {Nobody}
        /\ \E s, t \in Slots : 
              /\ s # t
              /\ flow = [x \in Slots |-> IF x \in {s, t} THEN Begun("check", Nobody) ELSE Idle]

Screen(ph) == IF ph \in {"login", "mfa"} THEN "login" ELSE ph

(* Flow s goes on as f.  For the others a user may have come or gone, and  *)
(* a form may have been taken from the screen; a Login screen that appears *)
(* checks the set-up anew, in the slot of the flow that brought it.        *)
Goes(s, f, ph, u, cookie) ==
    LET moved == Screen(ph) # Screen(phase)
        Other(g) == IF g = Idle THEN g ELSE [g EXCEPT !.old = @ \/ u # user \/ cookie \notin {jar, Nobody},
                                                       !.here = @ /\ ~moved]
    IN /\ phase' = ph /\ user' = u /\ jar' = cookie
       /\ flow' = [x \in Slots |-> IF x # s THEN Other(flow[x])
                                   ELSE IF f = Idle /\ moved /\ Screen(ph) = "login"
                                   THEN Begun("check", Nobody) ELSE f]

(* The flow's finally: setLoading(false). *)
Finally(s) == loading' = (loading /\ flow[s].op \in {"refresh", "logout"})

(* setUser, setPhase('console'), and refreshAll() with the cookie held. *)
SignIn(s, u, cookie) ==
    /\ Goes(s, Refreshing(flow[s], Lists, cookie), "console", u, cookie)
    /\ loadingList' = [l \in Lists |-> TRUE]
    /\ late' = (late \/ flow[s].old)
    /\ UNCHANGED <<shown, loading>>

-----------------------------------------------------------------------------
(* What is begun: each takes a free slot.                                  *)

Begin(s, op, u) == /\ flow[s] = Idle
                   /\ flow' = [flow EXCEPT ![s] = Begun(op, u)]
                   /\ UNCHANGED <<phase, user, mfaCtx, shown, loadingList, server, late>>
Submit(s, op, u) == ~Submitting /\ ~loading /\ loading' = TRUE /\ Begin(s, op, u)

(* The forms of the Setup and Login screens. *)
Initialize(s, u) == phase = "setup" /\ Submit(s, "init", u)
Password(s, u) == LoginShown /\ mfaCtx = Nobody /\ Submit(s, "login", u)
Code(s) == LoginShown /\ mfaCtx # Nobody /\ Submit(s, "mfa", mfaCtx)

Logout(s) == phase = "console" /\ Begin(s, "logout", Nobody) /\ UNCHANGED loading

(* The thirty-second interval, and the screens that reload some lists. *)
Refreshes(s, ls) == /\ flow[s] = Idle
                    /\ flow' = [flow EXCEPT ![s] = Refreshing(Begun("refresh", Nobody), ls, jar)]
                    /\ loadingList' = [l \in Lists |-> loadingList[l] \/ l \in ls]
                    /\ UNCHANGED <<phase, user, mfaCtx, shown, loading, server, late>>
(* Fault: the interval is not cleared when the console is left. *)
PollAnywhere(s) == Refreshes(s, Lists)
Poll(s) == phase = "console" /\ Refreshes(s, Lists)
Reload(s, ls) == phase = "console" /\ ls # {} /\ Refreshes(s, ls)

(* The page is loaded again, by hand or by the way back from single        *)
(* sign-on, which leaves the cookie of whoever signed in there.            *)
PageLoad(cookie) ==
    /\ phase' = "login" /\ user' = Nobody /\ mfaCtx' = Nobody
    /\ shown' = [l \in Lists |-> Nobody] /\ loading' = FALSE
    /\ loadingList' = [l \in Lists |-> FALSE] /\ late' = FALSE
    /\ jar' = cookie
    /\ \E s, t \in Slots :
          /\ s # t
          /\ flow' = [x \in Slots |-> IF x \in {s, t} THEN Begun("check", Nobody) ELSE Idle]
    /\ UNCHANGED initialised
SingleSignOn(u) == LoginShown /\ mfaCtx = Nobody /\ ~Submitting /\ ~loading /\ initialised /\ PageLoad(u)

-----------------------------------------------------------------------------
(* What comes back, or fails.  A cookie the server sets is in the jar      *)
(* before the flow goes on.                                                *)

Awaits(s, op, at) == flow[s] # Idle /\ flow[s].op = op /\ flow[s].at = at

(* A form that fails.  The server sets the cookie before its last           *)
(* statements, so an error may bring the cookie all the same.               *)
Refused(s, cookie) ==
    /\ Goes(s, Idle, phase, user, cookie) /\ Finally(s)
    /\ late' = (late \/ (flow[s].old /\ cookie # jar))

(* GET /setup/check, answered at some time between then and now. *)
CheckAnswered(s) ==
    /\ Awaits(s, "check", "sent")
    /\ \/ /\ flow[s].fresh \/ ~initialised
          /\ Goes(s, Idle, "setup", user, jar) /\ Finally(s)
       \/ /\ initialised
          /\ Goes(s, Me(flow[s], jar), phase, user, jar) /\ UNCHANGED loading
       \/ Goes(s, Idle, "login", user, jar) /\ Finally(s)
    /\ late' = (late \/ (flow[s].old /\ phase' # phase))
    /\ UNCHANGED <<mfaCtx, shown, loadingList, initialised>>

CheckMeAnswered(s) ==
    /\ Awaits(s, "check", "me")
    /\ \/ flow[s].who # Nobody /\ SignIn(s, flow[s].who, jar)
       \/ /\ Goes(s, Idle, "login", user, jar) /\ Finally(s)
          /\ late' = (late \/ flow[s].old)
          /\ UNCHANGED <<shown, loadingList>>
    /\ UNCHANGED <<mfaCtx, initialised>>

(* POST /setup/initialize: the user comes with the answer, and the cookie. *)
(* It may fail with the tenant there, made by it or by another.            *)
InitAnswered(s) ==
    /\ Awaits(s, "init", "sent")
    /\ \/ ~initialised /\ initialised' = TRUE /\ SignIn(s, flow[s].who, flow[s].who)
       \/ /\ \/ Refused(s, jar) /\ initialised' \in {initialised, TRUE}
             \/ ~initialised /\ initialised' = TRUE /\ Refused(s, flow[s].who)
          /\ UNCHANGED <<shown, loadingList>>
    /\ UNCHANGED mfaCtx

(* POST /auth/login. *)
LoginAnswered(s) ==
    LET u == flow[s].who
    IN /\ Awaits(s, "login", "sent")
       /\ \/ /\ initialised /\ u \in MfaUsers /\ mfaCtx' = u
             /\ Goes(s, Idle, "mfa", user, jar) /\ Finally(s)
             /\ late' = (late \/ flow[s].old)
          \/ /\ initialised /\ u \notin MfaUsers
             /\ Goes(s, Me(flow[s], u), phase, user, u)
             /\ late' = (late \/ flow[s].old) /\ UNCHANGED <<mfaCtx, loading>>
          \/ /\ Refused(s, jar) \/ (initialised /\ u \notin MfaUsers /\ Refused(s, u))
             /\ UNCHANGED mfaCtx
       /\ UNCHANGED <<shown, loadingList, initialised>>

(* POST /auth/mfa. *)
MfaAnswered(s) ==
    /\ Awaits(s, "mfa", "sent")
    /\ \/ /\ Goes(s, Me(flow[s], flow[s].who), phase, user, flow[s].who)
          /\ late' = (late \/ flow[s].old) /\ UNCHANGED loading
       \/ \E cookie \in {jar, flow[s].who} : Refused(s, cookie)
    /\ UNCHANGED <<mfaCtx, shown, loadingList, initialised>>

(* GET /me after a sign-in. *)
MeAnswered(s) ==
    /\ Awaits(s, "login", "me") \/ Awaits(s, "mfa", "me")
    /\ \/ /\ SignIn(s, flow[s].who, jar)
          /\ mfaCtx' = IF flow[s].op = "mfa" THEN Nobody ELSE mfaCtx
       \/ /\ Goes(s, Idle, phase, user, jar) /\ Finally(s)
          /\ UNCHANGED <<mfaCtx, shown, loadingList, late>>
    /\ UNCHANGED initialised

(* Fault: the lists outlive the user. *)
LogoutKeepsLists(s) ==
    /\ Awaits(s, "logout", "sent")
    /\ \E cookie \in {jar, Nobody} : Goes(s, Idle, "login", Nobody, cookie)
    /\ UNCHANGED <<shown, mfaCtx, loading, loadingList, initialised, late>>
(* Fault: the console stays on the screen. *)
LogoutKeepsScreen(s) ==
    /\ Awaits(s, "logout", "sent")
    /\ \E cookie \in {jar, Nobody} : Goes(s, Idle, phase, Nobody, cookie)
    /\ shown' = [l \in Lists |-> Nobody]
    /\ UNCHANGED <<mfaCtx, loading, loadingList, initialised, late>>
(* POST /auth/logout: an error is ignored, and leaves the cookie. *)
LogoutAnswered(s) ==
    /\ Awaits(s, "logout", "sent")
    /\ \E cookie \in {jar, Nobody} : Goes(s, Idle, "login", Nobody, cookie)
    /\ shown' = [l \in Lists |-> Nobody]
    /\ UNCHANGED <<mfaCtx, loading, loadingList, initialised, late>>

(* Fault: a list that fails is left loading. *)
FailedListSpins(s, l) ==
    LET rest == flow[s].left \ {l}
    IN /\ flow[s] # Idle /\ flow[s].at = "lists" /\ l \in flow[s].left
       /\ \/ /\ flow[s].who # Nobody
             /\ shown' = [shown EXCEPT ![l] = flow[s].who]
             /\ late' = (late \/ flow[s].old)
             /\ loadingList' = [loadingList EXCEPT ![l] = FALSE]
          \/ UNCHANGED <<shown, late, loadingList>>
       /\ IF rest = {} THEN Goes(s, Idle, phase, user, jar) /\ Finally(s)
          ELSE Goes(s, [flow[s] EXCEPT !.left = rest], phase, user, jar) /\ UNCHANGED loading
       /\ UNCHANGED <<mfaCtx, initialised>>
(* One list of a refresh; the flow that awaits them all ends with the last.*)
ListAnswered(s, l) ==
    LET rest == flow[s].left \ {l}
    IN /\ flow[s] # Idle /\ flow[s].at = "lists" /\ l \in flow[s].left
       /\ \/ /\ flow[s].who # Nobody
             /\ shown' = [shown EXCEPT ![l] = flow[s].who]
             /\ late' = (late \/ flow[s].old)
          \/ UNCHANGED <<shown, late>>
       /\ loadingList' = [loadingList EXCEPT ![l] = FALSE]
       /\ IF rest = {} THEN Goes(s, Idle, phase, user, jar) /\ Finally(s)
          ELSE Goes(s, [flow[s] EXCEPT !.left = rest], phase, user, jar) /\ UNCHANGED loading
       /\ UNCHANGED <<mfaCtx, initialised>>

(* The access cookie lives five minutes, and nothing asks for another. *)
Expire == /\ jar # Nobody /\ jar' = Nobody
          /\ UNCHANGED <<phase, user, mfaCtx, shown, loading, loadingList, flow, initialised, late>>

Answered(s) == \/ CheckAnswered(s) \/ CheckMeAnswered(s) \/ InitAnswered(s) \/ LoginAnswered(s)
               \/ MfaAnswered(s) \/ MeAnswered(s) \/ LogoutAnswered(s)
               \/ \E l \in Lists : ListAnswered(s, l)
Acts(s) == \/ \E u \in Users : Initialize(s, u) \/ Password(s, u)
           \/ Code(s) \/ Logout(s) \/ Poll(s) \/ \E ls \in SUBSET Lists : Reload(s, ls)

Next == \/ \E s \in Slots : Acts(s) \/ Answered(s)
        \/ PageLoad(jar) \/ \E u \in Users : SingleSignOn(u)
        \/ Expire

Spec == Init /\ [][Next]_vars
(* A request is answered or fails.  The user is free to do nothing. *)
FairSpec == Spec /\ \A s \in Slots : WF_vars(Answered(s))

-----------------------------------------------------------------------------
TypeOK == /\ phase \in {"setup", "login", "mfa", "console"}
          /\ user \in Somebody /\ mfaCtx \in Somebody /\ jar \in Somebody
          /\ shown \in [Lists -> Somebody]
          /\ loading \in BOOLEAN /\ loadingList \in [Lists -> BOOLEAN]
          /\ flow \in [Slots -> Flow \cup {Idle}]
          /\ initialised \in BOOLEAN /\ late \in BOOLEAN

(* However the flows overlap, the console is on the screen only for a user *)
(* of the store, and the second factor is asked for only on a challenge.   *)
ScreensHaveTheirUser == /\ phase = "console" => user # Nobody
                        /\ phase = "mfa" => mfaCtx # Nobody

(* The store clears its lists when the user leaves, and nothing else keeps *)
(* one user's data from the next: as long as no answer arrives after its   *)
(* user has gone, the lists hold the signed-in user's data and nobody's    *)
(* without one, and there is a user exactly while the console is shown.    *)
OthersOnlyWhenLate == ~late => /\ \A l \in Lists : shown[l] \in {Nobody, user}
                               /\ (user # Nobody) <=> (phase = "console")

(* A spinner turns only while an answer that will stop it is awaited, on   *)
(* whichever path the flow before it ended.                                *)
SpinnersAreAwaited ==
    /\ loading => \E s \in Running : flow[s].op \in Forms
    /\ \A l \in Lists : loadingList[l] => \E s \in Running : flow[s].at = "lists" /\ l \in flow[s].left

(* The forms are never left disabled, and no list is left loading. *)
SpinnersEnd == /\ loading ~> ~loading
               /\ \A l \in Lists : loadingList[l] ~> ~loadingList[l]

(* A tab that stays out of the console stops asking for its data. *)
PollingStops == <>[](phase # "console") => <>[](\A s \in Running : flow[s].at # "lists")
=============================================================================
