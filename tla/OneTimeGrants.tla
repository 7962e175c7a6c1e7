--------------------------- MODULE OneTimeGrants ---------------------------
(***************************************************************************)
(* What the capability path promises, without requests, transactions, row  *)
(* locks, audit or failures: an offer of one credential to one user, good  *)
(* for one session begun in time, and sessions that end once.              *)
(* LaunchGrants, the detailed specification of backend/src/vault.ts,       *)
(* implements it.                                                          *)
(*                                                                         *)
(* An offer stays for its retention, taken or not, unless its application  *)
(* goes: then its offers go with it, and no session was ever one of its.   *)
(*                                                                         *)
(* It does not promise that the secret is handed out once: an attempt that *)
(* fails after that leaves the offer open, to be taken again.              *)
(***************************************************************************)
EXTENDS Naturals

CONSTANTS
    Users, Creds, Apps, Grants, Sessions,
    GrantTTL, SessionTTL, Retention,
    None

VARIABLES
    now,
    apps,        \* applications that are there
    offers,      \* what is on offer, and what has been taken of it
    withdrawn,   \* grants whose offers are gone
    handed,      \* grants whose secret has been handed to the gateway
    session

promised == <<now, apps, offers, withdrawn, handed, session>>

Offer == [grant : Grants, user : Users, cred : Creds, app : Apps, expires : Nat]

Taken(g) == \E s \in Sessions : session[s] # None /\ session[s].grant = g

PromiseInit ==
    /\ now = 0 /\ apps = Apps
    /\ offers = {} /\ withdrawn = {} /\ handed = {}
    /\ session = [s \in Sessions |-> None]

(* A grant is offered once, for a time that runs from its request, at t.   *)
Extend(g, u, c, a, t) ==
    /\ \A o \in offers : o.grant # g
    /\ g \notin withdrawn /\ a \in apps /\ t <= now
    /\ offers' = offers \cup
           {[grant |-> g, user |-> u, cred |-> c, app |-> a, expires |-> t + GrantTTL]}
    /\ UNCHANGED <<now, apps, withdrawn, handed, session>>

(* Nothing is handed out for an offer that has been taken.                 *)
HandOut(o) ==
    /\ ~Taken(o.grant)
    /\ handed' = handed \cup {o.grant}
    /\ UNCHANGED <<now, apps, offers, withdrawn, session>>

(* Its one session follows, for the user, the credential and the           *)
(* application of the offer, asked for at t, in time.                      *)
Take(o, s, t) ==
    /\ ~Taken(o.grant) /\ o.grant \in handed
    /\ t <= now /\ t <= o.expires
    /\ session[s] = None
    /\ session' = [session EXCEPT ![s] =
           [user |-> o.user, cred |-> o.cred, app |-> o.app, grant |-> o.grant,
            expires |-> t + SessionTTL, status |-> "ACTIVE"]]
    /\ UNCHANGED <<now, apps, offers, withdrawn, handed>>

(* The offers O, of which each has been kept for its retention, go, and of *)
(* the active sessions those of S, which are past their time, expire.      *)
Clean(O, S) ==
    /\ \A o \in O : o.expires + Retention < now
    /\ \A s \in S : /\ session[s] # None /\ session[s].status = "ACTIVE"
                    /\ session[s].expires < now
    /\ offers' = offers \ O
    /\ withdrawn' = withdrawn \cup {o.grant : o \in O}
    /\ session' = [s \in Sessions |-> IF s \in S
                                      THEN [session[s] EXCEPT !.status = "EXPIRED"]
                                      ELSE session[s]]
    /\ UNCHANGED <<now, apps, handed>>

(* An application that never had a session goes, and its offers with it.   *)
Close(a) ==
    /\ a \in apps /\ \A s \in Sessions : session[s] # None => session[s].app # a
    /\ apps' = apps \ {a}
    /\ offers' = {o \in offers : o.app # a}
    /\ withdrawn' = withdrawn \cup {o.grant : o \in offers \ offers'}
    /\ UNCHANGED <<now, handed, session>>

(* A session is terminated, expired or not, and that is its end.           *)
Revoke(s) ==
    /\ session[s] # None
    /\ session' = [session EXCEPT ![s].status = "TERMINATED"]
    /\ UNCHANGED <<now, apps, offers, withdrawn, handed>>

Pass == now' = now + 1 /\ UNCHANGED <<apps, offers, withdrawn, handed, session>>

PromiseNext ==
    \/ Pass
    \/ \E g \in Grants, u \in Users, c \in Creds, a \in Apps, t \in 0 .. now :
           Extend(g, u, c, a, t)
    \/ \E o \in offers : \/ HandOut(o)
                         \/ \E s \in Sessions, t \in 0 .. now : Take(o, s, t)
    \/ \E s \in Sessions : Revoke(s)
    \/ \E O \in SUBSET offers, S \in SUBSET Sessions : Clean(O, S)
    \/ \E a \in Apps : Close(a)

PromiseSpec == PromiseInit /\ [][PromiseNext]_promised
=============================================================================
