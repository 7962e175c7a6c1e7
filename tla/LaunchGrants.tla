---------------------------- MODULE LaunchGrants ----------------------------
(***************************************************************************)
(* The capability path of backend/src/vault.ts: a launch grant is issued   *)
(* by policy, consumed at most once before it expires, and the secret it   *)
(* stands for is unsealed and handed to the gateway in between.            *)
(*                                                                         *)
(* Each HTTP request is a process inside one database transaction          *)
(* (withTenant).  What it writes is visible to the others when it commits; *)
(* calls of audit() commit on their own, at once.  A request may fail at   *)
(* any await, which rolls its transaction back and nothing else.  Beside   *)
(* the requests run the janitor of main.ts, whose sweep is one transaction *)
(* too, session termination and the deletion of credentials and            *)
(* applications.                                                           *)
(***************************************************************************)
EXTENDS Naturals, FiniteSets

CONSTANTS
    Users, Creds, Apps,
    Procs,            \* requests in flight
    Janitor,          \* runJanitor(), where it holds the lock of a row
    Grants, Sessions, \* row ids, each drawn once
    Opens,            \* credentials whose username blob unseals (vault.ts:146)
    GrantTTL, SessionTTL, Retention,  \* 30 s, 30 minutes, 1 hour
    MaxConcurrent,    \* policy.maxConcurrent
    MaxTime,          \* bound of the clock
    Faults,           \* the requests that may fail, and the janitor if sweeps may
    None

ASSUME GrantsAssumption ==
    /\ Opens \subseteq Creds
    /\ {GrantTTL, SessionTTL, Retention, MaxConcurrent, MaxTime} \subseteq Nat
    /\ Faults \subseteq Procs \cup {Janitor}
    /\ None \notin Users \cup Creds \cup Apps \cup Procs \cup Grants \cup Sessions
    /\ Janitor \notin Procs \cup {None}

VARIABLES
    now,
    deleted,    \* credentials with deleted_at set
    apps,       \* committed rows of applications
    grant,      \* committed rows of launch_grants
    gone,       \* grants that have been deleted
    delivered,  \* grants whose token has left the server
    lock,       \* lock[g]: the transaction that holds row g
    session,    \* committed rows of sessions
    audited,    \* audit events, <<type, resource>>
    performed,  \* performed[g]: calls of perform() for g, counted up to Many
    sweep,      \* the janitor's transaction
    pc, job     \* where each request stands, and its local state

vars == <<now, deleted, apps, grant, gone, delivered, lock, session, audited,
          performed, sweep, pc, job>>

-----------------------------------------------------------------------------
(* Rows, jobs and events *)

GrantRow == [user : Users, cred : Creds, app : Apps, expires : Nat, used : BOOLEAN]

(* The grant of a session is not a column: it is kept to state properties. *)
(* ended_at, which termination and expiry set, is not followed.            *)
SessionRow == [user : Users, cred : Creds, app : Apps, grant : Grants, expires : Nat,
               status : {"ACTIVE", "TERMINATED", "EXPIRED"}]

ASSUME RowsAssumption == None \notin GrantRow \cup SessionRow

Issuing == {"visible", "entitled", "capacity", "mint", "auditGrant", "commitGrant"}

(* A request holds its INSERT into launch_grants in these.                 *)
Pending == {"auditGrant", "commitGrant"}

(* A request holds its UPDATE of credentials in these, which locks the row.*)
Touched == {"auditLaunch", "auditUse", "auditSession", "commitSession"}

(* A request that consumes holds the row lock of its grant in these.       *)
Consuming == {"mark", "unseal", "perform", "record", "touch"} \cup Touched

Refusing == {"denyIssue", "denyConsume", "refuse"}

Phases == {"idle", "present"} \cup Issuing \cup Consuming \cup Refusing

Routes == {"launch", "sessions", "consume"}

(* Which resource an ACCESS_DENIED names is left out.                      *)
AccessDenied == <<"ACCESS_DENIED", None>>

Refusals == {AccessDenied} \cup ({"GRANT_REPLAY_BLOCKED"} \X Grants)

(* t0 is now() of the transaction, its start; marked is the uncommitted    *)
(* UPDATE of used_at; refusal is the event it is about to be refused with. *)
Job == [via : Routes \cup {None}, user : Users \cup {None},
        cred : Creds \cup {None}, app : Apps \cup {None},
        grant : Grants \cup {None}, session : Sessions \cup {None},
        t0 : Nat, marked : BOOLEAN, refusal : Refusals \cup {None}]

NewJob(route, u, c, a, g, t) ==
    [via |-> route, user |-> u, cred |-> c, app |-> a, grant |-> g,
     session |-> None, t0 |-> t, marked |-> FALSE, refusal |-> None]

NoJob == NewJob(None, None, None, None, None, 0)

(* t0 as above; todo are the rows its DELETE has found and not locked yet. *)
Sweep == [t0 : Nat, todo : SUBSET Grants]

ASSUME SweepAssumption == None \notin Sweep

Many == 2

LaunchTypes == {"APPLICATION_LAUNCHED", "CREDENTIAL_USED", "SESSION_STARTED"}

Events == ({"GRANT_ISSUED"} \X Grants) \cup (LaunchTypes \X Sessions) \cup Refusals

Busy(p) == pc[p] # "idle"

(* gen_random_uuid() never repeats: an id that a rolled back transaction   *)
(* drew, and only the audit log still names, is not drawn again.           *)
FreshGrants ==
    {g \in Grants : /\ <<"GRANT_ISSUED", g>> \notin audited
                    /\ \A p \in Procs : job[p].grant # g}

FreshSessions ==
    {s \in Sessions : /\ \A type \in LaunchTypes : <<type, s>> \notin audited
                      /\ \A p \in Procs : job[p].session # s}

ActiveSessions(u) ==
    {s \in Sessions : session[s] # None /\ session[s].user = u
                                        /\ session[s].status = "ACTIVE"}

Init ==
    /\ now = 0
    /\ deleted = {} /\ apps = Apps
    /\ grant = [g \in Grants |-> None]
    /\ gone = {} /\ delivered = {}
    /\ lock = [g \in Grants |-> None]
    /\ session = [s \in Sessions |-> None]
    /\ audited = {}
    /\ performed = [g \in Grants |-> 0]
    /\ sweep = None
    /\ pc = [p \in Procs |-> "idle"]
    /\ job = [p \in Procs |-> NoJob]

-----------------------------------------------------------------------------
(* Steps of a request *)

Goto(p, phase) == pc' = [pc EXCEPT ![p] = phase]

Globals == <<now, deleted, apps, gone, delivered, performed, sweep>>

Tables == <<grant, session, audited, lock>>

(* principal() has answered and withTenant has begun the transaction.      *)
Begin(p, phase, route, u, c, a, g) ==
    /\ pc[p] = "idle"
    /\ Goto(p, phase)
    /\ job' = [job EXCEPT ![p] = NewJob(route, u, c, a, g, now)]
    /\ UNCHANGED <<Globals, Tables>>

(* Fault: the connection goes back to the pool with its row lock.          *)
EndKeepingLock(p) ==
    /\ Goto(p, "idle")
    /\ job' = [job EXCEPT ![p] = NoJob]
    /\ UNCHANGED <<now, deleted, apps, gone, performed, sweep, lock>>

(* The request ends: its row lock is released, its local state forgotten.  *)
End(p) ==
    /\ Goto(p, "idle")
    /\ job' = [job EXCEPT ![p] = NoJob]
    /\ lock' = [g \in Grants |-> IF lock[g] = p THEN None ELSE lock[g]]
    /\ UNCHANGED <<now, deleted, apps, gone, performed, sweep>>

(* POST /credentials/:id/launch and POST /sessions.  The guard on          *)
(* FreshGrants only bounds the model.                                      *)
RequestIssue(p, u, c, a, route) ==
    /\ Cardinality({q \in Procs : pc[q] \in Issuing /\ job[q].grant = None})
         < Cardinality(FreshGrants)
    /\ route \in {"launch", "sessions"}
    /\ Begin(p, "visible", route, u, c, a, None)

TurnDown(p, phase, event) ==
    /\ Goto(p, phase)
    /\ job' = [job EXCEPT ![p].refusal = event]

(* 1. The credential is not deleted, the application is there, and the two *)
(* are linked, which the administration decides.                           *)
CheckVisible(p) ==
    /\ pc[p] = "visible"
    /\ \/ TurnDown(p, "denyIssue", AccessDenied)
       \/ /\ job[p].cred \notin deleted /\ job[p].app \in apps
          /\ Goto(p, "entitled") /\ UNCHANGED job
    /\ UNCHANGED <<Globals, Tables>>

(* 2-4. Permission, collection membership and access window, which other   *)
(* parts of the system grant and withdraw: either outcome is possible.     *)
CheckEntitled(p) ==
    /\ pc[p] = "entitled"
    /\ \/ TurnDown(p, "denyIssue", AccessDenied)
       \/ Goto(p, "capacity") /\ UNCHANGED job
    /\ UNCHANGED <<Globals, Tables>>

(* Fault: the refusal is audited in the transaction that it rolls back.    *)
DenyInside(p, phase) ==
    /\ pc[p] = phase
    /\ Goto(p, "refuse")
    /\ UNCHANGED <<Globals, Tables, job>>

(* The refusal is audited on a connection of its own ... *)
Deny(p, phase) ==
    /\ pc[p] = phase
    /\ audited' = audited \cup {job[p].refusal}
    /\ Goto(p, "refuse")
    /\ UNCHANGED <<Globals, grant, session, lock, job>>

(* ... and then thrown, which rolls the request back. *)
Refuse(p) ==
    /\ pc[p] = "refuse"
    /\ End(p)
    /\ UNCHANGED <<grant, session, audited, delivered>>

(* Checks 1-4 audit ACCESS_DENIED before they refuse. *)
DenyIssue(p) == Deny(p, "denyIssue")

AtLimit(u) == Cardinality(ActiveSessions(u)) >= MaxConcurrent

(* The client says whether its MFA is fresh; POST /sessions says it is.    *)
MayBeStale(p) == job[p].via = "launch"

(* 5. MFA step-up and the limit on active sessions refuse without audit.   *)
CheckCapacity(p) ==
    /\ pc[p] = "capacity"
    /\ \/ /\ MayBeStale(p) \/ AtLimit(job[p].user)
          /\ End(p)
          /\ UNCHANGED <<grant, session, audited, delivered>>
       \/ /\ ~AtLimit(job[p].user)
          /\ Goto(p, "mint")
          /\ UNCHANGED <<Globals, Tables, job>>

(* 6. INSERT INTO launch_grants, uncommitted, which keeps the application  *)
(* from being deleted until the commit ...                                 *)
Mint(p) ==
    /\ pc[p] = "mint"
    /\ job[p].app \in apps
    /\ \E g \in FreshGrants : job' = [job EXCEPT ![p].grant = g]
    /\ Goto(p, "auditGrant")
    /\ UNCHANGED <<Globals, Tables>>

(* ... and is refused by its foreign key if it has been deleted meanwhile. *)
MintInVain(p) ==
    /\ pc[p] = "mint"
    /\ job[p].app \notin apps
    /\ End(p)
    /\ UNCHANGED <<grant, session, audited, delivered>>

AuditGrant(p) ==
    /\ pc[p] = "auditGrant"
    /\ audited' = audited \cup {<<"GRANT_ISSUED", job[p].grant>>}
    /\ Goto(p, "commitGrant")
    /\ UNCHANGED <<Globals, grant, session, lock, job>>

MintedRow(p) == [user |-> job[p].user, cred |-> job[p].cred, app |-> job[p].app,
                 expires |-> job[p].t0 + GrantTTL, used |-> FALSE]

(* The transaction of issueLaunchGrant commits.  POST /sessions then       *)
(* inserts into columns that sessions does not have: its answer is a 500   *)
(* and the token of its grant goes nowhere.                                *)
CommitGrant(p) ==
    /\ pc[p] = "commitGrant"
    /\ grant' = [grant EXCEPT ![job[p].grant] = MintedRow(p)]
    /\ delivered' = IF job[p].via = "launch" THEN delivered \cup {job[p].grant}
                                             ELSE delivered
    /\ End(p)
    /\ UNCHANGED <<session, audited>>

-----------------------------------------------------------------------------
(* POST /launch/consume *)

(* Anybody who is logged in may present a token that has left the server.  *)
RequestConsume(p, u, g) ==
    /\ g \in delivered
    /\ Begin(p, "present", "consume", u, None, None, g)

RowFree(g) == lock[g] = None

Expired(g) == grant[g].expires < now

(* Fault: used_at is not looked at. *)
AcceptableAgain(p, g) == ~Expired(g) /\ grant[g].user = job[p].user

(* The checks of consumeGrant in their order; a row that passes is the     *)
(* caller's own, unused and unexpired.                                     *)
Acceptable(p, g) ==
    /\ ~grant[g].used
    /\ ~Expired(g)
    /\ grant[g].user = job[p].user

Refusal(g) == IF grant[g].used THEN <<"GRANT_REPLAY_BLOCKED", g>> ELSE AccessDenied

(* SELECT ... FOR UPDATE OF g waits for the row, then the checks run.  A   *)
(* row that has been deleted is an unknown token and locks nothing.        *)
Present(p) ==
    LET g == job[p].grant IN
    /\ pc[p] = "present"
    /\ \/ /\ grant[g] = None
          /\ TurnDown(p, "denyConsume", AccessDenied) /\ UNCHANGED lock
       \/ /\ grant[g] # None /\ RowFree(g)
          /\ lock' = [lock EXCEPT ![g] = p]
          /\ \/ /\ Acceptable(p, g)
                /\ Goto(p, "mark")
                /\ job' = [job EXCEPT ![p].cred = grant[g].cred, ![p].app = grant[g].app]
             \/ ~Acceptable(p, g) /\ TurnDown(p, "denyConsume", Refusal(g))
    /\ UNCHANGED <<Globals, grant, session, audited>>

(* deny() audits GRANT_REPLAY_BLOCKED or ACCESS_DENIED, then throws. *)
DenyConsume(p) == Deny(p, "denyConsume")

(* Fault: the UPDATE matches no row. *)
MarkUsedNowhere(p) ==
    /\ pc[p] = "mark"
    /\ Goto(p, "unseal")
    /\ UNCHANGED <<Globals, Tables, job>>

(* UPDATE launch_grants SET used_at = now(), uncommitted. *)
MarkUsed(p) ==
    /\ pc[p] = "mark"
    /\ job' = [job EXCEPT ![p].marked = TRUE]
    /\ Goto(p, "unseal")
    /\ UNCHANGED <<Globals, Tables>>

(* The username is unsealed with the first 12 bytes of the secret's tag;   *)
(* where that does not authenticate, consumeGrant throws without an audit  *)
(* event and the rollback clears used_at.                                  *)
Unseal(p) ==
    /\ pc[p] = "unseal"
    /\ \/ /\ job[p].cred \in Opens
          /\ Goto(p, "perform")
          /\ UNCHANGED <<Globals, Tables, job>>
       \/ /\ job[p].cred \notin Opens
          /\ End(p)
          /\ UNCHANGED <<grant, session, audited, delivered>>

(* perform() hands username and secret to the gateway: nothing undoes it.  *)
Perform(p) ==
    /\ pc[p] = "perform"
    /\ performed' = [performed EXCEPT ![job[p].grant] = IF @ < Many THEN @ + 1 ELSE @]
    /\ Goto(p, "record")
    /\ UNCHANGED <<now, deleted, apps, gone, delivered, sweep, Tables, job>>

(* INSERT INTO sessions, uncommitted.  The application is there: it goes   *)
(* with the grant, whose row this request holds.                           *)
RecordSession(p) ==
    /\ pc[p] = "record"
    /\ \E s \in FreshSessions : job' = [job EXCEPT ![p].session = s]
    /\ Goto(p, "touch")
    /\ UNCHANGED <<Globals, Tables>>

(* UPDATE credentials SET last_used_at waits for the row, which it holds   *)
(* until the commit.                                                       *)
CredentialFree(c) == \A p \in Procs : pc[p] \in Touched => job[p].cred # c

TouchCredential(p) ==
    /\ pc[p] = "touch"
    /\ CredentialFree(job[p].cred)
    /\ Goto(p, "auditLaunch")
    /\ UNCHANGED <<Globals, Tables, job>>

AuditStep(p, phase, type, next) ==
    /\ pc[p] = phase
    /\ audited' = audited \cup {<<type, job[p].session>>}
    /\ Goto(p, next)
    /\ UNCHANGED <<Globals, grant, session, lock, job>>

AuditConsume(p) ==
    \/ AuditStep(p, "auditLaunch", "APPLICATION_LAUNCHED", "auditUse")
    \/ AuditStep(p, "auditUse", "CREDENTIAL_USED", "auditSession")
    \/ AuditStep(p, "auditSession", "SESSION_STARTED", "commitSession")

NewSession(p) ==
    [user |-> job[p].user, cred |-> job[p].cred, app |-> job[p].app,
     grant |-> job[p].grant, expires |-> job[p].t0 + SessionTTL,
     status |-> "ACTIVE"]

CommitSession(p) ==
    /\ pc[p] = "commitSession"
    /\ grant' = [grant EXCEPT ![job[p].grant].used = job[p].marked]
    /\ session' = [session EXCEPT ![job[p].session] = NewSession(p)]
    /\ End(p)
    /\ UNCHANGED <<audited, delivered>>

(* An await of the request rejects, or its connection drops: ROLLBACK. *)
Fail(p) ==
    /\ p \in Faults /\ Busy(p)
    /\ End(p)
    /\ UNCHANGED <<grant, session, audited, delivered>>

-----------------------------------------------------------------------------
(* The rest of the system *)

Requests == <<pc, job>>

Tick ==
    /\ now < MaxTime
    /\ now' = now + 1
    /\ UNCHANGED <<deleted, apps, gone, delivered, performed, sweep, Tables, Requests>>

(* DELETE /credentials/:id sets deleted_at. *)
DeleteCredential(c) ==
    /\ c \notin deleted /\ CredentialFree(c)
    /\ deleted' = deleted \cup {c}
    /\ UNCHANGED <<now, apps, gone, delivered, performed, sweep, Tables, Requests>>

(* Rows of launch_grants are deleted, whatever has come of them.           *)
Remove(G) ==
    /\ grant' = [g \in Grants |-> IF g \in G THEN None ELSE grant[g]]
    /\ gone' = gone \cup G

OfApp(a) == {g \in Grants : grant[g] # None /\ grant[g].app = a}

(* DELETE /applications/:id takes the grants of the application with it,   *)
(* used or open.  It waits for their locks and for uncommitted INSERTs     *)
(* that refer to the application, and a session of it, of whatever status, *)
(* refuses it.  Where it and a consuming request wait for each other       *)
(* PostgreSQL ends one of them: Fail, or no deletion.                      *)
DeleteApplication(a) ==
    /\ a \in apps
    /\ \A g \in OfApp(a) : RowFree(g)
    /\ \A p \in Procs : pc[p] \in Pending => job[p].app # a
    /\ \A s \in Sessions : session[s] # None => session[s].app # a
    /\ apps' = apps \ {a}
    /\ Remove(OfApp(a))
    /\ UNCHANGED <<now, deleted, delivered, performed, sweep, session, audited, lock,
                   Requests>>

(* PATCH /sessions/:id/terminate, whatever the session's status. *)
Terminate(s) ==
    /\ session[s] # None
    /\ session' = [session EXCEPT ![s].status = "TERMINATED"]
    /\ UNCHANGED <<Globals, grant, audited, lock, Requests>>

-----------------------------------------------------------------------------
(* runJanitor(): one transaction deletes old grants and expires sessions.  *)
(* (It expires access requests as well, which are not in this module.)     *)

DoomedBy(g, t) == grant[g] # None /\ grant[g].expires + Retention < t

(* Fault: the status is not looked at. *)
LapsedAnyStatus(s, t) == session[s] # None /\ session[s].status # "EXPIRED"
                                          /\ session[s].expires < t

LapsedBy(s, t) == session[s] # None /\ session[s].status = "ACTIVE"
                                    /\ session[s].expires < t

Doomed(g) == DoomedBy(g, now)
Lapsed(s) == LapsedBy(s, now)

(* Its DELETE looks for its rows.  A sweep that finds nothing to do        *)
(* changes nothing and is left out.                                        *)
SweepBegins ==
    /\ sweep = None
    /\ (\E g \in Grants : Doomed(g)) \/ (\E s \in Sessions : Lapsed(s))
    /\ sweep' = [t0 |-> now, todo |-> {g \in Grants : Doomed(g)}]
    /\ UNCHANGED <<now, deleted, apps, gone, delivered, performed, Tables, Requests>>

(* It waits for the lock of each row in turn, and finds some deleted.      *)
SweepLocks(g) ==
    /\ sweep # None /\ g \in sweep.todo
    /\ sweep' = [sweep EXCEPT !.todo = @ \ {g}]
    /\ \/ grant[g] = None /\ UNCHANGED lock
       \/ /\ grant[g] # None /\ RowFree(g)
          /\ lock' = [lock EXCEPT ![g] = Janitor]
    /\ UNCHANGED <<now, deleted, apps, gone, delivered, performed, grant, session,
                   audited, Requests>>

Swept == {g \in Grants : lock[g] = Janitor}

SweepEnds ==
    /\ sweep' = None
    /\ lock' = [g \in Grants |-> IF lock[g] = Janitor THEN None ELSE lock[g]]

(* The UPDATE of sessions and the commit.                                  *)
SweepCommits ==
    /\ sweep # None /\ sweep.todo = {}
    /\ Remove(Swept)
    /\ session' = [s \in Sessions |->
           IF LapsedBy(s, sweep.t0) THEN [session[s] EXCEPT !.status = "EXPIRED"]
                                    ELSE session[s]]
    /\ SweepEnds
    /\ UNCHANGED <<now, deleted, apps, delivered, performed, audited, Requests>>

(* Fault: the connection goes back to the pool with its row locks.         *)
SweepFailsHolding ==
    /\ Janitor \in Faults /\ sweep # None
    /\ sweep' = None
    /\ UNCHANGED <<now, deleted, apps, gone, delivered, performed, Tables, Requests>>

(* A statement of the sweep fails: all of it is rolled back, and logged.   *)
SweepFails ==
    /\ Janitor \in Faults /\ sweep # None
    /\ SweepEnds
    /\ UNCHANGED <<now, deleted, apps, gone, delivered, performed, grant, session,
                   audited, Requests>>

Sweeps == SweepBegins \/ SweepCommits \/ SweepFails \/ \E g \in Grants : SweepLocks(g)

-----------------------------------------------------------------------------
Arrive(p) ==
    \/ \E u \in Users, c \in Creds, a \in Apps, route \in Routes :
           RequestIssue(p, u, c, a, route)
    \/ \E u \in Users, g \in Grants : RequestConsume(p, u, g)

Work(p) ==
    \/ CheckVisible(p) \/ CheckEntitled(p) \/ DenyIssue(p) \/ CheckCapacity(p)
    \/ Mint(p) \/ MintInVain(p) \/ AuditGrant(p) \/ CommitGrant(p)
    \/ Refuse(p) \/ DenyConsume(p) \/ MarkUsed(p) \/ Unseal(p) \/ Perform(p)
    \/ RecordSession(p) \/ AuditConsume(p) \/ CommitSession(p)

(* The steps that wait for a row. *)
Waits(p) == Present(p) \/ TouchCredential(p)

Next ==
    \/ \E p \in Procs : Arrive(p) \/ Waits(p) \/ Work(p) \/ Fail(p)
    \/ Tick
    \/ \E c \in Creds : DeleteCredential(c)
    \/ \E a \in Apps : DeleteApplication(a)
    \/ \E s \in Sessions : Terminate(s)
    \/ Sweeps

Spec == Init /\ [][Next]_vars

(* Statements complete, PostgreSQL serves the waiters of a row lock in     *)
(* turn, the janitor's timer keeps firing, and its sweeps do not fail for  *)
(* ever.                                                                   *)
Fairness ==
    /\ \A p \in Procs : WF_vars(Work(p)) /\ SF_vars(Waits(p))
    /\ WF_vars(Tick)
    /\ WF_vars(SweepBegins) /\ WF_vars(SweepCommits)
    /\ \A g \in Grants : SF_vars(SweepLocks(g))
    /\ <>[][~SweepFails]_vars

FairSpec == Spec /\ Fairness

-----------------------------------------------------------------------------
(* Properties *)

(* Every variable holds a value of its kind.                               *)
TypeOK ==
    /\ now \in Nat
    /\ deleted \subseteq Creds /\ apps \subseteq Apps
    /\ grant \in [Grants -> GrantRow \cup {None}]
    /\ gone \subseteq Grants
    /\ delivered \subseteq Grants
    /\ lock \in [Grants -> Procs \cup {Janitor, None}]
    /\ session \in [Sessions -> SessionRow \cup {None}]
    /\ audited \subseteq Events
    /\ performed \in [Grants -> 0 .. Many]
    /\ sweep \in Sweep \cup {None}
    /\ pc \in [Procs -> Phases]
    /\ job \in [Procs -> Job]

(* A grant backs at most one session, whoever presents its token, however  *)
(* often, at the same moment or again after a failed attempt.              *)
OneSessionPerGrant ==
    \A r, s \in Sessions :
        session[r] # None /\ session[s] # None /\ session[r].grant = session[s].grant
            => r = s

Spent(g) == \E s \in Sessions : session[s] # None /\ session[s].grant = g

(* A grant reads as used exactly when a session came of it: a failed       *)
(* attempt neither burns the grant nor leaves a session behind.            *)
UsedIffSession ==
    \A g \in Grants : grant[g] # None => (grant[g].used <=> Spent(g))

(* A session belongs to the user its grant was minted for, opens the       *)
(* credential and the application it was minted for, and began before the  *)
(* grant expired.                                                          *)
SessionWithinGrant ==
    \A s \in Sessions : session[s] # None =>
        LET g == session[s].grant IN
        grant[g] # None =>
            /\ session[s].user = grant[g].user
            /\ session[s].cred = grant[g].cred
            /\ session[s].app = grant[g].app
            /\ session[s].expires <= grant[g].expires + SessionTTL

(* The audit log names every grant that was ever valid, and the launch,    *)
(* the use and the start of every session, even after a crash.             *)
CommitsAudited ==
    /\ \A g \in Grants : grant[g] # None \/ g \in gone =>
           <<"GRANT_ISSUED", g>> \in audited
    /\ \A s \in Sessions : session[s] # None =>
           \A type \in LaunchTypes : <<type, s>> \in audited

(* A refusal that is audited (all but those of CheckCapacity and Unseal)   *)
(* is in the log before it rolls the request back.                         *)
RefusalsAudited == \A p \in Procs : pc[p] = "refuse" => job[p].refusal \in audited

(* What the log calls a replay was one: a session came of the grant.       *)
ReplaysReal ==
    \A g \in Grants : <<"GRANT_REPLAY_BLOCKED", g>> \in audited => Spent(g)

(* The audit log keeps up with what commits and with what is refused,      *)
(* though it commits apart from both.                                      *)
AuditTrail == CommitsAudited /\ RefusalsAudited /\ ReplaysReal

(* "secret NOT decrypted" (vault.ts:138): the secret behind a grant that   *)
(* reads as used, or that another request is consuming, is not handed out. *)
UsedNeverPerformed ==
    [][\A p \in Procs : Perform(p) =>
           LET g == job[p].grant IN
           /\ grant[g] # None /\ ~grant[g].used
           /\ \A q \in Procs \ {p} : pc[q] \in Consuming => job[q].grant # g]_vars

(* A terminated session stays terminated: neither a sweep that began       *)
(* before the termination nor a request gives it another status.  (A       *)
(* second termination does write the row, and its ended_at, anew.)         *)
TerminatedIsFinal ==
    [][\A s \in Sessions :
           session[s] # None /\ session[s].status = "TERMINATED" =>
               session'[s] # None /\ session'[s].status = "TERMINATED"]_vars

(* The requests, with their locks, failures and retries, the janitor and   *)
(* the deletion of applications implement offers that are good for one     *)
(* session: what is committed changes only as the promise says, and a      *)
(* secret is first handed out for an offer that is still there and not     *)
(* taken.                                                                  *)
OfferOf(g) == [grant |-> g, user |-> grant[g].user, cred |-> grant[g].cred,
               app |-> grant[g].app, expires |-> grant[g].expires]

Stored == {g \in Grants : grant[g] # None}

Promise == INSTANCE OneTimeGrants WITH
    offers <- {OfferOf(g) : g \in Stored},
    withdrawn <- gone,
    handed <- {g \in Grants : performed[g] > 0}

ImplementsPromise == Promise!PromiseSpec

(* Every request is answered, though others fight it for a row lock.       *)
RequestsEnd == \A p \in Procs : Busy(p) ~> ~Busy(p)

(* A session does not stay ACTIVE past its expiry.                         *)
LapsedSessionsEnd == \A s \in Sessions : Lapsed(s) ~> ~Lapsed(s)

(* A grant is deleted once its retention is over, though requests that     *)
(* replay its token keep taking its row lock and sweeps fail half-way.     *)
StaleGrantsGo == \A g \in Grants : Doomed(g) ~> g \in gone

-----------------------------------------------------------------------------
(* Claims of the documentation that the code does not keep *)

(* "A launch grant token can be consumed only once." (docs/security/       *)
(* invariants.md:268)                                                      *)
PerformedOnce == \A g \in Grants : performed[g] <= 1

(* The documented replay test expects 200 from the first consumption of a  *)
(* fresh grant by its owner (docs/security/invariants.md:313): no accepted *)
(* request ends where its username is unsealed.                            *)
FreshConsumeSucceeds == [][\A p \in Procs : Unseal(p) => Busy(p)']_vars
=============================================================================
