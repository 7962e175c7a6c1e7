------------------------- MODULE LaunchGrantsProofs -------------------------
(***************************************************************************)
(* Proofs about LaunchGrants, for any number of users, credentials,        *)
(* requests, grants and sessions, any lifetimes and any failures.          *)
(***************************************************************************)
EXTENDS LaunchGrants, TLAPS

(* A request has a session in hand in these.                               *)
Recording == {"touch", "auditLaunch", "auditUse", "auditSession", "commitSession"}

Issued(g) == <<"GRANT_ISSUED", g>> \in audited

(* A request that issues knows its user and credential; the grant it has   *)
(* minted is nobody else's and not in any table.                           *)
IssueInv(p) ==
    /\ pc[p] \in Issuing => job[p].user \in Users /\ job[p].cred \in Creds
    /\ pc[p] \in Pending =>
           LET g == job[p].grant IN
           /\ g \in Grants /\ grant[g] = None /\ g \notin gone /\ g \notin delivered
           /\ \A q \in Procs \ {p} : job[q].grant # g
           /\ \A s \in Sessions : session[s] # None => session[s].grant # g
           /\ job[p].app \in apps
    /\ pc[p] = "commitGrant" => Issued(job[p].grant)

(* A request past its checks holds the row lock of an unused grant of its  *)
(* own that had not expired when its transaction began.                    *)
ConsumeInv(p) ==
    /\ job[p].via = "consume" /\ pc[p] # "idle" =>
           job[p].user \in Users /\ job[p].grant \in Grants
    /\ pc[p] \in {"present", "denyConsume"} \cup Consuming => job[p].via = "consume"
    /\ pc[p] \in Consuming =>
           LET g == job[p].grant IN
           /\ lock[g] = p
           /\ grant[g] # None /\ ~grant[g].used
           /\ grant[g].user = job[p].user /\ grant[g].cred = job[p].cred
           /\ grant[g].app = job[p].app
           /\ job[p].t0 <= grant[g].expires
    /\ pc[p] \in Consuming \ {"mark"} => job[p].marked

(* The session it has recorded is nobody else's and not in the table, and  *)
(* its audit events come one after the other.                              *)
RecordInv(p) ==
    /\ pc[p] \in Recording =>
           LET s == job[p].session IN
           /\ s \in Sessions /\ session[s] = None
           /\ \A q \in Procs \ {p} : job[q].session # s
    /\ pc[p] \in {"auditUse", "auditSession", "commitSession"} =>
           <<"APPLICATION_LAUNCHED", job[p].session>> \in audited
    /\ pc[p] \in {"auditSession", "commitSession"} =>
           <<"CREDENTIAL_USED", job[p].session>> \in audited
    /\ pc[p] = "commitSession" =>
           <<"SESSION_STARTED", job[p].session>> \in audited

(* A request that is refused knows why, rightly, and says so first.        *)
RefusalInv(p) ==
    pc[p] \in Refusing =>
        /\ job[p].refusal \in Refusals
        /\ \A g \in Grants : job[p].refusal = <<"GRANT_REPLAY_BLOCKED", g>> => Spent(g)
        /\ pc[p] = "refuse" => job[p].refusal \in audited

ProcInv(p) ==
    job[p].t0 <= now /\ IssueInv(p) /\ ConsumeInv(p) /\ RecordInv(p) /\ RefusalInv(p)

(* A token leaves the server, and a session begins, after GRANT_ISSUED.    *)
IssuedFirst ==
    /\ \A g \in delivered : Issued(g)
    /\ \A s \in Sessions : session[s] # None => Issued(session[s].grant)

TableInv ==
    /\ OneSessionPerGrant /\ UsedIffSession /\ SessionWithinGrant
    /\ CommitsAudited /\ ReplaysReal /\ IssuedFirst

Lost(g) == g \in gone /\ grant[g] = None

(* The janitor holds and looks for rows that were doomed when its          *)
(* transaction began; those it looks for may have gone since.              *)
SweepInv ==
    /\ sweep # None =>
           /\ sweep.t0 <= now
           /\ \A g \in sweep.todo : Lost(g) \/ DoomedBy(g, sweep.t0)
    /\ \A g \in Grants : lock[g] = Janitor => sweep # None /\ DoomedBy(g, sweep.t0)

(* The inductive invariant. *)
IInv == TypeOK /\ (\A p \in Procs : ProcInv(p)) /\ TableInv /\ SweepInv

-----------------------------------------------------------------------------
(* Types *)

(* Updates of one field of a job keep it a job.                            *)
LEMMA JobFields ==
    ASSUME NEW j \in Job
    PROVE  /\ \A g \in Grants : [j EXCEPT !.grant = g] \in Job
           /\ \A s \in Sessions : [j EXCEPT !.session = s] \in Job
           /\ \A c \in Creds : \A a \in Apps : [j EXCEPT !.cred = c, !.app = a] \in Job
           /\ \A e \in Refusals : [j EXCEPT !.refusal = e] \in Job
           /\ [j EXCEPT !.marked = TRUE] \in Job
<1>1. ASSUME NEW g \in Grants PROVE [j EXCEPT !.grant = g] \in Job BY SMT DEF Job
<1>2. ASSUME NEW s \in Sessions PROVE [j EXCEPT !.session = s] \in Job BY SMT DEF Job
<1>3. ASSUME NEW c \in Creds, NEW a \in Apps
      PROVE  [j EXCEPT !.cred = c, !.app = a] \in Job
  <2>1. [j EXCEPT !.cred = c] \in Job BY <1>3, SMT DEF Job
  <2>2. \A k \in Job : [k EXCEPT !.app = a] \in Job BY <1>3, SMT DEF Job
  <2>3. [j EXCEPT !.cred = c, !.app = a] = [[j EXCEPT !.cred = c] EXCEPT !.app = a]
    OBVIOUS
  <2> QED BY <2>1, <2>2, <2>3, Zenon
<1>4. ASSUME NEW b \in BOOLEAN PROVE [j EXCEPT !.marked = b] \in Job BY SMT DEF Job
<1>5. ASSUME NEW e \in Refusals PROVE [j EXCEPT !.refusal = e] \in Job BY SMT DEF Job
<1> QED BY <1>1, <1>2, <1>3, <1>4, <1>5

(* A new job is a job.                                                     *)
LEMMA NewJobType ==
    ASSUME NEW route \in Routes \cup {None}, NEW u \in Users \cup {None},
           NEW c \in Creds \cup {None}, NEW a \in Apps \cup {None},
           NEW g \in Grants \cup {None}, NEW t \in Nat
    PROVE  NewJob(route, u, c, a, g, t) \in Job
BY SMT DEF NewJob, Job

(* The job of an idle request is a job.                                    *)
LEMMA NoJobType == NoJob \in Job
BY NewJobType, SMT DEF NoJob

(* Releasing the row locks of a request.                                   *)
LEMMA EndType ==
    ASSUME TypeOK, NEW p \in Procs, End(p)
    PROVE  /\ now' = now /\ deleted' = deleted /\ apps' = apps /\ gone' = gone
           /\ performed' = performed /\ sweep' = sweep
           /\ lock' \in [Grants -> Procs \cup {Janitor, None}]
           /\ pc' \in [Procs -> Phases]
           /\ job' \in [Procs -> Job]
<1>1. lock' \in [Grants -> Procs \cup {Janitor, None}] BY Zenon DEF TypeOK, End
<1>2. pc' \in [Procs -> Phases] BY SMT DEF TypeOK, End, Goto, Phases, Refusing
<1>3. job' \in [Procs -> Job] BY NoJobType, Zenon DEF TypeOK, End
<1> QED BY <1>1, <1>2, <1>3, Zenon DEF End

(* Rows that are in a table are rows.                                      *)
LEMMA RowTypes ==
    ASSUME TypeOK
    PROVE  /\ \A g \in Grants : grant[g] # None => grant[g] \in GrantRow
           /\ \A s \in Sessions : session[s] # None => session[s] \in SessionRow
BY Zenon DEF TypeOK

(* Every action keeps every variable in its type.                          *)
LEMMA TypeStep == IInv /\ [Next]_vars => TypeOK'
<1> SUFFICES ASSUME IInv, [Next]_vars PROVE TypeOK' OBVIOUS
<1> USE GrantsAssumption
<1>t. TypeOK BY DEF IInv
<1>j. job \in [Procs -> Job] /\ pc \in [Procs -> Phases] BY <1>t DEF TypeOK
<1>g. ASSUME NEW p \in Procs, NEW phase \in Phases, Goto(p, phase)
      PROVE  pc' \in [Procs -> Phases]
  BY <1>j, <1>g, Zenon DEF Goto
<1>b. ASSUME NEW p \in Procs, NEW phase \in Phases, NEW route \in Routes,
             NEW u \in Users, NEW c \in Creds \cup {None}, NEW a \in Apps \cup {None},
             NEW g \in Grants \cup {None}, Begin(p, phase, route, u, c, a, g)
      PROVE  TypeOK'
  <2>1. pc' \in [Procs -> Phases] BY <1>g, <1>b DEF Begin
  <2>2. NewJob(route, u, c, a, g, now) \in Job
    BY <1>t, NewJobType, Zenon DEF TypeOK
  <2>3. job' \in [Procs -> Job] BY <1>b, <1>j, <2>2, Zenon DEF Begin
  <2> QED BY <1>t, <1>b, <2>1, <2>3, SMT DEF Begin, Globals, Tables, TypeOK
<1>1. ASSUME NEW p \in Procs, NEW u \in Users, NEW c \in Creds, NEW a \in Apps,
             NEW route \in Routes, RequestIssue(p, u, c, a, route)
      PROVE  TypeOK'
  <2>1. "visible" \in Phases BY DEF Phases, Refusing, Issuing
  <2> QED BY <1>1, <1>b, <2>1, Zenon DEF RequestIssue
<1>2. ASSUME NEW p \in Procs, NEW u \in Users, NEW g \in Grants,
             RequestConsume(p, u, g)
      PROVE  TypeOK'
  <2>1. "present" \in Phases /\ "consume" \in Routes BY DEF Phases, Refusing, Routes
  <2> QED BY <1>2, <1>b, <2>1, Zenon DEF RequestConsume
(* Steps that only move pc. *)
<1>m. ASSUME NEW p \in Procs, pc' \in [Procs -> Phases],
             UNCHANGED <<Globals, Tables, job>>
      PROVE  TypeOK'
  BY <1>t, <1>m, SMT DEF Globals, Tables, TypeOK
(* Steps that end without writing a table. *)
<1>e. ASSUME NEW p \in Procs, End(p),
             UNCHANGED <<grant, session, audited, delivered>>
      PROVE  TypeOK'
  BY <1>t, <1>e, EndType, SMT DEF TypeOK
<1>5. ASSUME NEW p \in Procs, MintInVain(p) \/ Refuse(p) \/ Fail(p) PROVE TypeOK'
  BY <1>5, <1>e, Zenon DEF MintInVain, Refuse, Fail
<1>6. ASSUME NEW p \in Procs, CheckCapacity(p) PROVE TypeOK'
  <2>1. "mint" \in Phases BY DEF Phases, Refusing, Issuing
  <2> QED BY <1>6, <1>e, <1>g, <1>m, <2>1, Zenon DEF CheckCapacity
<1>7. ASSUME NEW p \in Procs, Unseal(p) PROVE TypeOK'
  <2>1. "perform" \in Phases BY DEF Phases, Refusing, Consuming, Touched
  <2> QED BY <1>7, <1>e, <1>g, <1>m, <2>1, Zenon DEF Unseal
(* Steps that update the job of the request. *)
<1>u. ASSUME NEW p \in Procs, NEW j \in Job, job' = [job EXCEPT ![p] = j],
             pc' \in [Procs -> Phases], UNCHANGED <<Globals, Tables>>
      PROVE  TypeOK'
  <2>1. job' \in [Procs -> Job] BY <1>j, <1>u, Zenon
  <2> QED BY <1>t, <1>u, <2>1, SMT DEF Globals, Tables, TypeOK
(* Steps that turn the request down. *)
<1>d. ASSUME NEW p \in Procs, NEW phase \in Phases, NEW e \in Refusals,
             TurnDown(p, phase, e), UNCHANGED <<Globals, Tables>>
      PROVE  TypeOK'
  <2>1. [job[p] EXCEPT !.refusal = e] \in Job BY <1>j, JobFields, Zenon
  <2>2. pc' \in [Procs -> Phases] BY <1>d, <1>g DEF TurnDown
  <2>3. job' = [job EXCEPT ![p].refusal = e] BY <1>d DEF TurnDown
  <2> QED BY <1>d, <1>u, <2>1, <2>2, <2>3, Zenon
<1>r. AccessDenied \in Refusals BY DEF Refusals
<1>3. ASSUME NEW p \in Procs, CheckVisible(p) PROVE TypeOK'
  <2>1. {"denyIssue", "entitled"} \subseteq Phases BY DEF Phases, Issuing, Refusing
  <2> QED BY <1>3, <1>d, <1>g, <1>m, <1>r, <2>1, Zenon DEF CheckVisible
<1>4. ASSUME NEW p \in Procs, CheckEntitled(p) PROVE TypeOK'
  <2>1. {"denyIssue", "capacity"} \subseteq Phases BY DEF Phases, Issuing, Refusing
  <2> QED BY <1>4, <1>d, <1>g, <1>m, <1>r, <2>1, Zenon DEF CheckEntitled
<1>8. ASSUME NEW p \in Procs, Mint(p) PROVE TypeOK'
  <2>1. PICK g \in FreshGrants : job' = [job EXCEPT ![p].grant = g]
    BY <1>8 DEF Mint
  <2>2. [job[p] EXCEPT !.grant = g] \in Job
    BY <1>j, JobFields, Zenon DEF FreshGrants
  <2>3. "auditGrant" \in Phases BY DEF Phases, Refusing, Issuing
  <2>4. pc' \in [Procs -> Phases] BY <1>8, <1>g, <2>3 DEF Mint
  <2>5. UNCHANGED <<Globals, Tables>> BY <1>8 DEF Mint
  <2> QED BY <1>u, <2>1, <2>2, <2>4, <2>5, Zenon
<1>9. ASSUME NEW p \in Procs, MarkUsed(p) PROVE TypeOK'
  <2>1. [job[p] EXCEPT !.marked = TRUE] \in Job BY <1>j, JobFields, Zenon
  <2>2. "unseal" \in Phases BY DEF Phases, Refusing, Consuming, Touched
  <2>3. pc' \in [Procs -> Phases] BY <1>9, <1>g, <2>2 DEF MarkUsed
  <2>4. UNCHANGED <<Globals, Tables>> BY <1>9 DEF MarkUsed
  <2>5. job' = [job EXCEPT ![p].marked = TRUE] BY <1>9 DEF MarkUsed
  <2> QED BY <1>u, <2>1, <2>3, <2>4, <2>5, Zenon
<1>10. ASSUME NEW p \in Procs, RecordSession(p) PROVE TypeOK'
  <2>1. PICK s \in FreshSessions : job' = [job EXCEPT ![p].session = s]
    BY <1>10 DEF RecordSession
  <2>2. [job[p] EXCEPT !.session = s] \in Job
    BY <1>j, JobFields, Zenon DEF FreshSessions
  <2>3. "touch" \in Phases BY DEF Phases, Consuming
  <2>4. pc' \in [Procs -> Phases] BY <1>10, <1>g, <2>3 DEF RecordSession
  <2>5. UNCHANGED <<Globals, Tables>> BY <1>10 DEF RecordSession
  <2> QED BY <1>u, <2>1, <2>2, <2>4, <2>5, Zenon
(* Steps that audit. *)
<1>a. ASSUME NEW p \in Procs, NEW e \in Events, audited' = audited \cup {e},
             pc' \in [Procs -> Phases],
             UNCHANGED <<Globals, grant, session, lock, job>>
      PROVE  TypeOK'
  BY <1>t, <1>a, SMT DEF Globals, TypeOK
<1>24. ASSUME NEW p \in Procs, NEW phase \in {"denyIssue", "denyConsume"}, Deny(p, phase)
       PROVE  TypeOK'
  <2>1. pc[p] \in Refusing /\ "refuse" \in Phases BY <1>24, SMT DEF Deny, Refusing, Phases
  <2>2. job[p].refusal \in Events BY <2>1, Zenon DEF IInv, ProcInv, RefusalInv, Events
  <2>3. pc' \in [Procs -> Phases] BY <1>24, <1>g, <2>1 DEF Deny
  <2> QED BY <1>24, <1>a, <2>2, <2>3, Zenon DEF Deny
<1>25. ASSUME NEW p \in Procs, TouchCredential(p) PROVE TypeOK'
  <2>1. "auditLaunch" \in Phases BY DEF Phases, Consuming, Touched
  <2> QED BY <1>25, <1>g, <1>m, <2>1, Zenon DEF TouchCredential
<1>11. ASSUME NEW p \in Procs, AuditGrant(p) PROVE TypeOK'
  <2>1. job[p].grant \in Grants
    BY <1>11, SMT DEF AuditGrant, IInv, ProcInv, IssueInv, Pending
  <2>2. <<"GRANT_ISSUED", job[p].grant>> \in Events BY <2>1, Zenon DEF Events
  <2>3. "commitGrant" \in Phases BY DEF Phases, Refusing, Issuing
  <2>4. pc' \in [Procs -> Phases] BY <1>11, <1>g, <2>3 DEF AuditGrant
  <2> QED BY <1>11, <1>a, <2>2, <2>4, Zenon DEF AuditGrant
<1>12. ASSUME NEW p \in Procs, AuditConsume(p) PROVE TypeOK'
  <2>1. job[p].session \in Sessions
    <3>1. pc[p] \in Recording BY <1>12, SMT DEF AuditConsume, AuditStep, Recording
    <3> QED BY <3>1, Zenon DEF IInv, ProcInv, RecordInv
  <2>2. \A type \in LaunchTypes : <<type, job[p].session>> \in Events
    BY <2>1, Zenon DEF Events
  <2>3. {"auditUse", "auditSession", "commitSession"} \subseteq Phases
    BY DEF Phases, Refusing, Consuming, Touched
  <2>4. PICK type \in LaunchTypes, next \in Phases :
          /\ Goto(p, next)
          /\ audited' = audited \cup {<<type, job[p].session>>}
          /\ UNCHANGED <<Globals, grant, session, lock, job>>
    BY <1>12, <2>3, Zenon DEF AuditConsume, AuditStep, LaunchTypes
  <2>5. pc' \in [Procs -> Phases] BY <1>g, <2>4
  <2> QED BY <1>a, <2>2, <2>4, <2>5, Zenon
<1>13. ASSUME NEW p \in Procs, CommitGrant(p) PROVE TypeOK'
  <2>1. job[p].user \in Users /\ job[p].cred \in Creds /\ job[p].grant \in Grants
    BY <1>13, SMT DEF CommitGrant, IInv, ProcInv, IssueInv, Pending, Issuing
  <2>2. job[p].t0 \in Nat BY <1>j, SMT DEF Job
  <2>a. job[p].app \in Apps
    <3>1. pc[p] \in Pending BY <1>13, SMT DEF CommitGrant, Pending
    <3> QED BY <1>t, <3>1, Zenon DEF TypeOK, IInv, ProcInv, IssueInv
  <2>3. MintedRow(p) \in GrantRow BY <2>1, <2>2, <2>a, SMT DEF MintedRow, GrantRow
  <2>4. grant' \in [Grants -> GrantRow \cup {None}]
    BY <1>13, <1>t, <2>3, Zenon DEF CommitGrant, TypeOK
  <2>5. delivered' \subseteq Grants BY <1>13, <1>t, <2>1, Zenon DEF CommitGrant, TypeOK
  <2>6. End(p) /\ session' = session /\ audited' = audited BY <1>13 DEF CommitGrant
  <2> QED BY <1>t, <2>4, <2>5, <2>6, EndType, SMT DEF TypeOK
<1>14. ASSUME NEW p \in Procs, CommitSession(p) PROVE TypeOK'
  <2> DEFINE g == job[p].grant
  <2>1. /\ job[p].user \in Users /\ g \in Grants /\ job[p].session \in Sessions
        /\ grant[g] # None /\ job[p].cred = grant[g].cred
        /\ job[p].app = grant[g].app
    <3>1. pc[p] \in Consuming /\ pc[p] \in Recording /\ pc[p] # "idle"
          /\ pc[p] \in {"present", "denyConsume"} \cup Consuming
      BY <1>14, SMT DEF CommitSession, Consuming, Touched, Recording
    <3> QED BY <3>1, Zenon DEF IInv, ProcInv, ConsumeInv, RecordInv
  <2>2. grant[g] \in GrantRow BY <1>t, <2>1, RowTypes
  <2>3. job[p].cred \in Creds /\ job[p].app \in Apps BY <2>1, <2>2, SMT DEF GrantRow
  <2>4. job[p].t0 \in Nat /\ job[p].marked \in BOOLEAN BY <1>j, SMT DEF Job
  <2>5. NewSession(p) \in SessionRow
    BY <2>1, <2>3, <2>4, SMT DEF NewSession, SessionRow
  <2>6. [grant[g] EXCEPT !.used = job[p].marked] \in GrantRow
    BY <2>2, <2>4, SMT DEF GrantRow
  <2>7. grant' \in [Grants -> GrantRow \cup {None}]
    BY <1>14, <1>t, <2>6, Zenon DEF CommitSession, TypeOK
  <2>8. session' \in [Sessions -> SessionRow \cup {None}]
    BY <1>14, <1>t, <2>5, Zenon DEF CommitSession, TypeOK
  <2>9. End(p) /\ delivered' = delivered /\ audited' = audited BY <1>14 DEF CommitSession
  <2> QED BY <1>t, <2>7, <2>8, <2>9, EndType, SMT DEF TypeOK
<1>15. ASSUME NEW p \in Procs, Perform(p) PROVE TypeOK'
  <2>1. "record" \in Phases BY DEF Phases, Refusing, Consuming, Touched
  <2>2. pc' \in [Procs -> Phases] BY <1>15, <1>g, <2>1 DEF Perform
  <2>3. performed' \in [Grants -> 0 .. Many]
    <3>1. performed \in [Grants -> 0 .. Many] BY <1>t DEF TypeOK
    <3>2. \A n \in 0 .. Many : (IF n < Many THEN n + 1 ELSE n) \in 0 .. Many
      BY SMT DEF Many
    <3> QED BY <1>15, <3>1, <3>2, Zenon DEF Perform
  <2> QED BY <1>15, <1>t, <2>2, <2>3, SMT DEF Perform, Tables, TypeOK
<1>16. ASSUME NEW p \in Procs, Present(p) PROVE TypeOK'
  <2> DEFINE g == job[p].grant
  <2>1. g \in Grants
    BY <1>16, SMT DEF Present, IInv, ProcInv, ConsumeInv
  <2>2. {"mark", "denyConsume"} \subseteq Phases BY DEF Phases, Consuming, Refusing
  <2>3. AccessDenied \in Refusals /\ Refusal(g) \in Refusals
    BY <2>1, Zenon DEF Refusals, Refusal
  <2>4. CASE grant[g] = None
    <3>1. TurnDown(p, "denyConsume", AccessDenied) /\ UNCHANGED <<Globals, Tables>>
      BY <1>16, <2>4, Zenon DEF Present, Tables
    <3> QED BY <1>d, <2>2, <2>3, <3>1, Zenon
  <2>5. CASE grant[g] # None
    <3>1. grant[g].cred \in Creds /\ grant[g].app \in Apps
      BY <1>t, <2>1, <2>5, RowTypes, SMT DEF GrantRow
    <3>2. [job[p] EXCEPT !.cred = grant[g].cred, !.app = grant[g].app] \in Job
      BY <1>j, <3>1, JobFields, Zenon
    <3>3. [job[p] EXCEPT !.refusal = Refusal(g)] \in Job BY <1>j, <2>3, JobFields, Zenon
    <3>4. PICK j \in Job, phase \in Phases : Goto(p, phase) /\ job' = [job EXCEPT ![p] = j]
      <4>1. CASE Acceptable(p, g)
        <5>1. Goto(p, "mark") /\ job' = [job EXCEPT ![p] =
                 [job[p] EXCEPT !.cred = grant[g].cred, !.app = grant[g].app]]
          BY <1>16, <1>j, <2>5, <4>1 DEF Present
        <5> QED BY <2>2, <3>2, <5>1, Zenon
      <4>2. CASE ~Acceptable(p, g)
        <5>1. Goto(p, "denyConsume")
              /\ job' = [job EXCEPT ![p] = [job[p] EXCEPT !.refusal = Refusal(g)]]
          BY <1>16, <1>j, <2>5, <4>2 DEF Present, TurnDown
        <5> QED BY <2>2, <3>3, <5>1, Zenon
      <4> QED BY <4>1, <4>2
    <3>5. job' \in [Procs -> Job] BY <1>j, <3>4, Zenon
    <3>6. pc' \in [Procs -> Phases] BY <1>g, <3>4
    <3>7. lock' \in [Grants -> Procs \cup {Janitor, None}]
      BY <1>16, <1>t, <2>1, <2>5, Zenon DEF Present, TypeOK
    <3> QED BY <1>16, <1>t, <3>5, <3>6, <3>7, SMT DEF Present, Globals, TypeOK
  <2> QED BY <2>4, <2>5
<1>17. CASE Tick BY <1>t, <1>17, SMT DEF Tick, Tables, Requests, TypeOK
<1>18. ASSUME NEW c \in Creds, DeleteCredential(c) PROVE TypeOK'
  BY <1>t, <1>18, SMT DEF DeleteCredential, Tables, Requests, TypeOK
<1>19. ASSUME NEW s \in Sessions, Terminate(s) PROVE TypeOK'
  <2>1. [session[s] EXCEPT !.status = "TERMINATED"] \in SessionRow
    BY <1>19, <1>t, RowTypes, SMT DEF Terminate, SessionRow
  <2>2. session' \in [Sessions -> SessionRow \cup {None}]
    BY <1>19, <1>t, <2>1, Zenon DEF Terminate, TypeOK
  <2> QED BY <1>19, <1>t, <2>2, SMT DEF Terminate, Globals, Requests, TypeOK
<1>k. ASSUME NEW G \in SUBSET Grants, Remove(G)
      PROVE  grant' \in [Grants -> GrantRow \cup {None}] /\ gone' \subseteq Grants
  BY <1>t, <1>k, Zenon DEF Remove, TypeOK
<1>20. ASSUME NEW a \in Apps, DeleteApplication(a) PROVE TypeOK'
  <2>1. OfApp(a) \in SUBSET Grants BY DEF OfApp
  <2>2. grant' \in [Grants -> GrantRow \cup {None}] /\ gone' \subseteq Grants
    BY <1>20, <1>k, <2>1, Zenon DEF DeleteApplication
  <2>3. apps' \subseteq Apps BY <1>20, <1>t, Zenon DEF DeleteApplication, TypeOK
  <2> QED BY <1>20, <1>t, <2>2, <2>3, SMT DEF DeleteApplication, Requests, TypeOK
<1>l. ASSUME SweepEnds
      PROVE  sweep' \in Sweep \cup {None} /\ lock' \in [Grants -> Procs \cup {Janitor, None}]
  BY <1>t, <1>l, Zenon DEF SweepEnds, TypeOK
<1>21. CASE SweepCommits
  <2>1. ASSUME NEW s \in Sessions, LapsedBy(s, sweep.t0)
        PROVE  [session[s] EXCEPT !.status = "EXPIRED"] \in SessionRow
    BY <2>1, <1>t, RowTypes, SMT DEF LapsedBy, SessionRow
  <2>2. session' \in [Sessions -> SessionRow \cup {None}]
    BY <1>21, <1>t, <2>1, Zenon DEF SweepCommits, TypeOK
  <2>3. Swept \in SUBSET Grants BY DEF Swept
  <2>4. grant' \in [Grants -> GrantRow \cup {None}] /\ gone' \subseteq Grants
    BY <1>21, <1>k, <2>3, Zenon DEF SweepCommits
  <2>5. SweepEnds BY <1>21 DEF SweepCommits
  <2> QED BY <1>21, <1>t, <1>l, <2>2, <2>4, <2>5, SMT DEF SweepCommits, Requests, TypeOK
<1>26. CASE SweepFails
  <2>1. SweepEnds BY <1>26 DEF SweepFails
  <2> QED BY <1>26, <1>t, <1>l, <2>1, SMT DEF SweepFails, Requests, TypeOK
<1>27. CASE SweepBegins
  <2>1. [t0 |-> now, todo |-> {g \in Grants : Doomed(g)}] \in Sweep
    BY <1>t, SMT DEF TypeOK, Sweep
  <2>2. sweep' \in Sweep BY <1>27, <2>1 DEF SweepBegins
  <2> QED BY <1>27, <1>t, <2>2, SMT DEF SweepBegins, Tables, Requests, TypeOK
<1>28. ASSUME NEW g \in Grants, SweepLocks(g) PROVE TypeOK'
  <2>1. sweep \in Sweep BY <1>28, <1>t, Zenon DEF SweepLocks, TypeOK
  <2>2. sweep' \in Sweep BY <1>28, <2>1, SMT DEF SweepLocks, Sweep
  <2>3. lock' \in [Grants -> Procs \cup {Janitor, None}]
    BY <1>28, <1>t, Zenon DEF SweepLocks, TypeOK
  <2> QED BY <1>28, <1>t, <2>2, <2>3, SMT DEF SweepLocks, Requests, TypeOK
<1>22. CASE UNCHANGED vars BY <1>t, <1>22, SMT DEF vars, TypeOK
<1>23. ASSUME NEW p \in Procs, Arrive(p) \/ Waits(p) \/ Work(p) \/ Fail(p)
       PROVE  TypeOK'
  BY <1>23, <1>1, <1>2, <1>3, <1>4, <1>5, <1>6, <1>7, <1>8, <1>9, <1>10, <1>11,
     <1>12, <1>13, <1>14, <1>15, <1>16, <1>24, <1>25, Zenon
     DEF Arrive, Work, Waits, DenyIssue, DenyConsume
<1> QED BY <1>17, <1>18, <1>19, <1>20, <1>21, <1>22, <1>23, <1>26, <1>27, <1>28, Zenon
        DEF Next, Sweeps

-----------------------------------------------------------------------------
(* A request keeps its invariant through the steps of everybody else. *)

(* What a step of anybody but q must leave as it is for q.                 *)
Respects(q) ==
    /\ pc'[q] = pc[q] /\ job'[q] = job[q] /\ now <= now' /\ now' \in Nat
    /\ audited \subseteq audited' /\ (\A g \in Grants : Spent(g) => Spent(g)')
    /\ pc[q] \in Pending =>
           LET g == job[q].grant IN
           /\ job[q].app \in apps'
           /\ grant'[g] = None /\ g \notin gone' /\ g \notin delivered'
           /\ \A r \in Procs \ {q} : job'[r].grant # g
           /\ \A s \in Sessions : session'[s] # None => session'[s].grant # g
    /\ pc[q] \in Consuming =>
           lock'[job[q].grant] = q /\ grant'[job[q].grant] = grant[job[q].grant]
    /\ pc[q] \in Recording =>
           /\ session'[job[q].session] = None
           /\ \A r \in Procs \ {q} : job'[r].session # job[q].session

(* What respects q keeps the invariant of q.                               *)
LEMMA ProcKept ==
    ASSUME TypeOK, NEW q \in Procs, ProcInv(q), Respects(q)
    PROVE  ProcInv(q)'
<1>1. job'[q].t0 <= now'
  <2>1. job[q].t0 \in Nat /\ now \in Nat BY SMT DEF TypeOK, Job
  <2> QED BY <2>1, SMT DEF Respects, ProcInv
<1>2. IssueInv(q)'
  BY Zenon DEF Respects, ProcInv, IssueInv, Issued
<1>3. ConsumeInv(q)'
  BY Zenon DEF Respects, ProcInv, ConsumeInv
<1>4. RecordInv(q)'
  BY Zenon DEF Respects, ProcInv, RecordInv
<1>5. RefusalInv(q)'
  BY Zenon DEF Respects, ProcInv, RefusalInv
<1> QED BY <1>1, <1>2, <1>3, <1>4, <1>5, Zenon DEF ProcInv

(* Two requests never hold the same row lock, mint the same grant, consume *)
(* a grant that is being minted, or record the same session.               *)
LEMMA Distinct ==
    ASSUME IInv, NEW p \in Procs, NEW q \in Procs, p # q
    PROVE  /\ pc[q] \in Pending => job[p].grant # job[q].grant
           /\ pc[q] \in Recording => job[p].session # job[q].session
           /\ pc[p] \in Consuming /\ pc[q] \in Consuming =>
                  job[p].grant # job[q].grant
<1>i. ProcInv(p) /\ ProcInv(q) BY Zenon DEF IInv
<1>1. ASSUME pc[q] \in Pending PROVE job[p].grant # job[q].grant
  BY <1>i, <1>1, Zenon DEF ProcInv, IssueInv
<1>2. ASSUME pc[q] \in Recording PROVE job[p].session # job[q].session
  BY <1>i, <1>2, Zenon DEF ProcInv, RecordInv
<1>3. ASSUME pc[p] \in Consuming, pc[q] \in Consuming
      PROVE  job[p].grant # job[q].grant
  <2>1. lock[job[p].grant] = p BY <1>i, <1>3, Zenon DEF ProcInv, ConsumeInv
  <2>2. lock[job[q].grant] = q BY <1>i, <1>3, Zenon DEF ProcInv, ConsumeInv
  <2> QED BY <2>1, <2>2
<1> QED BY <1>1, <1>2, <1>3, Zenon

(* The grant of a request that consumes is a row it has locked.            *)
LEMMA Holds ==
    ASSUME NEW q \in Procs, ProcInv(q), pc[q] \in Consuming
    PROVE  /\ job[q].grant \in Grants /\ job[q].user \in Users
           /\ lock[job[q].grant] = q /\ grant[job[q].grant] # None
           /\ ~grant[job[q].grant].used
<1>1. job[q].via = "consume" BY Zenon DEF ProcInv, ConsumeInv
<1>2. pc[q] # "idle" BY SMT DEF Consuming, Touched
<1> QED BY <1>1, <1>2, Zenon DEF ProcInv, ConsumeInv

(* A step of p passes q by: it takes from q no row lock, and gives p no    *)
(* grant and no session that q has in hand.                                *)
Aside(p, q) ==
    /\ pc'[q] = pc[q]
    /\ job'[q] = job[q]
    /\ \A g \in Grants : lock[g] = q => lock'[g] = q
    /\ pc[q] \in Pending => job'[p].grant # job[q].grant
    /\ pc[q] \in Recording => job'[p].session # job[q].session

(* A step of p that leaves the tables alone and gives p no grant or        *)
(* session another request has in hand respects every other request.       *)
LEMMA QuietStep ==
    ASSUME IInv, NEW p \in Procs,
           now' = now, apps' = apps, audited \subseteq audited',
           gone' = gone, delivered' = delivered,
           grant' = grant, session' = session,
           \A q \in Procs \ {p} : Aside(p, q)
    PROVE  \A q \in Procs \ {p} : ProcInv(q)'
<1> SUFFICES ASSUME NEW q \in Procs \ {p} PROVE ProcInv(q)' OBVIOUS
<1>t. TypeOK BY DEF IInv
<1>i. ProcInv(q) BY Zenon DEF IInv
<1>1. now' \in Nat /\ now <= now'
  <2>1. now \in Nat BY <1>t DEF TypeOK
  <2> QED BY <2>1, SMT
<1>2. ASSUME pc[q] \in Pending
      PROVE  /\ grant'[job[q].grant] = None /\ job[q].grant \notin gone'
             /\ job[q].grant \notin delivered' /\ job[q].app \in apps'
             /\ \A r \in Procs \ {q} : job'[r].grant # job[q].grant
             /\ \A s \in Sessions : session'[s] # None => session'[s].grant # job[q].grant
  <2>1. ASSUME NEW r \in Procs \ {q} PROVE job'[r].grant # job[q].grant
    <3>1. CASE r = p BY <1>2, <3>1, Zenon DEF Aside
    <3>2. CASE r # p
      <4>1. job'[r] = job[r] BY <3>2, Zenon DEF Aside
      <4> QED BY <1>2, <1>i, <4>1, Zenon DEF ProcInv, IssueInv
    <3> QED BY <3>1, <3>2
  <2>2. /\ grant[job[q].grant] = None /\ job[q].grant \notin gone
        /\ job[q].grant \notin delivered /\ job[q].app \in apps
        /\ \A s \in Sessions : session[s] # None => session[s].grant # job[q].grant
    BY <1>2, <1>i, Zenon DEF ProcInv, IssueInv
  <2> QED BY <2>1, <2>2, Zenon
<1>3. ASSUME pc[q] \in Consuming
      PROVE  lock'[job[q].grant] = q /\ grant'[job[q].grant] = grant[job[q].grant]
  BY <1>3, <1>i, Holds, ZenonT(40) DEF Aside
<1>4. ASSUME pc[q] \in Recording
      PROVE  /\ session'[job[q].session] = None
             /\ \A r \in Procs \ {q} : job'[r].session # job[q].session
  <2>1. ASSUME NEW r \in Procs \ {q} PROVE job'[r].session # job[q].session
    <3>1. CASE r = p BY <1>4, <3>1, Zenon DEF Aside
    <3>2. CASE r # p
      <4>1. job'[r] = job[r] BY <3>2, Zenon DEF Aside
      <4> QED BY <1>4, <1>i, <4>1, Zenon DEF ProcInv, RecordInv
    <3> QED BY <3>1, <3>2
  <2>2. session[job[q].session] = None
    BY <1>4, <1>i, Zenon DEF ProcInv, RecordInv
  <2> QED BY <2>1, <2>2, Zenon
<1>5. pc'[q] = pc[q] /\ job'[q] = job[q] BY Zenon DEF Aside
<1>6. \A g \in Grants : Spent(g) => Spent(g)' BY Zenon DEF Spent
<1>7. Respects(q) BY <1>1, <1>2, <1>3, <1>4, <1>5, <1>6, Zenon DEF Respects
<1> QED BY <1>t, <1>i, <1>7, ProcKept, Zenon

-----------------------------------------------------------------------------
(* Steps that leave the tables alone *)

Core == (\A q \in Procs : ProcInv(q)) /\ TableInv

(* A replay is logged of a grant that has been used.                       *)
Vouched ==
    \A g \in Grants : <<"GRANT_REPLAY_BLOCKED", g>> \in audited' =>
        <<"GRANT_REPLAY_BLOCKED", g>> \in audited \/ Spent(g)

(* Nothing that TableInv speaks of changes but the log, which grows.       *)
LEMMA QuietTables ==
    ASSUME TableInv, audited \subseteq audited', Vouched, gone' = gone,
           delivered' = delivered, grant' = grant, session' = session
    PROVE  TableInv'
<1>0. \A g \in Grants : Spent(g)' <=> Spent(g) BY Zenon DEF Spent
<1>1. OneSessionPerGrant' BY Zenon DEF TableInv, OneSessionPerGrant
<1>2. UsedIffSession' BY <1>0, Zenon DEF TableInv, UsedIffSession
<1>3. SessionWithinGrant' BY Zenon DEF TableInv, SessionWithinGrant
<1>4. CommitsAudited' BY Zenon DEF TableInv, CommitsAudited
<1>5. ReplaysReal' BY <1>0, Zenon DEF TableInv, ReplaysReal, Vouched
<1>6. IssuedFirst' BY Zenon DEF TableInv, IssuedFirst, Issued
<1> QED BY <1>1, <1>2, <1>3, <1>4, <1>5, <1>6, Zenon DEF TableInv

(* A quiet step of p keeps everything if it keeps p's own invariant.       *)
LEMMA QuietCore ==
    ASSUME IInv, NEW p \in Procs,
           now' = now, apps' = apps, audited \subseteq audited', Vouched,
           gone' = gone, delivered' = delivered,
           grant' = grant, session' = session,
           \A q \in Procs \ {p} : Aside(p, q),
           ProcInv(p)'
    PROVE  Core'
<1>1. \A q \in Procs \ {p} : ProcInv(q)' BY QuietStep, Zenon
<1>2. TableInv' BY QuietTables, Zenon DEF IInv
<1> QED BY <1>1, <1>2, Zenon DEF Core

(* A request that is idle has nothing to keep.                             *)
LEMMA IdleProc ==
    ASSUME NEW p \in Procs, pc'[p] = "idle", job'[p].t0 <= now'
    PROVE  ProcInv(p)'
<1>1. IssueInv(p)' BY SMT DEF IssueInv, Issuing, Pending
<1>2. ConsumeInv(p)' BY SMT DEF ConsumeInv, Consuming, Touched
<1>3. RecordInv(p)' BY SMT DEF RecordInv, Recording
<1>4. RefusalInv(p)' BY SMT DEF RefusalInv, Refusing
<1> QED BY <1>1, <1>2, <1>3, <1>4, Zenon DEF ProcInv

(* What End does to the request itself and to the others.                  *)
LEMMA EndFacts ==
    ASSUME IInv, NEW p \in Procs, End(p)
    PROVE  /\ pc'[p] = "idle" /\ job'[p] = NoJob /\ now' \in Nat
           /\ \A q \in Procs \ {p} : Aside(p, q)
           /\ ProcInv(p)'
<1>t. TypeOK BY DEF IInv
<1>1. pc'[p] = "idle" /\ job'[p] = NoJob
  BY <1>t, Zenon DEF TypeOK, End, Goto
<1>2. now' \in Nat /\ now' = now BY <1>t, Zenon DEF TypeOK, End
<1>3. NoJob.t0 = 0 /\ NoJob.grant = None /\ NoJob.session = None
  BY SMT DEF NoJob, NewJob
<1>4. ASSUME NEW q \in Procs \ {p} PROVE Aside(p, q)
  <2>1. pc'[q] = pc[q] /\ job'[q] = job[q] BY <1>t, Zenon DEF TypeOK, End, Goto
  <2>2. \A g \in Grants : lock[g] = q => lock'[g] = q BY Zenon DEF End
  <2>3. pc[q] \in Pending => job[q].grant \in Grants
    BY Zenon DEF IInv, ProcInv, IssueInv
  <2>4. pc[q] \in Recording => job[q].session \in Sessions
    BY Zenon DEF IInv, ProcInv, RecordInv
  <2>5. None \notin Grants /\ None \notin Sessions BY Zenon, GrantsAssumption
  <2> QED BY <1>1, <1>3, <2>1, <2>2, <2>3, <2>4, <2>5, Zenon DEF Aside
<1>5. ProcInv(p)'
  <2>1. job'[p].t0 <= now' BY <1>1, <1>2, <1>3, SMT
  <2> QED BY <1>1, <2>1, IdleProc, Zenon
<1> QED BY <1>1, <1>2, <1>4, <1>5, Zenon

(* A request that ends with nothing to commit.                             *)
LEMMA EndStep ==
    ASSUME IInv, NEW p \in Procs, End(p),
           UNCHANGED <<grant, session, audited, delivered>>
    PROVE  Core'
<1>1. now' = now /\ apps' = apps /\ gone' = gone BY Zenon DEF End
<1>2. grant' = grant /\ session' = session /\ audited' = audited
      /\ delivered' = delivered
  OBVIOUS
<1>3. audited \subseteq audited' /\ Vouched BY <1>2, Zenon DEF Vouched
<1> QED BY <1>1, <1>2, <1>3, EndFacts, QuietCore, Zenon

(* A step of p that moves pc and perhaps audits, its job the same.         *)
LEMMA MoveStep ==
    ASSUME IInv, NEW p \in Procs, NEW phase \in Phases, Goto(p, phase),
           UNCHANGED <<now, deleted, apps, gone, delivered, grant, session, lock, job>>,
           audited \subseteq audited', Vouched,
           ProcInv(p)'
    PROVE  Core'
<1>1. ASSUME NEW q \in Procs \ {p} PROVE Aside(p, q)
  <2>1. pc'[q] = pc[q] BY Zenon DEF IInv, TypeOK, Goto
  <2>2. job' = job /\ lock' = lock OBVIOUS
  <2> QED BY <2>1, <2>2, Distinct, Zenon DEF Aside
<1>2. now' = now /\ apps' = apps /\ gone' = gone /\ delivered' = delivered
      /\ grant' = grant /\ session' = session
  OBVIOUS
<1> QED BY <1>1, <1>2, QuietCore, Zenon

(* A step of p that replaces its job.                                      *)
LEMMA JobStep ==
    ASSUME IInv, NEW p \in Procs, NEW phase \in Phases, NEW j, Goto(p, phase),
           job' = [job EXCEPT ![p] = j],
           UNCHANGED <<now, deleted, apps, gone, delivered, grant, session, audited, lock>>,
           \A q \in Procs \ {p} : /\ pc[q] \in Pending => j.grant # job[q].grant
                                  /\ pc[q] \in Recording => j.session # job[q].session,
           ProcInv(p)'
    PROVE  Core'
<1>1. ASSUME NEW q \in Procs \ {p} PROVE Aside(p, q)
  <2>1. pc'[q] = pc[q] /\ job'[q] = job[q] /\ job'[p] = j
    BY Zenon DEF IInv, TypeOK, Goto
  <2>2. lock' = lock OBVIOUS
  <2> QED BY <2>1, <2>2, Zenon DEF Aside
<1>2. now' = now /\ apps' = apps /\ gone' = gone /\ delivered' = delivered
      /\ grant' = grant /\ session' = session /\ audited' = audited
  OBVIOUS
<1>3. audited \subseteq audited' /\ Vouched BY <1>2, Zenon DEF Vouched
<1> QED BY <1>1, <1>2, <1>3, QuietCore, Zenon

-----------------------------------------------------------------------------
(* The steps of a request that issues *)

(* A request that begins holds no row and has nothing in hand.             *)
LEMMA BeginStep ==
    ASSUME IInv, NEW p \in Procs, NEW phase \in {"visible", "present"},
           NEW route \in Routes, NEW u \in Users, NEW c \in Creds \cup {None}, NEW a,
           NEW g \in Grants \cup {None}, Begin(p, phase, route, u, c, a, g),
           phase = "visible" => c \in Creds,
           phase = "present" => g \in Grants /\ g \in delivered /\ route = "consume",
           route = "consume" => g \in Grants,
           phase = "visible" => g = None
    PROVE  Core'
<1> DEFINE j == NewJob(route, u, c, a, g, now)
<1>t. TypeOK BY DEF IInv
<1>1. pc'[p] = phase /\ job'[p] = j /\ job' = [job EXCEPT ![p] = j]
  BY <1>t, Zenon DEF Begin, Goto, TypeOK
<1>2. /\ j.via = route /\ j.user = u /\ j.cred = c /\ j.grant = g
      /\ j.session = None /\ j.t0 = now /\ j.marked = FALSE
  BY SMT DEF NewJob
<1>3. now' = now /\ now \in Nat BY <1>t, Zenon DEF Begin, Globals, TypeOK
<1> HIDE DEF j
<1>4. ASSUME NEW q \in Procs \ {p}
      PROVE  /\ pc[q] \in Pending => j.grant # job[q].grant
             /\ pc[q] \in Recording => j.session # job[q].session
  <2>i. ProcInv(q) BY Zenon DEF IInv
  <2>1. pc[q] \in Pending => job[q].grant \in Grants /\ job[q].grant \notin delivered
    BY <2>i, Zenon DEF ProcInv, IssueInv
  <2>2. pc[q] \in Recording => job[q].session \in Sessions
    BY <2>i, Zenon DEF ProcInv, RecordInv
  <2>3. None \notin Grants /\ None \notin Sessions BY Zenon, GrantsAssumption
  <2>4. g = None \/ g \in delivered OBVIOUS
  <2> QED BY <1>2, <2>1, <2>2, <2>3, <2>4, Zenon
<1>5. ProcInv(p)'
  <2>1. job'[p].t0 <= now' BY <1>1, <1>2, <1>3, SMT
  <2>2. IssueInv(p)' BY <1>1, <1>2, SMT DEF IssueInv, Issuing, Pending
  <2>3. ConsumeInv(p)' BY <1>1, <1>2, SMT DEF ConsumeInv, Consuming, Touched
  <2>4. RecordInv(p)' BY <1>1, SMT DEF RecordInv, Recording
  <2>5. RefusalInv(p)' BY <1>1, SMT DEF RefusalInv, Refusing
  <2> QED BY <2>1, <2>2, <2>3, <2>4, <2>5, Zenon DEF ProcInv
<1>6. phase \in Phases BY SMT DEF Phases, Refusing, Issuing
<1>7. Goto(p, phase) /\ UNCHANGED <<now, deleted, apps, gone, delivered, grant, session,
                                    audited, lock>>
  BY Zenon DEF Begin, Globals, Tables
<1> QED BY <1>1, <1>4, <1>5, <1>6, <1>7, JobStep, ZenonT(40)

(* A request that neither mints nor consumes has only its caller to keep.  *)
LEMMA EarlyProc ==
    ASSUME IInv, NEW p \in Procs, now' = now, job' = job,
           pc[p] \in Issuing,
           pc'[p] \in {"entitled", "capacity", "mint"}
    PROVE  ProcInv(p)'
<1>i. ProcInv(p) BY Zenon DEF IInv
<1>1. job'[p].t0 <= now' BY <1>i, Zenon DEF ProcInv
<1>2. IssueInv(p)' BY <1>i, SMT DEF ProcInv, IssueInv, Issuing, Pending
<1>3. ConsumeInv(p)'
  <2>1. pc[p] # "idle" BY SMT DEF Issuing
  <2>2. pc'[p] \notin {"present", "denyConsume"} \cup Consuming BY SMT DEF Consuming, Touched
  <2>3. pc'[p] \notin Consuming BY <2>2
  <2> QED BY <1>i, <2>1, <2>2, <2>3, Zenon DEF ProcInv, ConsumeInv
<1>4. RecordInv(p)' BY SMT DEF RecordInv, Recording
<1>5. RefusalInv(p)' BY SMT DEF RefusalInv, Refusing
<1> QED BY <1>1, <1>2, <1>3, <1>4, <1>5, Zenon DEF ProcInv

(* The checks before the mint move the request on.                         *)
LEMMA EarlyStep ==
    ASSUME IInv, NEW p \in Procs,
           NEW phase \in {"entitled", "capacity", "mint"},
           pc[p] \in Issuing, Goto(p, phase), UNCHANGED <<Globals, Tables, job>>
    PROVE  Core'
<1>1. phase \in Phases BY SMT DEF Phases, Refusing, Issuing
<1>2. UNCHANGED <<now, deleted, apps, gone, delivered, grant, session, lock, job>>
      /\ audited' = audited
  BY Zenon DEF Globals, Tables
<1>3. pc'[p] = phase BY <1>1, Zenon DEF IInv, TypeOK, Goto
<1>4. now' = now /\ job' = job BY <1>2, Zenon
<1>5. ProcInv(p)' BY <1>3, <1>4, EarlyProc, Zenon
<1>6. audited \subseteq audited' /\ Vouched BY <1>2, Zenon DEF Vouched
<1> QED BY <1>1, <1>2, <1>5, <1>6, MoveStep, Zenon

(* A request that is turned down knows why.                                *)
LEMMA TurnedDown ==
    ASSUME IInv, NEW p \in Procs, NEW phase \in {"denyIssue", "denyConsume"},
           NEW e \in Refusals, pc'[p] = phase, job'[p] = [job[p] EXCEPT !.refusal = e],
           pc[p] # "idle", phase = "denyConsume" => job[p].via = "consume",
           now' = now, session' = session,
           \A g \in Grants : e = <<"GRANT_REPLAY_BLOCKED", g>> => Spent(g)
    PROVE  ProcInv(p)'
<1>t. ProcInv(p) /\ job[p] \in Job BY Zenon DEF IInv, TypeOK
<1> DEFINE j == [job[p] EXCEPT !.refusal = e]
<1>1. /\ j.refusal = e /\ j.via = job[p].via /\ j.user = job[p].user
      /\ j.grant = job[p].grant /\ j.t0 = job[p].t0
  BY <1>t, SMT DEF Job
<1>j. job'[p] = j OBVIOUS
<1> HIDE DEF j
<1>2. job'[p].t0 <= now' BY <1>t, <1>1, <1>j, Zenon DEF ProcInv
<1>3. IssueInv(p)' BY SMT DEF IssueInv, Issuing, Pending
<1>4. ConsumeInv(p)'
  <2>1. phase \notin Consuming BY SMT DEF Consuming, Touched
  <2>2. phase = "denyIssue" => phase \notin {"present", "denyConsume"} \cup Consuming
    BY <2>1, SMT
  <2> QED BY <1>t, <1>1, <1>j, <2>1, <2>2, Zenon DEF ProcInv, ConsumeInv
<1>5. RecordInv(p)' BY SMT DEF RecordInv, Recording
<1>6. RefusalInv(p)'
  <2>1. phase # "refuse" BY SMT
  <2>2. \A g \in Grants : Spent(g)' <=> Spent(g) BY Zenon DEF Spent
  <2> QED BY <1>1, <1>j, <2>1, <2>2, Zenon DEF RefusalInv
<1> QED BY <1>2, <1>3, <1>4, <1>5, <1>6, Zenon DEF ProcInv

(* Checks 1 to 4 refuse with ACCESS_DENIED.                                *)
LEMMA TurnDownStep ==
    ASSUME IInv, NEW p \in Procs, NEW phase \in {"denyIssue", "denyConsume"},
           TurnDown(p, phase, AccessDenied),
           pc[p] # "idle", phase = "denyConsume" => job[p].via = "consume",
           UNCHANGED <<Globals, Tables>>
    PROVE  Core'
<1> DEFINE j == [job[p] EXCEPT !.refusal = AccessDenied]
<1>t. job[p] \in Job BY Zenon DEF IInv, TypeOK
<1>1. Goto(p, phase) /\ job' = [job EXCEPT ![p] = j] BY DEF TurnDown
<1>2. pc'[p] = phase /\ job'[p] = j BY <1>1, Zenon DEF IInv, TypeOK, Goto
<1>3. UNCHANGED <<now, deleted, apps, gone, delivered, grant, session, audited, lock>>
  BY Zenon DEF Globals, Tables
<1>4. phase \in Phases BY SMT DEF Phases, Refusing
<1>5. j.grant = job[p].grant /\ j.session = job[p].session BY <1>t, SMT DEF Job
<1>6. AccessDenied \in Refusals
      /\ \A g \in Grants : AccessDenied # <<"GRANT_REPLAY_BLOCKED", g>>
  BY SMT DEF Refusals, AccessDenied
<1>7. now' = now /\ session' = session BY <1>3
<1>8. ProcInv(p)' BY <1>2, <1>6, <1>7, TurnedDown, Zenon
<1> HIDE DEF j
<1>9. \A q \in Procs \ {p} : /\ pc[q] \in Pending => j.grant # job[q].grant
                             /\ pc[q] \in Recording => j.session # job[q].session
  BY <1>5, Distinct, Zenon
<1> QED BY <1>1, <1>3, <1>4, <1>8, <1>9, JobStep, Zenon

(* The refusal is in the log before the request is rolled back.            *)
LEMMA DenyStep ==
    ASSUME IInv, NEW p \in Procs, NEW phase \in {"denyIssue", "denyConsume"},
           Deny(p, phase)
    PROVE  Core'
<1>i. ProcInv(p) BY Zenon DEF IInv
<1>p. /\ pc[p] = phase /\ Goto(p, "refuse")
      /\ UNCHANGED <<now, deleted, apps, gone, delivered, grant, session, lock, job>>
      /\ audited' = audited \cup {job[p].refusal}
  BY Zenon DEF Deny, Globals
<1>1. pc'[p] = "refuse" BY <1>p, Zenon DEF IInv, TypeOK, Goto
<1>2. pc[p] \in Refusing /\ "refuse" \in Phases BY <1>p, SMT DEF Refusing, Phases
<1>3. /\ job[p].refusal \in Refusals
      /\ \A g \in Grants : job[p].refusal = <<"GRANT_REPLAY_BLOCKED", g>> => Spent(g)
  BY <1>i, <1>2, Zenon DEF ProcInv, RefusalInv
<1>4. ProcInv(p)'
  <2>1. job'[p].t0 <= now' BY <1>i, <1>p, Zenon DEF ProcInv
  <2>2. IssueInv(p)' BY <1>1, SMT DEF IssueInv, Issuing, Pending
  <2>3. ConsumeInv(p)'
    <3>1. pc[p] # "idle" BY <1>p, SMT
    <3>2. /\ "refuse" \notin {"present", "denyConsume"} \cup Consuming
          /\ "refuse" \notin Consuming /\ "refuse" \notin Consuming \ {"mark"}
      BY SMT DEF Consuming, Touched
    <3>3. job[p].via = "consume" => job[p].user \in Users /\ job[p].grant \in Grants
      BY <1>i, <3>1, Zenon DEF ProcInv, ConsumeInv
    <3> QED BY <1>1, <1>p, <3>2, <3>3, Zenon DEF ConsumeInv
  <2>4. RecordInv(p)' BY <1>1, SMT DEF RecordInv, Recording
  <2>5. RefusalInv(p)'
    <3>1. \A g \in Grants : Spent(g)' <=> Spent(g) BY <1>p, Zenon DEF Spent
    <3>2. job[p].refusal \in audited' BY <1>p, Zenon
    <3> QED BY <1>p, <1>3, <3>1, <3>2, Zenon DEF RefusalInv
  <2> QED BY <2>1, <2>2, <2>3, <2>4, <2>5, Zenon DEF ProcInv
<1>5. audited \subseteq audited' /\ Vouched BY <1>p, <1>3, Zenon DEF Vouched
<1> QED BY <1>p, <1>2, <1>4, <1>5, MoveStep, Zenon

(* Checks 1 to 5, and the foreign key that refuses the mint.               *)
LEMMA IssueChecks ==
    ASSUME IInv, NEW p \in Procs,
           \/ CheckVisible(p) \/ CheckEntitled(p) \/ CheckCapacity(p)
           \/ MintInVain(p) \/ DenyIssue(p)
    PROVE  Core'
<1>1. CASE CheckVisible(p)
  <2>1. pc[p] \in Issuing /\ pc[p] # "idle" BY <1>1, SMT DEF CheckVisible, Issuing
  <2>2. \/ TurnDown(p, "denyIssue", AccessDenied)
        \/ Goto(p, "entitled") /\ UNCHANGED job
    BY <1>1, Zenon DEF CheckVisible
  <2>3. UNCHANGED <<Globals, Tables>> BY <1>1 DEF CheckVisible
  <2>4. "denyIssue" # "denyConsume" BY SMT
  <2> QED BY <2>1, <2>2, <2>3, <2>4, EarlyStep, TurnDownStep, Zenon
<1>2. CASE CheckEntitled(p)
  <2>1. pc[p] \in Issuing /\ pc[p] # "idle" BY <1>2, SMT DEF CheckEntitled, Issuing
  <2>2. \/ TurnDown(p, "denyIssue", AccessDenied)
        \/ Goto(p, "capacity") /\ UNCHANGED job
    BY <1>2, Zenon DEF CheckEntitled
  <2>3. UNCHANGED <<Globals, Tables>> BY <1>2 DEF CheckEntitled
  <2>4. "denyIssue" # "denyConsume" BY SMT
  <2> QED BY <2>1, <2>2, <2>3, <2>4, EarlyStep, TurnDownStep, Zenon
<1>3. CASE CheckCapacity(p)
  <2>1. pc[p] \in Issuing BY <1>3, SMT DEF CheckCapacity, Issuing
  <2> QED BY <1>3, <2>1, EarlyStep, EndStep, Zenon DEF CheckCapacity
<1>4. CASE MintInVain(p) BY <1>4, EndStep, Zenon DEF MintInVain
<1>5. CASE DenyIssue(p) BY <1>5, DenyStep, Zenon DEF DenyIssue
<1> QED BY <1>1, <1>2, <1>3, <1>4, <1>5

(* A grant nobody has heard of is in no table.                             *)
LEMMA FreshFacts ==
    ASSUME IInv, NEW g \in FreshGrants
    PROVE  /\ g \in Grants /\ grant[g] = None /\ g \notin gone /\ g \notin delivered
           /\ \A q \in Procs : job[q].grant # g
           /\ \A s \in Sessions : session[s] # None => session[s].grant # g
<1>1. g \in Grants /\ ~Issued(g) /\ \A q \in Procs : job[q].grant # g
  BY Zenon DEF FreshGrants, Issued
<1>2. ~(grant[g] # None \/ g \in gone)
  BY <1>1, Zenon DEF IInv, TableInv, CommitsAudited, Issued
<1>3. g \notin delivered /\ \A s \in Sessions : session[s] # None => session[s].grant # g
  BY <1>1, Zenon DEF IInv, TableInv, IssuedFirst
<1> QED BY <1>1, <1>2, <1>3, Zenon

(* The grant of an uncommitted INSERT is new to every table and request.   *)
LEMMA MintStep ==
    ASSUME IInv, NEW p \in Procs, Mint(p)
    PROVE  Core'
<1>t. TypeOK BY DEF IInv
<1>i. ProcInv(p) BY Zenon DEF IInv
<1>p. pc[p] = "mint" /\ Goto(p, "auditGrant") /\ job[p].app \in apps
      /\ UNCHANGED <<now, deleted, apps, gone, delivered, grant, session, audited, lock>>
  BY Zenon DEF Mint, Globals, Tables
<1>1. PICK g \in FreshGrants : job' = [job EXCEPT ![p].grant = g] BY DEF Mint
<1> DEFINE j == [job[p] EXCEPT !.grant = g]
<1>2. job[p] \in Job BY <1>t, Zenon DEF TypeOK
<1>3. /\ j.grant = g /\ j.via = job[p].via /\ j.user = job[p].user /\ j.cred = job[p].cred
      /\ j.app = job[p].app /\ j.session = job[p].session /\ j.t0 = job[p].t0 /\ j.marked = job[p].marked
  BY <1>2, SMT DEF Job
<1>4. job' = [job EXCEPT ![p] = j] BY <1>1
<1> HIDE DEF j
<1>5. pc'[p] = "auditGrant" /\ job'[p] = j /\ \A q \in Procs \ {p} : job'[q] = job[q]
  BY <1>t, <1>p, <1>4, Zenon DEF TypeOK, Goto
<1>6. ASSUME NEW q \in Procs \ {p}
      PROVE  /\ pc[q] \in Pending => j.grant # job[q].grant
             /\ pc[q] \in Recording => j.session # job[q].session
  <2>1. /\ pc[q] \in Pending => job[p].grant # job[q].grant
        /\ pc[q] \in Recording => job[p].session # job[q].session
    BY Distinct, Zenon
  <2>2. job[q].grant # g BY FreshFacts, Zenon
  <2> QED BY <1>3, <2>1, <2>2, Zenon
<1>7. ProcInv(p)'
  <2>1. job'[p].t0 <= now' BY <1>i, <1>p, <1>3, <1>5, Zenon DEF ProcInv
  <2>2. IssueInv(p)'
    <3>1. pc[p] \in Issuing /\ pc'[p] # "commitGrant" BY <1>p, <1>5, SMT DEF Issuing
    <3>2. job'[p].user \in Users /\ job'[p].cred \in Creds
      BY <1>i, <1>3, <1>5, <3>1, Zenon DEF ProcInv, IssueInv
    <3>3. /\ g \in Grants /\ grant'[g] = None /\ g \notin gone' /\ g \notin delivered'
          /\ \A q \in Procs \ {p} : job'[q].grant # g
          /\ \A s \in Sessions : session'[s] # None => session'[s].grant # g
          /\ job'[p].app \in apps'
      BY <1>p, <1>3, <1>5, FreshFacts, Zenon
    <3> QED BY <1>3, <1>5, <3>1, <3>2, <3>3, Zenon DEF IssueInv
  <2>3. ConsumeInv(p)'
    <3>1. pc[p] # "idle" BY <1>p, SMT
    <3>2. pc'[p] \notin {"present", "denyConsume"} \cup Consuming
      BY <1>5, SMT DEF Consuming, Touched
    <3>3. job[p].via = "consume" => job[p].user \in Users /\ job[p].grant \in Grants
      BY <1>i, <3>1, Zenon DEF ProcInv, ConsumeInv
    <3> QED BY <1>3, <1>5, <3>2, <3>3, FreshFacts, Zenon DEF ConsumeInv
  <2>4. RecordInv(p)' BY <1>5, SMT DEF RecordInv, Recording
  <2>5. RefusalInv(p)' BY <1>5, SMT DEF RefusalInv, Refusing
  <2> QED BY <2>1, <2>2, <2>3, <2>4, <2>5, Zenon DEF ProcInv
<1>8. "auditGrant" \in Phases BY SMT DEF Phases, Refusing, Issuing
<1> QED BY <1>p, <1>4, <1>6, <1>7, <1>8, JobStep, Zenon

(* GRANT_ISSUED is in the log before the grant commits.                    *)
LEMMA AuditGrantStep ==
    ASSUME IInv, NEW p \in Procs, AuditGrant(p)
    PROVE  Core'
<1>t. TypeOK BY DEF IInv
<1>i. ProcInv(p) BY Zenon DEF IInv
<1>p. /\ pc[p] = "auditGrant" /\ Goto(p, "commitGrant")
      /\ UNCHANGED <<now, deleted, apps, gone, delivered, grant, session, lock, job>>
      /\ audited' = audited \cup {<<"GRANT_ISSUED", job[p].grant>>}
  BY Zenon DEF AuditGrant, Globals
<1>1. pc'[p] = "commitGrant" BY <1>t, <1>p, Zenon DEF TypeOK, Goto
<1>2. ProcInv(p)'
  <2>1. job'[p].t0 <= now' BY <1>i, <1>p, Zenon DEF ProcInv
  <2>2. IssueInv(p)'
    <3>1. pc[p] \in Issuing /\ pc[p] \in Pending BY <1>p, SMT DEF Issuing, Pending
    <3>2. Issued(job[p].grant)' BY <1>p, Zenon DEF Issued
    <3> QED BY <1>i, <1>p, <3>1, <3>2, Zenon DEF ProcInv, IssueInv, Issued
  <2>3. ConsumeInv(p)'
    <3>1. pc[p] # "idle" BY <1>p, SMT
    <3>2. pc'[p] \notin {"present", "denyConsume"} \cup Consuming
      BY <1>1, SMT DEF Consuming, Touched
    <3> QED BY <1>i, <1>p, <3>1, <3>2, Zenon DEF ProcInv, ConsumeInv
  <2>4. RecordInv(p)' BY <1>1, SMT DEF RecordInv, Recording
  <2>5. RefusalInv(p)' BY <1>1, SMT DEF RefusalInv, Refusing
  <2> QED BY <2>1, <2>2, <2>3, <2>4, <2>5, Zenon DEF ProcInv
<1>3. "commitGrant" \in Phases BY SMT DEF Phases, Refusing, Issuing
<1>4. audited \subseteq audited' /\ Vouched
  <2>1. \A g : <<"GRANT_ISSUED", job[p].grant>> # <<"GRANT_REPLAY_BLOCKED", g>> BY SMT
  <2> QED BY <1>p, <2>1, Zenon DEF Vouched
<1> QED BY <1>p, <1>2, <1>3, <1>4, MoveStep, Zenon

(* The new row is unused; no session and no other request names it.        *)
LEMMA CommitGrantStep ==
    ASSUME IInv, NEW p \in Procs, CommitGrant(p)
    PROVE  Core'
<1> DEFINE g == job[p].grant
<1>t. TypeOK BY DEF IInv
<1>i. ProcInv(p) BY Zenon DEF IInv
<1>p. /\ pc[p] = "commitGrant" /\ End(p) /\ grant' = [grant EXCEPT ![g] = MintedRow(p)]
      /\ delivered' \subseteq delivered \cup {g}
      /\ session' = session /\ audited' = audited /\ gone' = gone /\ now' = now
      /\ apps' = apps
  BY Zenon DEF CommitGrant, End
<1>x. \A h \in Grants : Spent(h)' <=> Spent(h) BY <1>p, Zenon DEF Spent
<1>1. pc[p] \in Pending /\ pc[p] \in Issuing BY <1>p, SMT DEF Pending, Issuing
<1>2. /\ g \in Grants /\ grant[g] = None /\ g \notin gone /\ Issued(g)
      /\ \A q \in Procs \ {p} : job[q].grant # g
      /\ \A s \in Sessions : session[s] # None => session[s].grant # g
  BY <1>i, <1>p, <1>1, Zenon DEF ProcInv, IssueInv
<1>3. grant'[g] = MintedRow(p) /\ \A h \in Grants \ {g} : grant'[h] = grant[h]
  BY <1>t, <1>p, <1>2, Zenon DEF TypeOK
<1>4. MintedRow(p).used = FALSE BY SMT DEF MintedRow
<1>e. \A q \in Procs \ {p} : Aside(p, q) BY <1>p, EndFacts, Zenon
<1>n. ProcInv(p)' /\ job'[p].grant = None /\ job'[p].session = None /\ now' \in Nat
  <2>1. NoJob.grant = None /\ NoJob.session = None BY SMT DEF NoJob, NewJob
  <2> QED BY <1>p, <2>1, EndFacts, Zenon
<1> HIDE DEF g
<1>5. ASSUME NEW q \in Procs \ {p} PROVE ProcInv(q)'
  <2>a. Aside(p, q) BY <1>e
  <2>i. ProcInv(q) BY Zenon DEF IInv
  <2>1. pc'[q] = pc[q] /\ job'[q] = job[q] /\ now <= now' /\ now' \in Nat
    <3>1. now <= now' BY <1>p, <1>n, SMT
    <3> QED BY <2>a, <1>n, <3>1, Zenon DEF Aside
  <2>2. ASSUME pc[q] \in Pending
        PROVE  /\ grant'[job[q].grant] = None /\ job[q].grant \notin gone'
               /\ job[q].grant \notin delivered' /\ job[q].app \in apps'
               /\ \A r \in Procs \ {q} : job'[r].grant # job[q].grant
               /\ \A s \in Sessions : session'[s] # None => session'[s].grant # job[q].grant
    <3>1. /\ job[q].grant \in Grants /\ grant[job[q].grant] = None
          /\ job[q].grant \notin gone /\ job[q].grant \notin delivered
          /\ job[q].app \in apps
          /\ \A r \in Procs \ {q} : job[r].grant # job[q].grant
          /\ \A s \in Sessions : session[s] # None => session[s].grant # job[q].grant
      BY <2>2, <2>i, Zenon DEF ProcInv, IssueInv
    <3>2. job[q].grant # g BY <1>2
    <3>3. ASSUME NEW r \in Procs \ {q} PROVE job'[r].grant # job[q].grant
      <4>1. CASE r = p BY <4>1, <1>n, <3>1, GrantsAssumption, Zenon
      <4>2. CASE r # p
        <5>1. job'[r] = job[r] BY <1>e, <4>2, Zenon DEF Aside
        <5> QED BY <3>1, <5>1, Zenon
      <4> QED BY <4>1, <4>2
    <3> QED BY <1>p, <1>3, <3>1, <3>2, <3>3, Zenon
  <2>3. ASSUME pc[q] \in Consuming
        PROVE  lock'[job[q].grant] = q /\ grant'[job[q].grant] = grant[job[q].grant]
    <3>1. job[q].grant \in Grants /\ lock[job[q].grant] = q /\ job[q].grant # g
      BY <1>2, <2>3, <2>i, Holds, Zenon
    <3> QED BY <1>3, <2>a, <3>1, Zenon DEF Aside
  <2>4. ASSUME pc[q] \in Recording
        PROVE  /\ session'[job[q].session] = None
               /\ \A r \in Procs \ {q} : job'[r].session # job[q].session
    <3>1. /\ job[q].session \in Sessions /\ session[job[q].session] = None
          /\ \A r \in Procs \ {q} : job[r].session # job[q].session
      BY <2>4, <2>i, Zenon DEF ProcInv, RecordInv
    <3>2. ASSUME NEW r \in Procs \ {q} PROVE job'[r].session # job[q].session
      <4>1. CASE r = p BY <4>1, <1>n, <3>1, GrantsAssumption, Zenon
      <4>2. CASE r # p
        <5>1. job'[r] = job[r] BY <1>e, <4>2, Zenon DEF Aside
        <5> QED BY <3>1, <5>1, Zenon
      <4> QED BY <4>1, <4>2
    <3> QED BY <1>p, <3>1, <3>2, Zenon
  <2>5. Respects(q)
    <3>1. audited \subseteq audited' BY <1>p, Zenon
    <3> QED BY <1>x, <2>1, <2>2, <2>3, <2>4, <3>1, Zenon DEF Respects
  <2> QED BY <1>t, <2>i, <2>5, ProcKept, Zenon
<1>6. TableInv'
  <2>t. TableInv BY Zenon DEF IInv
  <2>1. OneSessionPerGrant' BY <1>p, <2>t, Zenon DEF TableInv, OneSessionPerGrant
  <2>2. UsedIffSession'
    <3> SUFFICES ASSUME NEW h \in Grants, grant'[h] # None
                 PROVE  grant'[h].used <=> Spent(h)
      BY <1>x, Zenon DEF UsedIffSession
    <3>1. CASE h = g BY <3>1, <1>2, <1>3, <1>4, Zenon DEF Spent
    <3>2. CASE h # g BY <3>2, <1>3, <2>t, Zenon DEF TableInv, UsedIffSession
    <3> QED BY <3>1, <3>2
  <2>3. SessionWithinGrant'
    <3> SUFFICES ASSUME NEW s \in Sessions, session[s] # None, grant'[session[s].grant] # None
                 PROVE  /\ session[s].user = grant'[session[s].grant].user
                        /\ session[s].cred = grant'[session[s].grant].cred
                        /\ session[s].app = grant'[session[s].grant].app
                        /\ session[s].expires <= grant'[session[s].grant].expires + SessionTTL
      BY <1>p, Zenon DEF SessionWithinGrant
    <3>1. session[s].grant \in Grants BY <1>t, RowTypes, SMT DEF SessionRow
    <3>2. grant'[session[s].grant] = grant[session[s].grant] BY <1>2, <1>3, <3>1, Zenon
    <3> QED BY <2>t, <3>2, Zenon DEF TableInv, SessionWithinGrant
  <2>4. CommitsAudited'
    BY <1>p, <1>2, <1>3, <2>t, Zenon DEF TableInv, CommitsAudited, Issued
  <2>6. ReplaysReal' BY <1>p, <1>x, <2>t, Zenon DEF TableInv, ReplaysReal
  <2>5. IssuedFirst'
    BY <1>p, <1>2, <2>t, Zenon DEF TableInv, IssuedFirst, Issued
  <2> QED BY <2>1, <2>2, <2>3, <2>4, <2>5, <2>6, Zenon DEF TableInv
<1> QED BY <1>5, <1>6, <1>n, Zenon DEF Core

-----------------------------------------------------------------------------
(* The steps of a request that consumes *)

(* The checks pass with the row locked: what they found stays true.        *)
LEMMA PresentStep ==
    ASSUME IInv, NEW p \in Procs, Present(p)
    PROVE  Core'
<1> DEFINE g == job[p].grant
<1>t. TypeOK BY DEF IInv
<1>i. ProcInv(p) BY Zenon DEF IInv
<1>p. /\ pc[p] = "present"
      /\ UNCHANGED <<now, deleted, apps, gone, delivered, grant, session, audited>>
  BY Zenon DEF Present, Globals
<1>0. pc[p] # "idle" BY <1>p, SMT
<1>1. /\ job[p].via = "consume" /\ job[p].user \in Users /\ g \in Grants
      /\ job[p].t0 <= now
  <2>1. pc[p] \in {"present", "denyConsume"} \cup Consuming BY <1>p, Zenon
  <2> QED BY <1>0, <1>i, <2>1, Zenon DEF ProcInv, ConsumeInv
<1>2. {"mark", "denyConsume"} \subseteq Phases
  BY SMT DEF Phases, Refusing, Consuming, Touched
<1>3. CASE grant[g] = None
  <2>1. TurnDown(p, "denyConsume", AccessDenied) /\ UNCHANGED <<Globals, Tables>>
    BY <1>3, Zenon DEF Present, Tables
  <2> QED BY <1>0, <1>1, <2>1, TurnDownStep, Zenon
<1>4. CASE grant[g] # None
  <2>1. lock[g] = None /\ lock' = [lock EXCEPT ![g] = p]
    BY <1>4 DEF Present, RowFree
  <2>2. job[p] \in Job BY <1>t, Zenon DEF TypeOK
  <2>3. lock'[g] = p BY <1>1, <1>t, <2>1, Zenon DEF TypeOK
  <2>4. \A q \in Procs \ {p} : \A h \in Grants : lock[h] = q => lock'[h] = q
    BY <1>t, <2>1, GrantsAssumption, Zenon DEF TypeOK
  <2>5. now' = now /\ apps' = apps /\ gone' = gone /\ delivered' = delivered
         /\ grant' = grant /\ session' = session /\ audited \subseteq audited' /\ Vouched
    BY <1>p, Zenon DEF Vouched
  <2>6. ASSUME NEW phase, NEW j, Goto(p, phase), job' = [job EXCEPT ![p] = j],
               j.grant = job[p].grant, j.session = job[p].session, ProcInv(p)'
        PROVE  Core'
    <3>1. job'[p] = j BY <1>t, <2>6, Zenon DEF TypeOK
    <3>2. ASSUME NEW q \in Procs \ {p} PROVE Aside(p, q)
      <4>1. pc'[q] = pc[q] /\ job'[q] = job[q]
        BY <1>t, <2>6, Zenon DEF TypeOK, Goto
      <4>2. /\ pc[q] \in Pending => job'[p].grant # job[q].grant
            /\ pc[q] \in Recording => job'[p].session # job[q].session
        BY <2>6, <3>1, Distinct, Zenon
      <4>3. \A h \in Grants : lock[h] = q => lock'[h] = q BY <2>4
      <4> HIDE DEF g
      <4> QED BY <4>1, <4>2, <4>3, Zenon DEF Aside
    <3> QED BY <2>5, <2>6, <3>2, QuietCore, Zenon
  <2>7. CASE Acceptable(p, g)
    <3> DEFINE j == [job[p] EXCEPT !.cred = grant[g].cred, !.app = grant[g].app]
    <3>1. Goto(p, "mark") /\ job' = [job EXCEPT ![p] = j]
      <4>1. job' = [job EXCEPT ![p].cred = grant[g].cred, ![p].app = grant[g].app]
            /\ Goto(p, "mark")
        BY <1>4, <2>7 DEF Present
      <4>2. [job EXCEPT ![p].cred = grant[g].cred, ![p].app = grant[g].app] =
                [job EXCEPT ![p] = j]
        BY <1>t DEF TypeOK
      <4> QED BY <4>1, <4>2
    <3>2. /\ j.cred = grant[g].cred /\ j.app = grant[g].app /\ j.via = job[p].via
          /\ j.user = job[p].user /\ j.grant = g /\ j.session = job[p].session
          /\ j.t0 = job[p].t0
      BY <2>2, SMT DEF Job
    <3> HIDE DEF j, g
    <3>3. pc'[p] = "mark" /\ job'[p] = j BY <1>t, <3>1, Zenon DEF TypeOK, Goto
    <3>4. ProcInv(p)'
      <4>1. job'[p].t0 <= now' BY <1>1, <1>p, <3>2, <3>3, Zenon
      <4>2. IssueInv(p)' BY <3>3, SMT DEF IssueInv, Issuing, Pending
      <4>3. ConsumeInv(p)'
        <5>1. ~grant[g].used /\ grant[g].user = job[p].user /\ ~(grant[g].expires < now)
          BY <2>7, Zenon DEF Acceptable, Expired
        <5>2. grant[g].expires \in Nat BY <1>t, <1>1, <1>4, RowTypes, SMT DEF GrantRow
        <5>3. job[p].t0 \in Nat /\ now \in Nat BY <1>t, <2>2, SMT DEF TypeOK, Job
        <5>4. job[p].t0 <= grant[g].expires BY <1>1, <5>1, <5>2, <5>3, SMT
        <5>5. "mark" \notin Consuming \ {"mark"} BY SMT
        <5> QED BY <1>1, <1>4, <1>p, <2>3, <3>2, <3>3, <5>1, <5>4, <5>5, Zenon
                DEF ConsumeInv
      <4>4. RecordInv(p)' BY <3>3, SMT DEF RecordInv, Recording
      <4>5. RefusalInv(p)' BY <3>3, SMT DEF RefusalInv, Refusing
      <4> QED BY <4>1, <4>2, <4>3, <4>4, <4>5, Zenon DEF ProcInv
    <3>5. j.grant = job[p].grant BY <3>2 DEF g
    <3> QED BY <2>6, <3>1, <3>2, <3>4, <3>5, Zenon
  <2>8. CASE ~Acceptable(p, g)
    <3> DEFINE j == [job[p] EXCEPT !.refusal = Refusal(g)]
    <3>1. Goto(p, "denyConsume") /\ job' = [job EXCEPT ![p] = j]
      BY <1>4, <2>8 DEF Present, TurnDown
    <3>2. j.grant = job[p].grant /\ j.session = job[p].session BY <2>2, SMT DEF Job
    <3>3. Refusal(g) \in Refusals BY <1>1, Zenon DEF Refusals, Refusal
    <3>4. ASSUME NEW h \in Grants, Refusal(g) = <<"GRANT_REPLAY_BLOCKED", h>>
          PROVE  Spent(h)
      <4>1. grant[g].used /\ h = g BY <3>4, SMT DEF Refusal, AccessDenied
      <4>2. UsedIffSession BY DEF IInv, TableInv
      <4> QED BY <1>1, <1>4, <4>1, <4>2, Zenon DEF UsedIffSession
    <3>5. pc'[p] = "denyConsume" /\ job'[p] = j BY <1>t, <3>1, Zenon DEF TypeOK, Goto
    <3>6. ProcInv(p)' BY <1>0, <1>1, <2>5, <3>3, <3>4, <3>5, TurnedDown, Zenon
    <3> QED BY <2>6, <3>1, <3>2, <3>6, Zenon
  <2> QED BY <2>7, <2>8
<1> QED BY <1>3, <1>4

(* A request past its checks goes on with the row it holds.                *)
LEMMA Onward ==
    ASSUME IInv, NEW p \in Procs, pc[p] \in Consuming,
           pc'[p] \in Consuming \ {"mark"},
           now' = now, grant' = grant, lock' = lock, job'[p].marked,
           job'[p].via = job[p].via, job'[p].user = job[p].user,
           job'[p].cred = job[p].cred, job'[p].grant = job[p].grant,
           job'[p].app = job[p].app, job'[p].t0 = job[p].t0
    PROVE  job'[p].t0 <= now' /\ IssueInv(p)' /\ ConsumeInv(p)' /\ RefusalInv(p)'
<1>i. ProcInv(p) BY Zenon DEF IInv
<1>1. job'[p].t0 <= now' BY <1>i, Zenon DEF ProcInv
<1>2. IssueInv(p)' BY SMT DEF IssueInv, Issuing, Pending, Consuming, Touched
<1>3. ConsumeInv(p)'
  <2>1. job[p].via = "consume" BY <1>i, Zenon DEF ProcInv, ConsumeInv
  <2> QED BY <1>i, <2>1, Holds, Zenon DEF ProcInv, ConsumeInv
<1>4. RefusalInv(p)' BY SMT DEF RefusalInv, Refusing, Consuming, Touched
<1> QED BY <1>1, <1>2, <1>3, <1>4, Zenon

(* The uncommitted mark is local to the request that holds the row.        *)
LEMMA MarkStep ==
    ASSUME IInv, NEW p \in Procs, MarkUsed(p)
    PROVE  Core'
<1> DEFINE j == [job[p] EXCEPT !.marked = TRUE]
<1>t. TypeOK BY DEF IInv
<1>p. /\ pc[p] = "mark" /\ Goto(p, "unseal")
      /\ UNCHANGED <<now, deleted, apps, gone, delivered, grant, session, audited, lock>>
      /\ job' = [job EXCEPT ![p] = j]
  BY Zenon DEF MarkUsed, Globals, Tables
<1>1. job[p] \in Job BY <1>t, Zenon DEF TypeOK
<1>2. /\ j.marked /\ j.cred = job[p].cred /\ j.app = job[p].app /\ j.via = job[p].via /\ j.user = job[p].user
      /\ j.grant = job[p].grant /\ j.session = job[p].session /\ j.t0 = job[p].t0
  BY <1>1, SMT DEF Job
<1> HIDE DEF j
<1>3. pc'[p] = "unseal" /\ job'[p] = j BY <1>t, <1>p, Zenon DEF TypeOK, Goto
<1>4. ProcInv(p)'
  <2>1. pc[p] \in Consuming /\ pc'[p] \in Consuming \ {"mark"}
    BY <1>p, <1>3, SMT DEF Consuming, Touched
  <2>2. job'[p].t0 <= now' /\ IssueInv(p)' /\ ConsumeInv(p)' /\ RefusalInv(p)'
    BY <1>p, <1>2, <1>3, <2>1, Onward, Zenon
  <2>3. RecordInv(p)' BY <1>3, SMT DEF RecordInv, Recording
  <2> QED BY <2>2, <2>3, Zenon DEF ProcInv
<1>5. ASSUME NEW q \in Procs \ {p}
      PROVE  /\ pc[q] \in Pending => j.grant # job[q].grant
             /\ pc[q] \in Recording => j.session # job[q].session
  BY <1>2, Distinct, Zenon
<1>6. "unseal" \in Phases BY SMT DEF Phases, Refusing, Consuming, Touched
<1> QED BY <1>p, <1>4, <1>5, <1>6, JobStep, Zenon

(* Steps past the mark that move pc, and audit or not.                     *)
LEMMA OnStep ==
    ASSUME IInv, NEW p \in Procs, NEW phase \in Consuming \ {"mark"},
           pc[p] \in Consuming \ {"mark"}, Goto(p, phase),
           UNCHANGED <<now, deleted, apps, gone, delivered, grant, session, lock, job>>,
           audited \subseteq audited', Vouched, RecordInv(p)'
    PROVE  Core'
<1>i. ProcInv(p) BY Zenon DEF IInv
<1>1. pc'[p] = phase BY Zenon DEF IInv, TypeOK, Goto
<1>2. job[p].marked BY <1>i, Zenon DEF ProcInv, ConsumeInv
<1>3. job'[p].t0 <= now' /\ IssueInv(p)' /\ ConsumeInv(p)' /\ RefusalInv(p)'
  <2>1. now' = now /\ grant' = grant /\ lock' = lock /\ job' = job OBVIOUS
  <2> QED BY <1>1, <1>2, <2>1, Onward, Zenon
<1>4. ProcInv(p)' BY <1>3, Zenon DEF ProcInv
<1>5. phase \in Phases BY Zenon DEF Phases, Refusing
<1> QED BY <1>4, <1>5, MoveStep, Zenon

(* The username opens and the request goes on, or it ends.                 *)
LEMMA UnsealStep ==
    ASSUME IInv, NEW p \in Procs, Unseal(p)
    PROVE  Core'
<1>1. CASE job[p].cred \notin Opens BY <1>1, EndStep, Zenon DEF Unseal
<1>2. CASE job[p].cred \in Opens
  <2>1. /\ pc[p] = "unseal" /\ Goto(p, "perform")
        /\ UNCHANGED <<now, deleted, apps, gone, delivered, grant, session, audited, lock, job>>
    BY <1>2, Zenon DEF Unseal, Globals, Tables
  <2>2. "perform" \in Consuming \ {"mark"} /\ "unseal" \in Consuming \ {"mark"}
    BY SMT DEF Consuming, Touched
  <2>3. pc'[p] = "perform" BY <2>1, Zenon DEF IInv, TypeOK, Goto
  <2>4. RecordInv(p)' BY <2>3, SMT DEF RecordInv, Recording
  <2>5. audited \subseteq audited' /\ Vouched BY <2>1, Zenon DEF Vouched
  <2> QED BY <2>1, <2>2, <2>4, <2>5, OnStep, Zenon
<1> QED BY <1>1, <1>2

(* The secret is handed out; no table changes.                             *)
LEMMA PerformStep ==
    ASSUME IInv, NEW p \in Procs, Perform(p)
    PROVE  Core'
<1>1. /\ pc[p] = "perform" /\ Goto(p, "record")
      /\ UNCHANGED <<now, deleted, apps, gone, delivered, grant, session, audited, lock, job>>
  BY Zenon DEF Perform, Tables
<1>2. "perform" \in Consuming \ {"mark"} /\ "record" \in Consuming \ {"mark"}
  BY SMT DEF Consuming, Touched
<1>3. pc'[p] = "record" BY <1>1, Zenon DEF IInv, TypeOK, Goto
<1>4. RecordInv(p)' BY <1>3, SMT DEF RecordInv, Recording
<1>5. audited \subseteq audited' /\ Vouched BY <1>1, Zenon DEF Vouched
<1> QED BY <1>1, <1>2, <1>4, <1>5, OnStep, Zenon

(* The session of an uncommitted INSERT is new to everybody.               *)
LEMMA RecordStep ==
    ASSUME IInv, NEW p \in Procs, RecordSession(p)
    PROVE  Core'
<1>t. TypeOK BY DEF IInv
<1>p. /\ pc[p] = "record" /\ Goto(p, "touch")
      /\ UNCHANGED <<now, deleted, apps, gone, delivered, grant, session, audited, lock>>
  BY Zenon DEF RecordSession, Globals, Tables
<1>1. PICK s \in FreshSessions : job' = [job EXCEPT ![p].session = s]
  BY DEF RecordSession
<1> DEFINE j == [job[p] EXCEPT !.session = s]
<1>2. job[p] \in Job BY <1>t, Zenon DEF TypeOK
<1>3. /\ j.session = s /\ j.cred = job[p].cred /\ j.app = job[p].app /\ j.via = job[p].via /\ j.user = job[p].user
      /\ j.grant = job[p].grant /\ j.t0 = job[p].t0 /\ j.marked = job[p].marked
  BY <1>2, SMT DEF Job
<1>4. job' = [job EXCEPT ![p] = j] BY <1>1
<1> HIDE DEF j
<1>5. pc'[p] = "touch" /\ job'[p] = j /\ \A q \in Procs \ {p} : job'[q] = job[q]
  BY <1>t, <1>p, <1>4, Zenon DEF TypeOK, Goto
<1>6. /\ s \in Sessions /\ \A q \in Procs : job[q].session # s
      /\ session[s] = None
  <2>1. s \in Sessions /\ (\A q \in Procs : job[q].session # s)
        /\ \A type \in LaunchTypes : <<type, s>> \notin audited
    BY Zenon DEF FreshSessions
  <2>2. "SESSION_STARTED" \in LaunchTypes BY DEF LaunchTypes
  <2>3. session[s] # None => <<"SESSION_STARTED", s>> \in audited
    BY <2>1, <2>2, Zenon DEF IInv, TableInv, CommitsAudited
  <2> QED BY <2>1, <2>2, <2>3, Zenon
<1>7. ProcInv(p)'
  <2>1. /\ pc[p] \in Consuming \ {"mark"} /\ pc[p] \in Consuming
        /\ pc'[p] \in Consuming \ {"mark"}
    BY <1>p, <1>5, SMT DEF Consuming, Touched
  <2>2. job[p].marked BY <2>1, Zenon DEF IInv, ProcInv, ConsumeInv
  <2>3. job'[p].t0 <= now' /\ IssueInv(p)' /\ ConsumeInv(p)' /\ RefusalInv(p)'
    BY <1>p, <1>3, <1>5, <2>1, <2>2, Onward, Zenon
  <2>4. RecordInv(p)'
    <3>1. pc'[p] \notin {"auditUse", "auditSession", "commitSession"}
          /\ pc'[p] \notin {"auditSession", "commitSession"} /\ pc'[p] # "commitSession"
      BY <1>5, SMT
    <3> QED BY <1>p, <1>3, <1>5, <1>6, <3>1, Zenon DEF RecordInv
  <2> QED BY <2>3, <2>4, Zenon DEF ProcInv
<1>8. ASSUME NEW q \in Procs \ {p}
      PROVE  /\ pc[q] \in Pending => j.grant # job[q].grant
             /\ pc[q] \in Recording => j.session # job[q].session
  BY <1>3, <1>6, Distinct, Zenon
<1>9. "touch" \in Phases BY SMT DEF Phases, Consuming
<1> QED BY <1>p, <1>4, <1>7, <1>8, <1>9, JobStep, Zenon

(* The row of the credential is locked as well.                            *)
LEMMA TouchStep ==
    ASSUME IInv, NEW p \in Procs, TouchCredential(p)
    PROVE  Core'
<1>1. /\ pc[p] = "touch" /\ Goto(p, "auditLaunch")
      /\ UNCHANGED <<now, deleted, apps, gone, delivered, grant, session, audited, lock, job>>
  BY Zenon DEF TouchCredential, Globals, Tables
<1>2. "touch" \in Consuming \ {"mark"} /\ "auditLaunch" \in Consuming \ {"mark"}
  BY SMT DEF Consuming, Touched
<1>3. pc'[p] = "auditLaunch" BY <1>1, Zenon DEF IInv, TypeOK, Goto
<1>4. RecordInv(p)'
  <2>1. pc[p] \in Recording BY <1>1 DEF Recording
  <2>2. /\ job[p].session \in Sessions /\ session[job[p].session] = None
        /\ \A q \in Procs \ {p} : job[q].session # job[p].session
    BY <2>1, Zenon DEF IInv, ProcInv, RecordInv
  <2>3. pc'[p] \notin {"auditUse", "auditSession", "commitSession"}
        /\ pc'[p] \notin {"auditSession", "commitSession"} /\ pc'[p] # "commitSession"
    BY <1>3, SMT
  <2> QED BY <1>1, <2>2, <2>3, Zenon DEF RecordInv
<1>5. audited \subseteq audited' /\ Vouched BY <1>1, Zenon DEF Vouched
<1> QED BY <1>1, <1>2, <1>4, <1>5, OnStep, Zenon

(* The three events of a launch come one after the other.                  *)
LEMMA AuditConsumeStep ==
    ASSUME IInv, NEW p \in Procs, AuditConsume(p)
    PROVE  Core'
<1>i. RecordInv(p) BY Zenon DEF IInv, ProcInv
<1>1. PICK type \in LaunchTypes, phase \in {"auditUse", "auditSession", "commitSession"} :
        /\ Goto(p, phase)
        /\ audited' = audited \cup {<<type, job[p].session>>}
        /\ UNCHANGED <<Globals, grant, session, lock, job>>
        /\ \/ pc[p] = "auditLaunch" /\ type = "APPLICATION_LAUNCHED" /\ phase = "auditUse"
           \/ pc[p] = "auditUse" /\ type = "CREDENTIAL_USED" /\ phase = "auditSession"
           \/ pc[p] = "auditSession" /\ type = "SESSION_STARTED" /\ phase = "commitSession"
  BY Zenon DEF AuditConsume, AuditStep, LaunchTypes
<1>2. UNCHANGED <<now, deleted, apps, gone, delivered, grant, session, lock, job>>
      /\ audited \subseteq audited'
  BY <1>1, Zenon DEF Globals
<1>v. Vouched
  <2>1. \A g : <<type, job[p].session>> # <<"GRANT_REPLAY_BLOCKED", g>>
    BY <1>1, SMT
  <2> QED BY <1>1, <2>1, Zenon DEF Vouched
<1>3. pc[p] \in Consuming \ {"mark"} /\ pc[p] \in Recording
      /\ phase \in Consuming \ {"mark"}
  BY <1>1, SMT DEF Consuming, Touched, Recording
<1>4. pc'[p] = phase BY <1>1, <1>3, Zenon DEF IInv, TypeOK, Goto, Phases, Refusing
<1>5. RecordInv(p)'
  <2>1. job' = job /\ session' = session BY <1>2, Zenon
  <2>2. /\ job[p].session \in Sessions /\ session[job[p].session] = None
        /\ \A q \in Procs \ {p} : job[q].session # job[p].session
    BY <1>i, <1>3, Zenon DEF RecordInv
  <2>3. phase \in {"auditUse", "auditSession", "commitSession"} =>
          <<"APPLICATION_LAUNCHED", job[p].session>> \in audited'
    BY <1>i, <1>1, <1>2, SMT DEF RecordInv
  <2>4. phase \in {"auditSession", "commitSession"} =>
          <<"CREDENTIAL_USED", job[p].session>> \in audited'
    BY <1>i, <1>1, <1>2, SMT DEF RecordInv
  <2>5. phase = "commitSession" =>
          <<"SESSION_STARTED", job[p].session>> \in audited'
    BY <1>i, <1>1, <1>2, SMT DEF RecordInv
  <2> QED BY <1>4, <2>1, <2>2, <2>3, <2>4, <2>5, Zenon DEF RecordInv
<1> QED BY <1>1, <1>2, <1>3, <1>5, <1>v, OnStep, Zenon

(* Mark and session commit together, under the row lock.                   *)
LEMMA CommitSessionStep ==
    ASSUME IInv, NEW p \in Procs, CommitSession(p)
    PROVE  Core'
<1> DEFINE g == job[p].grant
           s == job[p].session
           row == [grant[g] EXCEPT !.used = job[p].marked]
<1>t. TypeOK BY DEF IInv
<1>i. ProcInv(p) BY Zenon DEF IInv
<1>p. /\ pc[p] = "commitSession" /\ End(p)
      /\ grant' = [grant EXCEPT ![g] = row]
      /\ session' = [session EXCEPT ![s] = NewSession(p)]
      /\ delivered' = delivered /\ audited' = audited /\ gone' = gone /\ now' = now
      /\ apps' = apps
  BY Zenon DEF CommitSession, End
<1>1. /\ pc[p] \in Consuming /\ pc[p] \in Consuming \ {"mark"} /\ pc[p] \in Recording
      /\ pc[p] \in {"auditUse", "auditSession", "commitSession"}
      /\ pc[p] \in {"auditSession", "commitSession"}
  BY <1>p, SMT DEF Consuming, Touched, Recording
<1>2. /\ g \in Grants /\ lock[g] = p /\ grant[g] # None /\ ~grant[g].used
      /\ grant[g].user = job[p].user /\ grant[g].cred = job[p].cred
      /\ grant[g].app = job[p].app /\ job[p].t0 <= grant[g].expires /\ job[p].marked
  BY <1>i, <1>1, Holds, Zenon DEF ProcInv, ConsumeInv
<1>3. /\ s \in Sessions /\ session[s] = None
      /\ \A q \in Procs \ {p} : job[q].session # s
      /\ <<"APPLICATION_LAUNCHED", s>> \in audited /\ <<"CREDENTIAL_USED", s>> \in audited
      /\ <<"SESSION_STARTED", s>> \in audited
  BY <1>i, <1>p, <1>1, Zenon DEF ProcInv, RecordInv
<1>4. /\ row.used = job[p].marked /\ row.user = grant[g].user /\ row.cred = grant[g].cred
      /\ row.app = grant[g].app
      /\ row.expires = grant[g].expires
  BY <1>t, <1>2, RowTypes, SMT DEF GrantRow
<1>5. /\ NewSession(p).user = job[p].user /\ NewSession(p).cred = job[p].cred
      /\ NewSession(p).app = job[p].app
      /\ NewSession(p).grant = g /\ NewSession(p).expires = job[p].t0 + SessionTTL
      /\ NewSession(p).status = "ACTIVE"
  BY SMT DEF NewSession
<1>6. NewSession(p) # None
  <2>1. grant[g] \in GrantRow BY <1>t, <1>2, RowTypes
  <2>2. job[p].cred \in Creds /\ job[p].app \in Apps BY <1>2, <2>1, SMT DEF GrantRow
  <2>3. job[p].t0 \in Nat BY <1>t, SMT DEF TypeOK, Job
  <2>4. job[p].user \in Users BY <1>i, <1>1, Holds, Zenon
  <2>5. NewSession(p) \in SessionRow
    BY <1>2, <2>2, <2>3, <2>4, GrantsAssumption, SMT DEF NewSession, SessionRow
  <2> QED BY <2>5, RowsAssumption
<1> HIDE DEF g, s, row
<1>7. grant'[g] = row /\ \A h \in Grants \ {g} : grant'[h] = grant[h]
  BY <1>t, <1>p, <1>2, Zenon DEF TypeOK
<1>8. session'[s] = NewSession(p) /\ \A r \in Sessions \ {s} : session'[r] = session[r]
  BY <1>t, <1>p, <1>3, Zenon DEF TypeOK
<1>x. \A h \in Grants : Spent(h) => Spent(h)'
  <2>1. ASSUME NEW r \in Sessions, session[r] # None PROVE r # s /\ session'[r] = session[r]
    BY <1>3, <1>8, <2>1, Zenon
  <2> QED BY <2>1, Zenon DEF Spent
<1>e. \A q \in Procs \ {p} : Aside(p, q) BY <1>p, EndFacts, Zenon
<1>n. ProcInv(p)' /\ job'[p].grant = None /\ job'[p].session = None /\ now' \in Nat
  <2>1. NoJob.grant = None /\ NoJob.session = None BY SMT DEF NoJob, NewJob
  <2> QED BY <1>p, <2>1, EndFacts, Zenon
<1>9. ASSUME NEW q \in Procs \ {p} PROVE ProcInv(q)'
  <2>a. Aside(p, q) BY <1>e
  <2>i. ProcInv(q) BY Zenon DEF IInv
  <2>1. pc'[q] = pc[q] /\ job'[q] = job[q] /\ now <= now' /\ now' \in Nat
    <3>1. now <= now' BY <1>p, <1>n, SMT
    <3> QED BY <2>a, <1>n, <3>1, Zenon DEF Aside
  <2>2. ASSUME pc[q] \in Pending
        PROVE  /\ grant'[job[q].grant] = None /\ job[q].grant \notin gone'
               /\ job[q].grant \notin delivered' /\ job[q].app \in apps'
               /\ \A r \in Procs \ {q} : job'[r].grant # job[q].grant
               /\ \A r \in Sessions : session'[r] # None => session'[r].grant # job[q].grant
    <3>1. /\ job[q].grant \in Grants /\ grant[job[q].grant] = None
          /\ job[q].grant \notin gone /\ job[q].grant \notin delivered
          /\ job[q].app \in apps
          /\ \A r \in Procs \ {q} : job[r].grant # job[q].grant
          /\ \A r \in Sessions : session[r] # None => session[r].grant # job[q].grant
      BY <2>2, <2>i, Zenon DEF ProcInv, IssueInv
    <3>2. job[q].grant # g BY <3>1, Zenon DEF g
    <3>3. ASSUME NEW r \in Procs \ {q} PROVE job'[r].grant # job[q].grant
      <4>1. CASE r = p BY <4>1, <1>n, <3>1, GrantsAssumption, Zenon
      <4>2. CASE r # p
        <5>1. job'[r] = job[r] BY <1>e, <4>2, Zenon DEF Aside
        <5> QED BY <3>1, <5>1, Zenon
      <4> QED BY <4>1, <4>2
    <3>4. ASSUME NEW r \in Sessions, session'[r] # None PROVE session'[r].grant # job[q].grant
      <4>1. CASE r = s BY <4>1, <1>5, <1>8, <3>2, Zenon
      <4>2. CASE r # s BY <4>2, <1>8, <3>1, <3>4, Zenon
      <4> QED BY <4>1, <4>2
    <3> QED BY <1>p, <1>7, <3>1, <3>2, <3>3, <3>4, Zenon
  <2>3. ASSUME pc[q] \in Consuming
        PROVE  lock'[job[q].grant] = q /\ grant'[job[q].grant] = grant[job[q].grant]
    <3>1. job[q].grant \in Grants /\ lock[job[q].grant] = q
      BY <2>3, <2>i, Holds, Zenon
    <3>2. job[q].grant # g BY <1>2, <3>1
    <3> QED BY <1>7, <2>a, <3>1, <3>2, Zenon DEF Aside
  <2>4. ASSUME pc[q] \in Recording
        PROVE  /\ session'[job[q].session] = None
               /\ \A r \in Procs \ {q} : job'[r].session # job[q].session
    <3>1. /\ job[q].session \in Sessions /\ session[job[q].session] = None
          /\ \A r \in Procs \ {q} : job[r].session # job[q].session
      BY <2>4, <2>i, Zenon DEF ProcInv, RecordInv
    <3>2. ASSUME NEW r \in Procs \ {q} PROVE job'[r].session # job[q].session
      <4>1. CASE r = p BY <4>1, <1>n, <3>1, GrantsAssumption, Zenon
      <4>2. CASE r # p
        <5>1. job'[r] = job[r] BY <1>e, <4>2, Zenon DEF Aside
        <5> QED BY <3>1, <5>1, Zenon
      <4> QED BY <4>1, <4>2
    <3>3. job[q].session # s BY <1>3
    <3> QED BY <1>8, <3>1, <3>2, <3>3, Zenon
  <2>5. Respects(q)
    <3>1. audited \subseteq audited' BY <1>p, Zenon
    <3> QED BY <1>x, <2>1, <2>2, <2>3, <2>4, <3>1, Zenon DEF Respects
  <2> QED BY <1>t, <2>i, <2>5, ProcKept, Zenon
<1>10. TableInv'
  <2>t. TableInv BY Zenon DEF IInv
  <2>0. ASSUME NEW r \in Sessions, session[r] # None PROVE session[r].grant # g
    BY <1>2, <2>0, <2>t, Zenon DEF TableInv, UsedIffSession, Spent
  <2>g. ASSUME NEW r \in Sessions, session'[r] # None, r # s
        PROVE  /\ session'[r] = session[r] /\ session[r] # None
               /\ session[r].grant \in Grants /\ session[r].grant # g
               /\ grant'[session[r].grant] = grant[session[r].grant]
    <3>1. session'[r] = session[r] /\ session[r] # None BY <1>8, <2>g, Zenon
    <3>2. session[r].grant \in Grants BY <1>t, <3>1, RowTypes, SMT DEF SessionRow
    <3> QED BY <1>7, <2>0, <3>1, <3>2, Zenon
  <2>1. OneSessionPerGrant'
    <3> SUFFICES ASSUME NEW r \in Sessions, NEW x \in Sessions, session'[r] # None,
                        session'[x] # None, session'[r].grant = session'[x].grant
                 PROVE  r = x
      BY Zenon DEF OneSessionPerGrant
    <3>1. session'[s].grant = g BY <1>5, <1>8
    <3>2. CASE r = s /\ x # s BY <3>1, <3>2, <2>g, Zenon
    <3>3. CASE x = s /\ r # s BY <3>1, <3>3, <2>g, Zenon
    <3>4. CASE r # s /\ x # s
      BY <3>4, <2>g, <2>t, Zenon DEF TableInv, OneSessionPerGrant
    <3> QED BY <3>2, <3>3, <3>4
  <2>2. UsedIffSession'
    <3> SUFFICES ASSUME NEW h \in Grants, grant'[h] # None
                 PROVE  grant'[h].used <=>
                          \E r \in Sessions : session'[r] # None /\ session'[r].grant = h
      BY Zenon DEF UsedIffSession, Spent
    <3>1. CASE h = g BY <3>1, <1>2, <1>3, <1>4, <1>5, <1>6, <1>7, <1>8, Zenon
    <3>2. CASE h # g
      <4>1. ASSUME NEW r \in Sessions
            PROVE  session'[r] # None /\ session'[r].grant = h <=>
                   session[r] # None /\ session[r].grant = h
        BY <3>2, <1>3, <1>5, <1>8, Zenon
      <4>2. grant'[h] = grant[h] BY <3>2, <1>7
      <4> QED BY <4>1, <4>2, <2>t, Zenon DEF TableInv, UsedIffSession, Spent
    <3> QED BY <3>1, <3>2
  <2>3. SessionWithinGrant'
    <3> SUFFICES ASSUME NEW r \in Sessions, session'[r] # None,
                        grant'[session'[r].grant] # None
                 PROVE  /\ session'[r].user = grant'[session'[r].grant].user
                        /\ session'[r].cred = grant'[session'[r].grant].cred
                        /\ session'[r].app = grant'[session'[r].grant].app
                        /\ session'[r].expires <= grant'[session'[r].grant].expires + SessionTTL
      BY Zenon DEF SessionWithinGrant
    <3>1. CASE r = s
      <4>1. job[p].t0 + SessionTTL <= grant[g].expires + SessionTTL
        <5>1. job[p].t0 \in Nat /\ SessionTTL \in Nat
          BY <1>t, GrantsAssumption, SMT DEF TypeOK, Job
        <5>2. grant[g].expires \in Nat BY <1>t, <1>2, RowTypes, SMT DEF GrantRow
        <5> QED BY <1>2, <5>1, <5>2, SMT
      <4>2. session'[r].grant = g /\ session'[r] = NewSession(p) BY <3>1, <1>5, <1>8
      <4>3. session'[r].user = grant'[g].user BY <1>2, <1>4, <1>5, <1>7, <4>2, ZenonT(40)
      <4>4. session'[r].cred = grant'[g].cred BY <1>2, <1>4, <1>5, <1>7, <4>2, ZenonT(40)
      <4>6. session'[r].app = grant'[g].app BY <1>2, <1>4, <1>5, <1>7, <4>2, ZenonT(40)
      <4>5. session'[r].expires <= grant'[g].expires + SessionTTL
        BY <1>4, <1>5, <1>7, <4>1, <4>2, ZenonT(40)
      <4> QED BY <4>2, <4>3, <4>4, <4>5, <4>6, Zenon
    <3>2. CASE r # s BY <3>2, <2>g, <2>t, Zenon DEF TableInv, SessionWithinGrant
    <3> QED BY <3>1, <3>2
  <2>6. ReplaysReal' BY <1>p, <1>x, <2>t, Zenon DEF TableInv, ReplaysReal
  <2>4. CommitsAudited'
    <3>1. ASSUME NEW h \in Grants, grant'[h] # None \/ h \in gone' PROVE Issued(h)
      <4>1. grant[h] # None \/ h \in gone BY <1>p, <1>2, <1>7, <3>1, Zenon
      <4> QED BY <4>1, <2>t, Zenon DEF TableInv, CommitsAudited, Issued
    <3>2. ASSUME NEW r \in Sessions, session'[r] # None, NEW type \in LaunchTypes
          PROVE  <<type, r>> \in audited
      <4>1. CASE r = s BY <4>1, <1>3, Zenon DEF LaunchTypes
      <4>2. CASE r # s BY <4>2, <2>g, <2>t, <3>2, Zenon DEF TableInv, CommitsAudited
      <4> QED BY <4>1, <4>2
    <3> QED BY <1>p, <3>1, <3>2, Zenon DEF CommitsAudited, Issued
  <2>5. IssuedFirst'
    <3>1. Issued(g) BY <1>2, <2>t, Zenon DEF TableInv, CommitsAudited, Issued
    <3>2. ASSUME NEW r \in Sessions, session'[r] # None PROVE Issued(session'[r].grant)
      <4>1. CASE r = s BY <4>1, <1>5, <1>8, <3>1, Zenon
      <4>2. CASE r # s BY <4>2, <2>g, <2>t, <3>2, Zenon DEF TableInv, IssuedFirst
      <4> QED BY <4>1, <4>2
    <3>3. \A h : Issued(h)' <=> Issued(h) BY <1>p, Zenon DEF Issued
    <3> QED BY <1>p, <2>t, <3>2, <3>3, Zenon DEF TableInv, IssuedFirst, Issued
  <2> QED BY <2>1, <2>2, <2>3, <2>4, <2>5, <2>6, Zenon DEF TableInv
<1> QED BY <1>9, <1>10, <1>n, Zenon DEF Core

-----------------------------------------------------------------------------
(* The steps of the rest of the system *)

(* Nothing of a session changes but its status.                            *)
SessionsKept ==
    \A s \in Sessions :
        /\ session'[s] = None <=> session[s] = None
        /\ session[s] # None =>
               /\ session'[s].user = session[s].user
               /\ session'[s].cred = session[s].cred
               /\ session'[s].app = session[s].app
               /\ session'[s].grant = session[s].grant
               /\ session'[s].expires = session[s].expires

(* Stored rows that no request has locked are deleted.                     *)
Removes(G) ==
    /\ \A g \in G : grant[g] # None /\ lock[g] \notin Procs
    /\ \A g \in Grants \ G : grant'[g] = grant[g]
    /\ \A g \in Grants \cap G : grant'[g] = None
    /\ gone' = gone \cup G

(* A step outside the requests that leaves them their rows, their          *)
(* applications and, but for the status, every session.                    *)
LEMMA OutsideStep ==
    ASSUME IInv, now <= now', now' \in Nat, UNCHANGED <<delivered, audited, pc, job>>,
           \A q \in Procs : \A g \in Grants : lock[g] = q => lock'[g] = q,
           \A q \in Procs : pc[q] \in Pending => job[q].app \in apps',
           SessionsKept, NEW G, Removes(G)
    PROVE  Core'
<1>t. TypeOK BY DEF IInv
<1>p. delivered' = delivered /\ audited' = audited /\ pc' = pc /\ job' = job
  OBVIOUS
<1>r. /\ \A g \in G : grant[g] # None /\ lock[g] \notin Procs
      /\ \A g \in Grants \ G : grant'[g] = grant[g]
      /\ \A g \in Grants \cap G : grant'[g] = None
      /\ gone' = gone \cup G
  BY Zenon DEF Removes
<1>x. \A g : Spent(g)' <=> Spent(g)
  <2>1. ASSUME NEW g, NEW s \in Sessions, session[s] # None, session[s].grant = g
        PROVE  session'[s] # None /\ session'[s].grant = g
    BY <2>1, Zenon DEF SessionsKept
  <2>2. ASSUME NEW g, NEW s \in Sessions, session'[s] # None, session'[s].grant = g
        PROVE  session[s] # None /\ session[s].grant = g
    BY <2>2, Zenon DEF SessionsKept
  <2> QED BY <2>1, <2>2, Zenon DEF Spent
<1>1. ASSUME NEW q \in Procs PROVE ProcInv(q)'
  <2>i. ProcInv(q) BY Zenon DEF IInv
  <2>1. ASSUME pc[q] \in Pending
        PROVE  /\ grant'[job[q].grant] = None /\ job[q].grant \notin gone'
               /\ job[q].grant \notin delivered' /\ job[q].app \in apps'
               /\ \A r \in Procs \ {q} : job[r].grant # job[q].grant
               /\ \A s \in Sessions : session'[s] # None => session'[s].grant # job[q].grant
    <3>1. /\ job[q].grant \in Grants /\ grant[job[q].grant] = None
          /\ job[q].grant \notin gone /\ job[q].grant \notin delivered
          /\ \A r \in Procs \ {q} : job[r].grant # job[q].grant
          /\ \A s \in Sessions : session[s] # None => session[s].grant # job[q].grant
      BY <2>1, <2>i, Zenon DEF ProcInv, IssueInv
    <3>2. job[q].grant \notin G BY <1>r, <3>1
    <3>3. \A s \in Sessions : session'[s] # None => session'[s].grant # job[q].grant
      BY <3>1, Zenon DEF SessionsKept
    <3> QED BY <1>p, <1>r, <2>1, <3>1, <3>2, <3>3, Zenon
  <2>2. ASSUME pc[q] \in Consuming
        PROVE  lock'[job[q].grant] = q /\ grant'[job[q].grant] = grant[job[q].grant]
    <3>1. job[q].grant \in Grants /\ lock[job[q].grant] = q
      BY <2>2, <2>i, Holds, Zenon
    <3>2. job[q].grant \notin G BY <1>r, <3>1
    <3> QED BY <1>r, <3>1, <3>2, Zenon
  <2>3. ASSUME pc[q] \in Recording
        PROVE  /\ session'[job[q].session] = None
               /\ \A r \in Procs \ {q} : job[r].session # job[q].session
    BY <2>3, <2>i, Zenon DEF ProcInv, RecordInv, SessionsKept
  <2>4. Respects(q) BY <1>p, <1>x, <2>1, <2>2, <2>3, Zenon DEF Respects
  <2> QED BY <1>t, <2>i, <2>4, ProcKept, Zenon
<1>2. TableInv'
  <2>t. TableInv BY Zenon DEF IInv
  <2>k. ASSUME NEW h \in Grants, grant'[h] # None PROVE grant'[h] = grant[h]
    BY <1>r, <2>k, Zenon
  <2>s. ASSUME NEW s \in Sessions, session'[s] # None
        PROVE  /\ session[s] # None /\ session[s].grant \in Grants
               /\ session'[s].user = session[s].user /\ session'[s].cred = session[s].cred
               /\ session'[s].app = session[s].app /\ session'[s].grant = session[s].grant
               /\ session'[s].expires = session[s].expires
    <3>1. session[s] # None BY <2>s, Zenon DEF SessionsKept
    <3>2. session[s].grant \in Grants BY <1>t, <3>1, RowTypes, SMT DEF SessionRow
    <3> QED BY <3>1, <3>2, Zenon DEF SessionsKept
  <2>1. OneSessionPerGrant'
    <3> SUFFICES ASSUME NEW r \in Sessions, NEW s \in Sessions, session'[r] # None,
                        session'[s] # None, session'[r].grant = session'[s].grant
                 PROVE  r = s
      BY Zenon DEF OneSessionPerGrant
    <3>1. session[r] # None /\ session'[r].grant = session[r].grant BY <2>s, Zenon
    <3>2. session[s] # None /\ session'[s].grant = session[s].grant BY <2>s, Zenon
    <3> QED BY <2>t, <3>1, <3>2, Zenon DEF TableInv, OneSessionPerGrant
  <2>2. UsedIffSession' BY <1>x, <2>k, <2>t, Zenon DEF TableInv, UsedIffSession
  <2>3. SessionWithinGrant'
    <3> SUFFICES ASSUME NEW s \in Sessions, session'[s] # None,
                        grant'[session'[s].grant] # None
                 PROVE  /\ session'[s].user = grant'[session'[s].grant].user
                        /\ session'[s].cred = grant'[session'[s].grant].cred
                        /\ session'[s].app = grant'[session'[s].grant].app
                        /\ session'[s].expires <= grant'[session'[s].grant].expires + SessionTTL
      BY Zenon DEF SessionWithinGrant
    <3>1. grant'[session[s].grant] = grant[session[s].grant] /\ grant[session[s].grant] # None
      BY <2>k, <2>s, Zenon
    <3>2. /\ session[s].user = grant[session[s].grant].user
          /\ session[s].cred = grant[session[s].grant].cred
          /\ session[s].app = grant[session[s].grant].app
          /\ session[s].expires <= grant[session[s].grant].expires + SessionTTL
      BY <2>s, <2>t, <3>1, Zenon DEF TableInv, SessionWithinGrant
    <3> QED BY <2>s, <3>1, <3>2, Zenon
  <2>4. CommitsAudited'
    <3>1. ASSUME NEW g \in Grants, grant'[g] # None \/ g \in gone'
          PROVE  <<"GRANT_ISSUED", g>> \in audited
      <4>1. grant[g] # None \/ g \in gone BY <1>r, <2>k, <3>1, Zenon
      <4> QED BY <2>t, <4>1, Zenon DEF TableInv, CommitsAudited
    <3>2. ASSUME NEW s \in Sessions, session'[s] # None, NEW type \in LaunchTypes
          PROVE  <<type, s>> \in audited
      BY <2>s, <2>t, <3>2, Zenon DEF TableInv, CommitsAudited
    <3> QED BY <1>p, <3>1, <3>2, Zenon DEF CommitsAudited
  <2>5. ReplaysReal' BY <1>p, <1>x, <2>t, Zenon DEF TableInv, ReplaysReal
  <2>6. IssuedFirst'
    <3>1. ASSUME NEW s \in Sessions, session'[s] # None PROVE Issued(session'[s].grant)
      BY <2>s, <2>t, <3>1, Zenon DEF TableInv, IssuedFirst
    <3> QED BY <1>p, <2>t, <3>1, Zenon DEF TableInv, IssuedFirst, Issued
  <2> QED BY <2>1, <2>2, <2>3, <2>4, <2>5, <2>6, Zenon DEF TableInv
<1> QED BY <1>1, <1>2, Zenon DEF Core

(* Where no row is deleted and no application goes.                        *)
LEMMA StatusStep ==
    ASSUME IInv, now <= now', now' \in Nat, UNCHANGED <<delivered, audited, pc, job>>,
           apps' = apps, grant' = grant, gone' = gone, SessionsKept,
           \A q \in Procs : \A g \in Grants : lock[g] = q => lock'[g] = q
    PROVE  Core'
<1>1. Removes({}) BY Zenon DEF Removes
<1>2. \A q \in Procs : pc[q] \in Pending => job[q].app \in apps'
  BY Zenon DEF IInv, ProcInv, IssueInv
<1> QED BY <1>1, <1>2, OutsideStep, Zenon

(* A row of sessions that gets a status.                                   *)
LEMMA StatusRow ==
    ASSUME NEW row \in SessionRow, NEW status \in {"ACTIVE", "TERMINATED", "EXPIRED"}
    PROVE  LET new == [row EXCEPT !.status = status] IN
           /\ new \in SessionRow /\ new # None
           /\ new.user = row.user /\ new.cred = row.cred /\ new.app = row.app
           /\ new.grant = row.grant /\ new.expires = row.expires /\ new.status = status
<1> DEFINE new == [row EXCEPT !.status = status]
<1>1. /\ new \in SessionRow
      /\ new.user = row.user /\ new.cred = row.cred /\ new.app = row.app
      /\ new.grant = row.grant /\ new.expires = row.expires /\ new.status = status
  BY SMT DEF SessionRow
<1>2. new # None BY <1>1, RowsAssumption
<1> QED BY <1>1, <1>2, Zenon

(* Termination changes the status only.                                    *)
LEMMA TerminateKeeps ==
    ASSUME TypeOK, NEW x \in Sessions, Terminate(x)
    PROVE  SessionsKept
<1> DEFINE row == [session[x] EXCEPT !.status = "TERMINATED"]
<1>1. session[x] # None /\ session' = [session EXCEPT ![x] = row]
  BY DEF Terminate
<1>2. /\ row.user = session[x].user /\ row.cred = session[x].cred
      /\ row.app = session[x].app /\ row.grant = session[x].grant
      /\ row.expires = session[x].expires /\ row # None
  BY <1>1, RowTypes, StatusRow, Zenon
<1> HIDE DEF row
<1>3. session'[x] = row /\ \A s \in Sessions \ {x} : session'[s] = session[s]
  BY <1>1, Zenon DEF TypeOK
<1> SUFFICES ASSUME NEW s \in Sessions
             PROVE  /\ session'[s] = None <=> session[s] = None
                    /\ session[s] # None =>
                           /\ session'[s].user = session[s].user
                           /\ session'[s].cred = session[s].cred
                           /\ session'[s].app = session[s].app
                           /\ session'[s].grant = session[s].grant
                           /\ session'[s].expires = session[s].expires
  BY Zenon DEF SessionsKept
<1>4. CASE s = x BY <1>1, <1>2, <1>3, <1>4, Zenon
<1>5. CASE s # x BY <1>3, <1>5, Zenon
<1> QED BY <1>4, <1>5

(* So does the expiry of sessions.                                         *)
LEMMA ExpiryKeeps ==
    ASSUME TypeOK, SweepCommits
    PROVE  SessionsKept
<1>1. ASSUME NEW s \in Sessions, LapsedBy(s, sweep.t0)
      PROVE  /\ session[s] # None /\ session'[s] # None
             /\ session'[s].user = session[s].user
             /\ session'[s].cred = session[s].cred
             /\ session'[s].app = session[s].app
             /\ session'[s].grant = session[s].grant
             /\ session'[s].expires = session[s].expires
  <2>1. session'[s] = [session[s] EXCEPT !.status = "EXPIRED"]
    BY <1>1, Zenon DEF SweepCommits
  <2>2. session[s] # None BY <1>1, Zenon DEF LapsedBy
  <2>3. session[s] \in SessionRow BY <2>2, RowTypes, Zenon
  <2> DEFINE row == [session[s] EXCEPT !.status = "EXPIRED"]
  <2>4. /\ row # None /\ row.user = session[s].user /\ row.cred = session[s].cred
        /\ row.app = session[s].app /\ row.grant = session[s].grant
        /\ row.expires = session[s].expires
    BY <2>3, StatusRow, Zenon
  <2> HIDE DEF row
  <2>5. session'[s] = row BY <2>1, Zenon DEF row
  <2> QED BY <2>2, <2>4, <2>5, Zenon
<1>2. ASSUME NEW s \in Sessions, ~LapsedBy(s, sweep.t0) PROVE session'[s] = session[s]
  BY <1>2, Zenon DEF SweepCommits
<1> QED BY <1>1, <1>2, Zenon DEF SessionsKept

(* What the janitor's transaction leaves as it is for the requests.        *)
LEMMA SweepStep ==
    ASSUME IInv, Sweeps
    PROVE  Core'
<1>t. TypeOK BY DEF IInv
<1>j. Janitor \notin Procs /\ None \notin Procs BY Zenon, GrantsAssumption
<1>n. now \in Nat /\ \A n \in Nat : n <= n BY <1>t, SMT DEF TypeOK
<1>s. session' = session => SessionsKept BY Zenon DEF SessionsKept
<1>1. CASE SweepBegins
  <2>1. /\ UNCHANGED <<now, delivered, audited, pc, job, apps, grant, gone, lock>>
        /\ session' = session
    BY <1>1, Zenon DEF SweepBegins, Tables, Requests
  <2> QED BY <1>n, <1>s, <2>1, StatusStep, Zenon
<1>2. ASSUME NEW g \in Grants, SweepLocks(g) PROVE Core'
  <2>1. /\ UNCHANGED <<now, delivered, audited, pc, job, apps, grant, gone>>
        /\ session' = session
    BY <1>2, Zenon DEF SweepLocks, Requests
  <2>2. \A q \in Procs : \A h \in Grants : lock[h] = q => lock'[h] = q
    BY <1>2, <1>t, <1>j, Zenon DEF SweepLocks, RowFree, TypeOK
  <2> QED BY <1>n, <1>s, <2>1, <2>2, StatusStep, Zenon
<1>e. SweepEnds => \A q \in Procs : \A h \in Grants : lock[h] = q => lock'[h] = q
  BY <1>j, Zenon DEF SweepEnds
<1>3. CASE SweepFails
  <2>1. /\ UNCHANGED <<now, delivered, audited, pc, job, apps, grant, gone>>
        /\ session' = session /\ SweepEnds
    BY <1>3, Zenon DEF SweepFails, Requests
  <2> QED BY <1>e, <1>n, <1>s, <2>1, StatusStep, Zenon
<1>4. CASE SweepCommits
  <2>1. UNCHANGED <<now, delivered, audited, pc, job>> /\ apps' = apps /\ SweepEnds
    BY <1>4, Zenon DEF SweepCommits, Requests
  <2>2. Removes(Swept)
    <3>1. \A g \in Swept : g \in Grants /\ lock[g] = Janitor BY Zenon DEF Swept
    <3>2. \A g \in Swept : grant[g] # None
      BY <3>1, Zenon DEF IInv, SweepInv, DoomedBy
    <3>3. Remove(Swept) BY <1>4 DEF SweepCommits
    <3> QED BY <1>j, <3>1, <3>2, <3>3, Zenon DEF Remove, Removes
  <2>3. SessionsKept BY <1>t, <1>4, ExpiryKeeps
  <2>4. \A q \in Procs : pc[q] \in Pending => job[q].app \in apps'
    BY <2>1, Zenon DEF IInv, ProcInv, IssueInv
  <2> QED BY <1>e, <1>n, <2>1, <2>2, <2>3, <2>4, OutsideStep, Zenon
<1> QED BY <1>1, <1>2, <1>3, <1>4, Zenon DEF Sweeps

(* An application goes with grants that nobody has locked, and not while   *)
(* one of its is being minted.                                             *)
LEMMA DeleteApplicationStep ==
    ASSUME IInv, NEW a \in Apps, DeleteApplication(a)
    PROVE  Core'
<1>t. TypeOK BY DEF IInv
<1>n. now \in Nat /\ \A n \in Nat : n <= n BY <1>t, SMT DEF TypeOK
<1>1. /\ UNCHANGED <<now, delivered, audited, pc, job, lock>>
      /\ session' = session
  BY Zenon DEF DeleteApplication, Requests
<1>2. Removes(OfApp(a))
  <2>1. \A g \in OfApp(a) : g \in Grants /\ grant[g] # None BY Zenon DEF OfApp
  <2>2. \A g \in OfApp(a) : lock[g] = None BY Zenon DEF DeleteApplication, RowFree
  <2>3. Remove(OfApp(a)) BY DEF DeleteApplication
  <2> QED BY <2>1, <2>2, <2>3, GrantsAssumption, Zenon DEF Remove, Removes
<1>3. ASSUME NEW q \in Procs, pc[q] \in Pending PROVE job[q].app \in apps'
  <2>1. job[q].app \in apps BY <1>3, Zenon DEF IInv, ProcInv, IssueInv
  <2>2. job[q].app # a /\ apps' = apps \ {a} BY <1>3, Zenon DEF DeleteApplication
  <2> QED BY <2>1, <2>2, Zenon
<1>4. SessionsKept BY <1>1, Zenon DEF SessionsKept
<1>5. \A q \in Procs : \A g \in Grants : lock[g] = q => lock'[g] = q BY <1>1, Zenon
<1> QED BY <1>n, <1>1, <1>2, <1>3, <1>4, <1>5, OutsideStep, Zenon

-----------------------------------------------------------------------------
(* The janitor's transaction *)

(* What others do leaves the janitor its locks, and leaves the rows it is  *)
(* to delete as they are or deletes them before it has locked them.        *)
LEMMA SweepAside ==
    ASSUME IInv, sweep' = sweep, now <= now', now' \in Nat,
           \A g \in Grants : lock'[g] = Janitor => lock[g] = Janitor,
           \A g \in Grants : grant[g] # None =>
               \/ grant'[g] # None /\ grant'[g].expires = grant[g].expires
               \/ Lost(g)' /\ lock[g] # Janitor,
           \A g \in Grants : Lost(g) => Lost(g)'
    PROVE  SweepInv'
<1>t. TypeOK /\ SweepInv BY DEF IInv
<1>1. ASSUME NEW g \in Grants, NEW t \in Nat, DoomedBy(g, t)
      PROVE  DoomedBy(g, t)' \/ (Lost(g)' /\ lock[g] # Janitor)
  BY <1>1, Zenon DEF DoomedBy
<1>2. ASSUME sweep' # None
      PROVE  /\ sweep'.t0 = sweep.t0 /\ sweep'.todo = sweep.todo /\ sweep # None
             /\ sweep.t0 \in Nat /\ sweep.todo \subseteq Grants
  BY <1>t, <1>2, SMT DEF TypeOK, Sweep
<1>3. ASSUME sweep' # None PROVE sweep'.t0 <= now'
  <2>1. sweep.t0 <= now /\ sweep.t0 \in Nat /\ now \in Nat
    BY <1>t, <1>2, <1>3, Zenon DEF SweepInv, TypeOK
  <2>2. sweep.t0 <= now' BY <2>1, SMT
  <2> QED BY <1>2, <1>3, <2>2, Zenon
<1>4. ASSUME sweep' # None, NEW g \in sweep'.todo
      PROVE  Lost(g)' \/ DoomedBy(g, sweep.t0)'
  <2>1. g \in sweep.todo /\ g \in Grants BY <1>2, <1>4, Zenon
  <2>2. Lost(g) \/ DoomedBy(g, sweep.t0) BY <1>t, <1>2, <1>4, <2>1, Zenon DEF SweepInv
  <2>3. DoomedBy(g, sweep.t0) => DoomedBy(g, sweep.t0)' \/ Lost(g)'
    BY <1>1, <1>2, <1>4, <2>1, Zenon DEF DoomedBy
  <2> QED BY <2>1, <2>2, <2>3, Zenon
<1>5. ASSUME NEW g \in Grants, lock'[g] = Janitor
      PROVE  sweep' # None /\ DoomedBy(g, sweep.t0)'
  <2>1. lock[g] = Janitor /\ sweep # None /\ DoomedBy(g, sweep.t0)
    BY <1>t, <1>5, Zenon DEF SweepInv
  <2> QED BY <2>1, Zenon DEF DoomedBy
<1> QED BY <1>3, <1>4, <1>5, Zenon DEF SweepInv, DoomedBy

(* Ending, a request gives no lock to the janitor.                         *)
LEMMA EndLocks ==
    ASSUME NEW p \in Procs, End(p)
    PROVE  \A g \in Grants : lock'[g] = Janitor => lock[g] = Janitor
BY GrantsAssumption, Zenon DEF End

(* A request changes no row of launch_grants but used_at and its own new   *)
(* one, and takes no lock from the janitor.                                *)
LEMMA RequestRows ==
    ASSUME IInv, NEW p \in Procs, Arrive(p) \/ Waits(p) \/ Work(p) \/ Fail(p)
    PROVE  /\ sweep' = sweep /\ now' = now /\ gone' = gone
           /\ \A g \in Grants : lock'[g] = Janitor => lock[g] = Janitor
           /\ \A g \in Grants : grant[g] # None =>
                  grant'[g] # None /\ grant'[g].expires = grant[g].expires
           /\ \A g \in Grants : Lost(g) => Lost(g)'
<1> DEFINE Rows == \A g \in Grants :
                       /\ grant[g] # None =>
                              grant'[g] # None /\ grant'[g].expires = grant[g].expires
                       /\ g \in gone /\ grant[g] = None => grant'[g] = None
           Frame == sweep' = sweep /\ now' = now /\ gone' = gone
           Locks == \A g \in Grants : lock'[g] = Janitor => lock[g] = Janitor
<1>t. TypeOK BY DEF IInv
<1>e. End(p) => Frame /\ Locks
  <2>1. End(p) => Frame BY Zenon DEF End
  <2> QED BY <2>1, EndLocks, Zenon
<1>s. grant' = grant => Rows BY Zenon
<1>l. lock' = lock => Locks BY Zenon
<1>1. Arrive(p) => Frame /\ Locks /\ Rows
  BY <1>s, <1>l, Zenon DEF Arrive, RequestIssue, RequestConsume, Begin, Globals, Tables
<1>2. Fail(p) \/ Refuse(p) \/ MintInVain(p) => Frame /\ Locks /\ Rows
  BY <1>e, <1>s, Zenon DEF Fail, Refuse, MintInVain
<1>3. Waits(p) => Frame /\ Locks /\ Rows
  <2>1. ASSUME Present(p) PROVE Frame /\ Locks /\ Rows
    <3>1. Frame /\ grant' = grant BY <2>1, Zenon DEF Present, Globals
    <3>2. lock' = lock \/ lock' = [lock EXCEPT ![job[p].grant] = p]
      BY <2>1, Zenon DEF Present
    <3>3. p # Janitor BY GrantsAssumption, Zenon
    <3>4. Locks BY <1>t, <3>2, <3>3, Zenon DEF TypeOK
    <3> QED BY <1>s, <3>1, <3>4, Zenon
  <2>2. TouchCredential(p) => Frame /\ lock' = lock /\ grant' = grant
    BY Zenon DEF TouchCredential, Globals, Tables
  <2> QED BY <1>s, <1>l, <2>1, <2>2, Zenon DEF Waits
<1>4. CommitGrant(p) => Frame /\ Locks /\ Rows
  <2> SUFFICES ASSUME CommitGrant(p) PROVE Frame /\ Locks /\ Rows OBVIOUS
  <2>1. /\ pc[p] = "commitGrant" /\ End(p)
        /\ grant' = [grant EXCEPT ![job[p].grant] = MintedRow(p)]
    BY Zenon DEF CommitGrant
  <2>2. pc[p] \in Pending BY <2>1, SMT DEF Pending
  <2>3. grant[job[p].grant] = None /\ job[p].grant \notin gone
    BY <2>2, Zenon DEF IInv, ProcInv, IssueInv
  <2>4. Rows
    <3> SUFFICES ASSUME NEW g \in Grants, grant[g] # None \/ g \in gone
                 PROVE  grant'[g] = grant[g]
      OBVIOUS
    <3>1. g # job[p].grant BY <2>3, Zenon
    <3> HIDE DEF Rows
    <3> QED BY <1>t, <2>1, <3>1, Zenon DEF TypeOK
  <2> QED BY <1>e, <2>1, <2>4, Zenon
<1>5. CommitSession(p) => Frame /\ Locks /\ Rows
  <2> SUFFICES ASSUME CommitSession(p) PROVE Frame /\ Locks /\ Rows OBVIOUS
  <2> DEFINE h == job[p].grant
  <2>1. /\ pc[p] = "commitSession" /\ End(p)
        /\ grant' = [grant EXCEPT ![h].used = job[p].marked]
    BY Zenon DEF CommitSession
  <2>2. pc[p] \in Consuming BY <2>1, SMT DEF Consuming, Touched
  <2>3. h \in Grants /\ grant[h] # None BY <2>2, Holds, Zenon DEF IInv
  <2>r. grant[h] \in GrantRow BY <1>t, <2>3, RowTypes, Zenon
  <2>5. job[p].marked \in BOOLEAN BY <1>t, SMT DEF TypeOK, Job
  <2> DEFINE row == [grant[h] EXCEPT !.used = job[p].marked]
  <2>6. row \in GrantRow /\ row.expires = grant[h].expires BY <2>r, <2>5, SMT DEF GrantRow
  <2>7. row # None BY <2>6, RowsAssumption, Zenon
  <2>8. grant'[h] = row /\ \A g \in Grants \ {h} : grant'[g] = grant[g]
    <3> HIDE DEF h
    <3> QED BY <1>t, <2>1, <2>3, Zenon DEF TypeOK
  <2> HIDE DEF row, h
  <2>9. Rows BY <2>3, <2>6, <2>7, <2>8, Zenon
  <2> QED BY <1>e, <2>1, <2>9, Zenon
<1>6. Work(p) => Frame /\ Locks /\ Rows
  <2>1. /\ CheckVisible(p) => Frame /\ lock' = lock /\ grant' = grant
        /\ CheckEntitled(p) => Frame /\ lock' = lock /\ grant' = grant
        /\ DenyIssue(p) \/ DenyConsume(p) => Frame /\ lock' = lock /\ grant' = grant
        /\ Mint(p) \/ AuditGrant(p) => Frame /\ lock' = lock /\ grant' = grant
    BY Zenon DEF CheckVisible, CheckEntitled, DenyIssue, DenyConsume, Deny, Mint,
       AuditGrant, Globals, Tables
  <2>2. /\ MarkUsed(p) => Frame /\ lock' = lock /\ grant' = grant
        /\ Perform(p) \/ RecordSession(p) => Frame /\ lock' = lock /\ grant' = grant
        /\ AuditConsume(p) => Frame /\ lock' = lock /\ grant' = grant
    BY Zenon DEF MarkUsed, Perform, RecordSession, AuditConsume, AuditStep, Globals, Tables
  <2>3. CheckCapacity(p) \/ Unseal(p) =>
            grant' = grant /\ (End(p) \/ (Frame /\ lock' = lock))
    BY Zenon DEF CheckCapacity, Unseal, Globals, Tables
  <2> HIDE DEF Rows, Frame, Locks
  <2>4. CheckCapacity(p) \/ Unseal(p) => Frame /\ Locks /\ Rows BY <1>e, <1>s, <1>l, <2>3, Zenon
  <2> QED BY <1>2, <1>4, <1>5, <1>s, <1>l, <2>1, <2>2, <2>4, Zenon DEF Work
<1> QED BY <1>1, <1>2, <1>3, <1>6, Zenon DEF Lost

(* What the janitor holds and looks for stays doomed.                      *)
LEMMA SweepKept == IInv /\ [Next]_vars => SweepInv'
<1> SUFFICES ASSUME IInv, [Next]_vars PROVE SweepInv' OBVIOUS
<1>t. TypeOK /\ SweepInv BY DEF IInv
<1>n. now \in Nat /\ \A n \in Nat : n <= n BY <1>t, SMT DEF TypeOK
<1>1. ASSUME NEW p \in Procs, Arrive(p) \/ Waits(p) \/ Work(p) \/ Fail(p) PROVE SweepInv'
  BY <1>n, <1>1, RequestRows, SweepAside, Zenon
<1>2. CASE Tick
  <2>1. now' = now + 1 /\ sweep' = sweep /\ gone' = gone /\ lock' = lock /\ grant' = grant
    BY <1>2, Zenon DEF Tick, Tables
  <2>2. now <= now' /\ now' \in Nat BY <1>n, <2>1, SMT
  <2> QED BY <2>1, <2>2, SweepAside, Zenon DEF Lost
<1>3. ASSUME \/ \E c \in Creds : DeleteCredential(c)
             \/ \E s \in Sessions : Terminate(s)
             \/ UNCHANGED vars
      PROVE  SweepInv'
  <2>1. now' = now /\ sweep' = sweep /\ gone' = gone /\ lock' = lock /\ grant' = grant
    BY <1>3, Zenon DEF DeleteCredential, Terminate, Globals, Tables, vars
  <2> QED BY <1>n, <2>1, SweepAside, Zenon DEF Lost
<1>4. ASSUME NEW a \in Apps, DeleteApplication(a) PROVE SweepInv'
  <2>1. now' = now /\ sweep' = sweep /\ lock' = lock /\ Remove(OfApp(a))
    BY <1>4, Zenon DEF DeleteApplication
  <2>2. \A g \in Grants : Lost(g) => Lost(g)' BY <2>1, Zenon DEF Remove, Lost
  <2>3. ASSUME NEW g \in Grants, grant[g] # None
        PROVE  \/ grant'[g] # None /\ grant'[g].expires = grant[g].expires
               \/ Lost(g)' /\ lock[g] # Janitor
    <3>1. CASE g \in OfApp(a)
      <4>1. lock[g] = None BY <1>4, <3>1, Zenon DEF DeleteApplication, RowFree
      <4> QED BY <2>1, <3>1, <4>1, GrantsAssumption, Zenon DEF Remove, Lost
    <3>2. CASE g \notin OfApp(a) BY <2>1, <2>3, <3>2, Zenon DEF Remove
    <3> QED BY <3>1, <3>2
  <2> QED BY <1>n, <2>1, <2>2, <2>3, SweepAside, Zenon
<1>5. CASE SweepBegins
  <2>1. /\ now' = now /\ gone' = gone /\ lock' = lock /\ grant' = grant /\ sweep = None
        /\ sweep' = [t0 |-> now, todo |-> {g \in Grants : Doomed(g)}]
    BY <1>5, Zenon DEF SweepBegins, Tables
  <2>2. \A g \in Grants : lock[g] # Janitor BY <1>t, <2>1, Zenon DEF SweepInv
  <2>3. sweep'.t0 = now /\ sweep'.todo = {g \in Grants : Doomed(g)} BY <2>1, SMT
  <2> QED BY <1>n, <2>1, <2>2, <2>3, Zenon DEF SweepInv, Doomed, DoomedBy, Lost
<1>6. ASSUME NEW g \in Grants, SweepLocks(g) PROVE SweepInv'
  <2>1. /\ now' = now /\ gone' = gone /\ grant' = grant
        /\ sweep # None /\ g \in sweep.todo
        /\ sweep' = [sweep EXCEPT !.todo = @ \ {g}]
        /\ \/ grant[g] = None /\ lock' = lock
           \/ grant[g] # None /\ lock' = [lock EXCEPT ![g] = Janitor]
    BY <1>6, Zenon DEF SweepLocks
  <2>2. /\ sweep \in Sweep /\ sweep.t0 <= now
        /\ \A h \in sweep.todo : Lost(h) \/ DoomedBy(h, sweep.t0)
    BY <1>t, <2>1, Zenon DEF SweepInv, TypeOK
  <2>3. sweep' \in Sweep /\ sweep'.t0 = sweep.t0 /\ sweep'.todo = sweep.todo \ {g}
    BY <2>1, <2>2, SMT DEF Sweep
  <2>4. sweep' # None BY <2>3, SweepAssumption, Zenon
  <2>5. \A h \in Grants : lock[h] = Janitor => DoomedBy(h, sweep.t0)
    BY <1>t, Zenon DEF SweepInv
  <2>6. grant[g] # None => DoomedBy(g, sweep.t0) BY <2>1, <2>2, Zenon DEF Lost
  <2>7. \A h \in Grants : lock'[h] = Janitor => DoomedBy(h, sweep.t0)
    BY <1>t, <2>1, <2>5, <2>6, Zenon DEF TypeOK
  <2>8. \A h \in Grants : DoomedBy(h, sweep.t0)' <=> DoomedBy(h, sweep.t0)
    BY <2>1, <2>3, Zenon DEF DoomedBy
  <2> QED BY <2>1, <2>2, <2>3, <2>4, <2>7, <2>8, Zenon DEF SweepInv, DoomedBy, Lost
<1>7. ASSUME SweepCommits \/ SweepFails PROVE SweepInv'
  <2>1. sweep' = None /\ \A g \in Grants : lock'[g] # Janitor
    BY <1>7, GrantsAssumption, Zenon DEF SweepCommits, SweepFails, SweepEnds
  <2> QED BY <2>1, Zenon DEF SweepInv
<1> QED BY <1>1, <1>2, <1>3, <1>4, <1>5, <1>6, <1>7, Zenon DEF Next, Sweeps

-----------------------------------------------------------------------------
(* The invariant is inductive *)

(* The empty system satisfies the invariant.                               *)
LEMMA InitIInv == Init => IInv
<1> SUFFICES ASSUME Init PROVE IInv OBVIOUS
<1>0. /\ NoJob.via = None /\ NoJob.user = None /\ NoJob.grant = None
      /\ NoJob.session = None /\ NoJob.t0 = 0
  BY SMT DEF NoJob, NewJob
<1>1. TypeOK
  <2>1. job \in [Procs -> Job] BY NoJobType, Zenon DEF Init
  <2>2. pc \in [Procs -> Phases] BY SMT DEF Init, Phases, Refusing
  <2>3. performed \in [Grants -> 0 .. Many] BY SMT DEF Init, Many
  <2> QED BY <2>1, <2>2, <2>3, SMT DEF Init, TypeOK
<1>2. ASSUME NEW p \in Procs PROVE ProcInv(p)
  <2>1. pc[p] = "idle" /\ job[p] = NoJob /\ now = 0 BY Zenon DEF Init
  <2>2. job[p].t0 <= now BY <1>0, <2>1, SMT
  <2>3. IssueInv(p) BY <2>1, SMT DEF IssueInv, Issuing, Pending
  <2>4. ConsumeInv(p) BY <2>1, SMT DEF ConsumeInv, Consuming, Touched
  <2>5. RecordInv(p) BY <2>1, SMT DEF RecordInv, Recording
  <2>6. RefusalInv(p) BY <2>1, SMT DEF RefusalInv, Refusing
  <2> QED BY <2>2, <2>3, <2>4, <2>5, <2>6, Zenon DEF ProcInv
<1>3. TableInv
  <2>1. /\ \A g \in Grants : grant[g] = None
        /\ \A s \in Sessions : session[s] = None
        /\ gone = {} /\ delivered = {} /\ audited = {}
    BY Zenon DEF Init
  <2> QED BY <2>1, Zenon DEF TableInv, OneSessionPerGrant, UsedIffSession, Spent,
             SessionWithinGrant, CommitsAudited, ReplaysReal, IssuedFirst
<1>4. SweepInv
  <2>1. sweep = None /\ \A g \in Grants : lock[g] = None BY Zenon DEF Init
  <2> QED BY <2>1, GrantsAssumption, Zenon DEF SweepInv
<1> QED BY <1>1, <1>2, <1>3, <1>4, Zenon DEF IInv

(* Every step preserves the invariant.                                     *)
LEMMA StepIInv == IInv /\ [Next]_vars => IInv'
<1> SUFFICES ASSUME IInv, [Next]_vars PROVE Core'
  BY TypeStep, SweepKept, Zenon DEF IInv, Core
<1>t. TypeOK BY DEF IInv
<1>n. now \in Nat /\ \A n \in Nat : n <= n BY <1>t, SMT DEF TypeOK
<1>s. session' = session => SessionsKept BY Zenon DEF SessionsKept
<1>1. ASSUME NEW p \in Procs, Arrive(p) PROVE Core'
  <2>1. ASSUME NEW u \in Users, NEW c \in Creds, NEW a \in Apps, NEW route \in Routes,
               RequestIssue(p, u, c, a, route)
        PROVE  Core'
    <3>1. route # "consume" BY <2>1, SMT DEF RequestIssue
    <3>2. "visible" # "present" BY SMT
    <3>3. Begin(p, "visible", route, u, c, a, None) BY <2>1 DEF RequestIssue
    <3> QED BY <3>1, <3>2, <3>3, BeginStep, Zenon
  <2>2. ASSUME NEW u \in Users, NEW g \in Grants, RequestConsume(p, u, g) PROVE Core'
    <3>1. "consume" \in Routes BY DEF Routes
    <3>2. "visible" # "present" BY SMT
    <3>3. g \in delivered /\ Begin(p, "present", "consume", u, None, None, g)
      BY <2>2 DEF RequestConsume
    <3> QED BY <3>1, <3>2, <3>3, BeginStep, Zenon
  <2> QED BY <1>1, <2>1, <2>2, Zenon DEF Arrive
<1>2. ASSUME NEW p \in Procs, Refuse(p) \/ Fail(p) PROVE Core'
  BY <1>2, EndStep, Zenon DEF Refuse, Fail
<1>d. ASSUME NEW p \in Procs, DenyConsume(p) PROVE Core'
  BY <1>d, DenyStep, Zenon DEF DenyConsume
<1>3. ASSUME NEW p \in Procs, Work(p) PROVE Core'
  BY <1>2, <1>d, <1>3, IssueChecks, MintStep, AuditGrantStep, CommitGrantStep, MarkStep,
     UnsealStep, PerformStep, RecordStep, AuditConsumeStep, CommitSessionStep, Zenon
     DEF Work
<1>4. CASE Tick
  <2>1. now' = now + 1 BY <1>4 DEF Tick
  <2>2. now <= now' /\ now' \in Nat BY <1>n, <2>1, SMT
  <2>3. /\ UNCHANGED <<delivered, audited, lock, pc, job, apps, gone, grant>>
        /\ session' = session
    BY <1>4, Zenon DEF Tick, Tables, Requests
  <2> QED BY <1>s, <2>2, <2>3, StatusStep, Zenon
<1>5. ASSUME (\E c \in Creds : DeleteCredential(c)) \/ UNCHANGED vars PROVE Core'
  <2>1. /\ UNCHANGED <<delivered, audited, lock, pc, job, apps, gone, grant, now>>
        /\ session' = session
    BY <1>5, Zenon DEF DeleteCredential, Tables, Requests, vars
  <2> QED BY <1>n, <1>s, <2>1, StatusStep, Zenon
<1>6. ASSUME NEW s \in Sessions, Terminate(s) PROVE Core'
  <2>1. UNCHANGED <<delivered, audited, lock, pc, job, apps, gone, grant, now>>
    BY <1>6, Zenon DEF Terminate, Globals, Requests
  <2>2. SessionsKept BY <1>t, <1>6, TerminateKeeps
  <2> QED BY <1>n, <2>1, <2>2, StatusStep, Zenon
<1>7. ASSUME NEW p \in Procs, Arrive(p) \/ Waits(p) \/ Work(p) \/ Fail(p) PROVE Core'
  BY <1>7, <1>1, <1>2, <1>3, PresentStep, TouchStep, Zenon DEF Waits
<1> QED BY <1>4, <1>5, <1>6, <1>7, DeleteApplicationStep, SweepStep, Zenon DEF Next

(* Every reachable state satisfies the inductive invariant.                *)
THEOREM Invariance == Spec => []IInv
<1>1. Init => IInv BY InitIInv
<1>2. IInv /\ [Next]_vars => IInv' BY StepIInv
<1> QED BY <1>1, <1>2, PTL DEF Spec

(* Every variable always holds a value of its kind.                        *)
THEOREM TypeCorrect == Spec => []TypeOK
<1>1. IInv => TypeOK BY DEF IInv
<1> QED BY <1>1, Invariance, PTL

(* However requests interleave, fail and retry, a grant backs at most one  *)
(* session.                                                                *)
THEOREM SingleUse == Spec => []OneSessionPerGrant
<1>1. IInv => OneSessionPerGrant BY Zenon DEF IInv, TableInv
<1> QED BY <1>1, Invariance, PTL

(* A grant in the table is used exactly when a session came of it.         *)
THEOREM UsedMeansSession == Spec => []UsedIffSession
<1>1. IInv => UsedIffSession BY Zenon DEF IInv, TableInv
<1> QED BY <1>1, Invariance, PTL

(* A session stays within what its grant allowed: user, credential, time.  *)
THEOREM GrantBounds == Spec => []SessionWithinGrant
<1>1. IInv => SessionWithinGrant BY Zenon DEF IInv, TableInv
<1> QED BY <1>1, Invariance, PTL

(* No grant and no session is ever missing from the audit log, an audited  *)
(* refusal is in it before the request is rolled back, and a replay it     *)
(* speaks of was one.                                                      *)
THEOREM AuditComplete == Spec => []AuditTrail
<1>1. IInv => AuditTrail
  <2> SUFFICES ASSUME IInv PROVE AuditTrail OBVIOUS
  <2>1. "refuse" \in Refusing BY SMT DEF Refusing
  <2>2. RefusalsAudited
    BY <2>1, Zenon DEF IInv, ProcInv, RefusalInv, RefusalsAudited
  <2> QED BY <2>2, Zenon DEF IInv, TableInv, AuditTrail
<1> QED BY <1>1, Invariance, PTL

(* A secret is handed out only for an unused grant that no other request   *)
(* is consuming at that moment.                                            *)
THEOREM NoReplay == Spec => UsedNeverPerformed
<1> DEFINE Step == \A p \in Procs : Perform(p) =>
               LET g == job[p].grant IN
               /\ grant[g] # None /\ ~grant[g].used
               /\ \A q \in Procs \ {p} : pc[q] \in Consuming => job[q].grant # g
<1>1. IInv => Step
  <2> SUFFICES ASSUME IInv, NEW p \in Procs, Perform(p)
               PROVE  /\ grant[job[p].grant] # None /\ ~grant[job[p].grant].used
                      /\ \A q \in Procs \ {p} :
                            pc[q] \in Consuming => job[q].grant # job[p].grant
    BY Zenon
  <2>1. pc[p] \in Consuming BY SMT DEF Perform, Consuming, Touched
  <2>2. ProcInv(p) BY Zenon DEF IInv
  <2> QED BY <2>1, <2>2, Holds, Distinct, Zenon
<1>2. IInv /\ [Next]_vars => [Step]_vars BY <1>1
<1> QED BY <1>2, Invariance, PTL DEF Spec, UsedNeverPerformed

(* A session that was terminated has no other status again: a sweep that   *)
(* read the table before leaves it, and no request that commits, however   *)
(* it overlaps the termination, records its session over it.               *)
THEOREM TerminationFinal == Spec => TerminatedIsFinal
<1> DEFINE Kept(s) == session[s] # None /\ session[s].status = "TERMINATED" =>
                          session'[s] # None /\ session'[s].status = "TERMINATED"
<1>1. ASSUME IInv, [Next]_vars, NEW s \in Sessions PROVE Kept(s)
  <2>t. session \in [Sessions -> SessionRow \cup {None}] BY <1>1, Zenon DEF IInv, TypeOK
  <2>1. ASSUME session' = session PROVE Kept(s) BY <2>1
  <2>2. ASSUME NEW p \in Procs, CommitSession(p) PROVE Kept(s)
    <3>1. /\ pc[p] = "commitSession"
          /\ session' = [session EXCEPT ![job[p].session] = NewSession(p)]
      BY <2>2, Zenon DEF CommitSession
    <3>2. session[job[p].session] = None
      <4>1. pc[p] \in Recording BY <3>1 DEF Recording
      <4>2. ProcInv(p) BY <1>1, Zenon DEF IInv
      <4> QED BY <4>1, <4>2, Zenon DEF ProcInv, RecordInv
    <3> QED BY <2>t, <3>1, <3>2, Zenon
  <2>3. ASSUME NEW x \in Sessions, Terminate(x) PROVE Kept(s)
    <3> DEFINE row == [session[x] EXCEPT !.status = "TERMINATED"]
    <3>1. session[x] # None /\ session' = [session EXCEPT ![x] = row]
      BY <2>3 DEF Terminate
    <3>2. session[x] \in SessionRow BY <2>t, <3>1, Zenon
    <3>3. row # None /\ row.status = "TERMINATED" BY <3>2, StatusRow, Zenon
    <3> HIDE DEF row
    <3> QED BY <2>t, <3>1, <3>3, Zenon
  <2>4. CASE SweepCommits
    <3>1. session'[s] = IF LapsedBy(s, sweep.t0) THEN [session[s] EXCEPT !.status = "EXPIRED"]
                                                 ELSE session[s]
      BY <2>4, Zenon DEF SweepCommits
    <3>2. session[s].status = "TERMINATED" => ~LapsedBy(s, sweep.t0) BY SMT DEF LapsedBy
    <3> QED BY <3>1, <3>2, Zenon
  <2>5. ASSUME NEW p \in Procs, Arrive(p) \/ Waits(p) \/ Work(p) \/ Fail(p)
        PROVE  session' = session \/ CommitSession(p)
    <3>1. Arrive(p) => session' = session
      BY Zenon DEF Arrive, RequestIssue, RequestConsume, Begin, Tables
    <3>2. Waits(p) \/ Fail(p) => session' = session
      BY Zenon DEF Waits, Present, TouchCredential, Fail, Tables
    <3>3. /\ CheckVisible(p) \/ CheckEntitled(p) => session' = session
          /\ DenyIssue(p) \/ CheckCapacity(p) => session' = session
          /\ Mint(p) \/ MintInVain(p) => session' = session
          /\ AuditGrant(p) \/ CommitGrant(p) => session' = session
      BY Zenon DEF CheckVisible, CheckEntitled, DenyIssue, Deny, CheckCapacity, Mint,
                   MintInVain, AuditGrant, CommitGrant, Tables
    <3>4. /\ Refuse(p) \/ DenyConsume(p) => session' = session
          /\ MarkUsed(p) \/ Unseal(p) => session' = session
          /\ Perform(p) \/ RecordSession(p) \/ AuditConsume(p) => session' = session
      BY Zenon DEF Refuse, DenyConsume, Deny, MarkUsed, Unseal, Perform, RecordSession,
                   AuditConsume, AuditStep, Tables
    <3> QED BY <2>5, <3>1, <3>2, <3>3, <3>4, Zenon DEF Work
  <2>6. /\ Tick => session' = session
        /\ \A c \in Creds : DeleteCredential(c) => session' = session
        /\ \A a \in Apps : DeleteApplication(a) => session' = session
        /\ SweepBegins \/ SweepFails => session' = session
        /\ \A g \in Grants : SweepLocks(g) => session' = session
        /\ UNCHANGED vars => session' = session
    BY Zenon DEF Tick, DeleteCredential, DeleteApplication, SweepBegins, SweepFails,
                 SweepLocks, Tables, vars
  <2> HIDE DEF Kept
  <2> QED BY <1>1, <2>1, <2>2, <2>3, <2>4, <2>5, <2>6, Zenon DEF Next, Sweeps
<1>2. IInv /\ [Next]_vars => [\A s \in Sessions : Kept(s)]_vars BY <1>1
<1> QED BY <1>2, Invariance, PTL DEF Spec, TerminatedIsFinal

-----------------------------------------------------------------------------
(* The refinement *)

(* A request that records a session has handed the secret out.             *)
Driven(p) == pc[p] \in {"record"} \cup Recording => performed[job[p].grant] > 0

RInv == IInv /\ \A p \in Procs : Driven(p)

(* A step of p that takes back nothing that was handed out.                *)
LEMMA DrivenKept ==
    ASSUME RInv, NEW p \in Procs,
           NEW phase, NEW j,
           pc' = [pc EXCEPT ![p] = phase], job' = [job EXCEPT ![p] = j],
           \A g \in Grants : performed[g] > 0 => performed'[g] > 0,
           phase \in {"record"} \cup Recording => performed'[j.grant] > 0
    PROVE  \A q \in Procs : Driven(q)'
<1> SUFFICES ASSUME NEW q \in Procs PROVE Driven(q)' OBVIOUS
<1>t. TypeOK /\ ProcInv(q) /\ Driven(q) BY Zenon DEF RInv, IInv
<1>1. CASE q = p
  <2>1. pc'[p] = phase /\ job'[p] = j BY <1>t, Zenon DEF TypeOK
  <2> QED BY <1>1, <2>1, Zenon DEF Driven
<1>2. CASE q # p
  <2>1. pc'[q] = pc[q] /\ job'[q] = job[q] BY <1>t, <1>2, Zenon DEF TypeOK
  <2>2. pc[q] \in {"record"} \cup Recording => job[q].grant \in Grants
    <3>1. {"record"} \cup Recording \subseteq Consuming BY SMT DEF Recording, Consuming, Touched
    <3> QED BY <1>t, <3>1, Holds, Zenon
  <2> QED BY <1>t, <2>1, <2>2, Zenon DEF Driven
<1> QED BY <1>1, <1>2

LEMMA DrivenWork ==
    ASSUME RInv, NEW p \in Procs, Arrive(p) \/ Waits(p) \/ Work(p) \/ Fail(p)
    PROVE  \A q \in Procs : Driven(q)'
<1>t. TypeOK /\ (\A q \in Procs : Driven(q)) /\ ProcInv(p) BY Zenon DEF RInv, IInv
<1> DEFINE Drives == {"record"} \cup Recording
<1>0. job = [job EXCEPT ![p] = job[p]] BY <1>t, Zenon DEF TypeOK
<1>1. ASSUME performed' = performed, NEW phase, phase \notin Drives, NEW j,
             Goto(p, phase), job' = [job EXCEPT ![p] = j]
      PROVE  \A q \in Procs : Driven(q)'
  BY <1>t, <1>1, DrivenKept, Zenon DEF Goto
<1>2. ASSUME performed' = performed, NEW phase, phase \notin Drives, Goto(p, phase), job' = job
      PROVE  \A q \in Procs : Driven(q)'
  BY <1>0, <1>1, <1>2
<1>n. /\ "visible" \notin Drives /\ "present" \notin Drives /\ "idle" \notin Drives
      /\ "denyIssue" \notin Drives /\ "entitled" \notin Drives /\ "capacity" \notin Drives
      /\ "mint" \notin Drives /\ "auditGrant" \notin Drives /\ "commitGrant" \notin Drives
      /\ "denyConsume" \notin Drives /\ "mark" \notin Drives /\ "unseal" \notin Drives
      /\ "perform" \notin Drives /\ "refuse" \notin Drives
  BY SMT DEF Recording
<1> HIDE DEF Drives
<1>3. ASSUME End(p) PROVE \A q \in Procs : Driven(q)'
  BY <1>1, <1>3, <1>n, Zenon DEF End
<1>4. CASE Arrive(p)
  <2>1. /\ performed' = performed
        /\ \E phase \in {"visible", "present"} : Goto(p, phase)
        /\ \E j : job' = [job EXCEPT ![p] = j]
    BY <1>4, Zenon DEF Arrive, RequestIssue, RequestConsume, Begin, Globals
  <2> QED BY <1>1, <1>n, <2>1, Zenon
<1>5. CASE Present(p)
  <2>1. performed' = performed BY <1>5, Zenon DEF Present, Globals
  <2>2. PICK phase \in {"mark", "denyConsume"} : Goto(p, phase)
    BY <1>5, Zenon DEF Present, TurnDown
  <2> DEFINE g == job[p].grant
             k == [job[p] EXCEPT !.cred = grant[g].cred, !.app = grant[g].app]
  <2>3. \E j : job' = [job EXCEPT ![p] = j]
    <3>1. \/ \E event : job' = [job EXCEPT ![p].refusal = event]
          \/ job' = [job EXCEPT ![p].cred = grant[g].cred, ![p].app = grant[g].app]
      BY <1>5, Zenon DEF Present, TurnDown
    <3>2. [job EXCEPT ![p].cred = grant[g].cred, ![p].app = grant[g].app] =
              [job EXCEPT ![p] = k]
      BY <1>t DEF TypeOK
    <3> HIDE DEF g, k
    <3> QED BY <3>1, <3>2, Zenon
  <2> QED BY <1>1, <1>n, <2>1, <2>2, <2>3, Zenon
<1>6. CASE CheckVisible(p) \/ CheckEntitled(p)
  <2>1. /\ performed' = performed
        /\ \E phase \in {"denyIssue", "entitled", "capacity"} : Goto(p, phase)
        /\ \E j : job' = [job EXCEPT ![p] = j]
    BY <1>0, <1>6, Zenon DEF CheckVisible, CheckEntitled, TurnDown, Globals
  <2> QED BY <1>1, <1>n, <2>1, Zenon
<1>c. CASE CheckCapacity(p) \/ Unseal(p)
  <2>1. CASE End(p) BY <1>3, <2>1
  <2>2. CASE ~End(p)
    <3>1. /\ performed' = performed /\ job' = job
          /\ \E phase \in {"mint", "perform"} : Goto(p, phase)
      BY <1>c, <2>2, Zenon DEF CheckCapacity, Unseal, Globals
    <3> QED BY <1>2, <1>n, <3>1, Zenon
  <2> QED BY <2>1, <2>2
<1>d. CASE DenyIssue(p) \/ DenyConsume(p)
  BY <1>2, <1>d, <1>n, Zenon DEF DenyIssue, DenyConsume, Deny, Globals
<1>7. CASE Refuse(p) \/ MintInVain(p) \/ CommitGrant(p) \/ CommitSession(p) \/ Fail(p)
  BY <1>3, <1>7, Zenon DEF Refuse, MintInVain, CommitGrant, CommitSession, Fail
<1>8. CASE Mint(p) \/ MarkUsed(p)
  <2>1. /\ performed' = performed
        /\ \E phase \in {"auditGrant", "unseal"} : Goto(p, phase)
        /\ \E j : job' = [job EXCEPT ![p] = j]
    BY <1>8, Zenon DEF Mint, MarkUsed, Globals
  <2> QED BY <1>1, <1>n, <2>1, Zenon
<1>9. CASE AuditGrant(p) BY <1>2, <1>9, <1>n, Zenon DEF AuditGrant, Globals
<1>10. CASE Perform(p)
  <2>1. job[p].grant \in Grants
    <3>1. pc[p] \in Consuming BY <1>10 DEF Perform, Consuming, Touched
    <3> QED BY <1>t, <3>1, Holds
  <2>2. \A g \in Grants : performed[g] > 0 => performed'[g] > 0
    <3>1. \A n \in 0 .. Many : (IF n < Many THEN n + 1 ELSE n) > 0 BY SMT DEF Many
    <3>2. performed \in [Grants -> 0 .. Many] BY <1>t DEF TypeOK
    <3>3. performed' = [performed EXCEPT ![job[p].grant] = IF @ < Many THEN @ + 1 ELSE @]
      BY <1>10 DEF Perform
    <3> QED BY <2>1, <3>1, <3>2, <3>3, Zenon
  <2>3. performed'[job[p].grant] > 0
    <3>1. \A n \in 0 .. Many : (IF n < Many THEN n + 1 ELSE n) > 0 BY SMT DEF Many
    <3>2. performed \in [Grants -> 0 .. Many] BY <1>t DEF TypeOK
    <3> QED BY <1>10, <2>1, <3>1, <3>2, Zenon DEF Perform
  <2> QED BY <1>0, <1>t, <1>10, <2>2, <2>3, DrivenKept, Zenon DEF Perform, Goto
<1>11. CASE RecordSession(p)
  <2>1. PICK s \in FreshSessions : job' = [job EXCEPT ![p].session = s]
    BY <1>11 DEF RecordSession
  <2>2. [job[p] EXCEPT !.session = s].grant = job[p].grant
    <3>1. job[p] \in Job BY <1>t DEF TypeOK
    <3> QED BY <3>1, SMT DEF Job
  <2>3. performed[job[p].grant] > 0 BY <1>t, <1>11, SMT DEF Driven, RecordSession
  <2> QED BY <1>t, <1>11, <2>1, <2>2, <2>3, DrivenKept, Zenon DEF RecordSession, Goto, Globals
<1>13. CASE TouchCredential(p)
  <2>1. pc[p] \in Recording BY <1>13, SMT DEF TouchCredential, Recording
  <2>2. performed[job[p].grant] > 0 BY <1>t, <2>1, Zenon DEF Driven
  <2>3. performed' = performed /\ job' = job /\ \E phase : Goto(p, phase)
    BY <1>13, Zenon DEF TouchCredential, Globals
  <2> QED BY <1>0, <1>t, <2>2, <2>3, DrivenKept, Zenon DEF Goto
<1>12. CASE AuditConsume(p)
  <2>1. pc[p] \in Recording BY <1>12, SMT DEF AuditConsume, AuditStep, Recording
  <2>2. performed[job[p].grant] > 0 BY <1>t, <2>1, Zenon DEF Driven
  <2>3. performed' = performed /\ job' = job /\ \E phase : Goto(p, phase)
    BY <1>12, Zenon DEF AuditConsume, AuditStep, Globals
  <2> QED BY <1>0, <1>t, <2>2, <2>3, DrivenKept, Zenon DEF Goto
<1> QED BY <1>4, <1>5, <1>6, <1>c, <1>d, <1>7, <1>8, <1>9, <1>10, <1>11, <1>12, <1>13,
           Zenon DEF Work, Waits

(* Whoever records a session has handed out what it is for.                *)
LEMMA RefinementInvariant == Spec => []RInv
<1>1. Init => RInv
  <2>1. ASSUME Init, NEW p \in Procs PROVE Driven(p)
    BY <2>1, SMT DEF Init, Driven, Recording
  <2> QED BY <2>1, InitIInv DEF RInv
<1>2. RInv /\ [Next]_vars => RInv'
  <2> SUFFICES ASSUME RInv, [Next]_vars PROVE RInv' OBVIOUS
  <2>1. IInv' BY StepIInv DEF RInv
  <2>2. ASSUME UNCHANGED <<pc, job, performed>> PROVE \A p \in Procs : Driven(p)'
    BY <2>2, Zenon DEF RInv, Driven
  <2>3. ASSUME \/ Tick \/ Sweeps \/ UNCHANGED vars
               \/ \E c \in Creds : DeleteCredential(c)
               \/ \E a \in Apps : DeleteApplication(a)
               \/ \E s \in Sessions : Terminate(s)
        PROVE  UNCHANGED <<pc, job, performed>>
    BY <2>3, Zenon DEF Tick, Sweeps, SweepBegins, SweepLocks, SweepCommits, SweepFails,
       vars, DeleteCredential, DeleteApplication, Terminate, Globals, Requests
  <2>4. \A p \in Procs : Driven(p)' BY <2>2, <2>3, DrivenWork, Zenon DEF Next
  <2> QED BY <2>1, <2>4 DEF RInv
<1> QED BY <1>1, <1>2, PTL DEF Spec

(* What the mapping shows of a state. *)
Offers == {OfferOf(g) : g \in Stored}
Handed == {g \in Grants : performed[g] > 0}
Shown == <<now, apps, Offers, gone, Handed, session>>

(* An offer names its grant.                                               *)
LEMMA OffersByGrant ==
    /\ \A g : OfferOf(g).grant = g
    /\ \A o \in Offers : o.grant \in Stored /\ o = OfferOf(o.grant)
<1>1. \A g : OfferOf(g).grant = g BY SMT DEF OfferOf
<1> QED BY <1>1, Zenon DEF Offers

(* A step that leaves the rows alone leaves the offers alone.              *)
LEMMA SameOffers == ASSUME grant' = grant PROVE Offers' = Offers
BY Zenon DEF Offers, OfferOf, Stored

LEMMA SameHanded == ASSUME performed' = performed PROVE Handed' = Handed
BY Zenon DEF Handed

(* A step that touches none of these is a stutter.                         *)
LEMMA Unseen ==
    ASSUME UNCHANGED <<now, apps, grant, gone, performed, session>>
    PROVE  UNCHANGED Shown
BY SameOffers, SameHanded, Zenon DEF Shown

(* A grant that is committed is an offer nobody has seen before.           *)
LEMMA CommitGrantExtends ==
    ASSUME RInv, NEW p \in Procs, CommitGrant(p)
    PROVE  \/ UNCHANGED Shown
           \/ \E g \in Grants, u \in Users, c \in Creds, a \in Apps, t \in 0 .. now :
                  Promise!Extend(g, u, c, a, t)
<1> DEFINE row == MintedRow(p)
<1>t. TypeOK /\ ProcInv(p) BY Zenon DEF RInv, IInv
<1>a. pc[p] = "commitGrant" BY DEF CommitGrant
<1>g. PICK g \in Grants : g = job[p].grant
  BY <1>t, <1>a, SMT DEF ProcInv, IssueInv, Pending
<1>p. grant' = [grant EXCEPT ![g] = row] BY <1>g, Zenon DEF CommitGrant
<1>u. UNCHANGED <<now, apps, gone, performed, session>> BY Zenon DEF CommitGrant, End
<1>1. /\ g \in Grants /\ grant[g] = None /\ g \notin gone
      /\ job[p].user \in Users /\ job[p].cred \in Creds
      /\ job[p].app \in apps /\ job[p].app \in Apps
  <2>1. pc[p] \in Pending /\ pc[p] \in Issuing BY <1>a, SMT DEF Pending, Issuing
  <2>2. apps \subseteq Apps BY <1>t, Zenon DEF TypeOK
  <2> QED BY <1>t, <1>g, <2>1, <2>2, Zenon DEF ProcInv, IssueInv
<1>2. job[p].t0 \in 0 .. now
  <2>1. job[p].t0 \in Nat /\ now \in Nat BY <1>t, SMT DEF TypeOK, Job
  <2>2. job[p].t0 <= now BY <1>t DEF ProcInv
  <2> QED BY <2>1, <2>2, SMT
<1>3. /\ row.user = job[p].user /\ row.cred = job[p].cred
      /\ row.app = job[p].app /\ row.expires = job[p].t0 + GrantTTL
      /\ row \in GrantRow
  BY <1>1, <1>2, GrantsAssumption, SMT DEF MintedRow, GrantRow
<1>4. row # None BY <1>3, RowsAssumption
<1> HIDE DEF row
<1>5. grant'[g] = row /\ \A h \in Grants \ {g} : grant'[h] = grant[h]
  BY <1>t, <1>p, <1>1, Zenon DEF TypeOK
<1> DEFINE o == [grant |-> g, user |-> job[p].user, cred |-> job[p].cred,
                 app |-> job[p].app, expires |-> job[p].t0 + GrantTTL]
<1>6. Offers' = Offers \cup {o}
  <2>1. Stored' = Stored \cup {g} BY <1>1, <1>4, <1>5, Zenon DEF Stored
  <2>2. OfferOf(g)' = o BY <1>3, <1>5, Zenon DEF OfferOf
  <2>3. \A h \in Stored : OfferOf(h)' = OfferOf(h) /\ h # g
    BY <1>1, <1>5, Zenon DEF OfferOf, Stored
  <2> HIDE DEF o
  <2>4. \A x : x \in Offers' <=> \E h \in Stored \cup {g} : x = OfferOf(h)'
    BY <2>1, Zenon DEF Offers
  <2>5. \A x : x \in Offers <=> \E h \in Stored : x = OfferOf(h) BY Zenon DEF Offers
  <2> QED BY <2>2, <2>3, <2>4, <2>5, Zenon
<1>7. \A x \in Offers : x.grant # g BY <1>1, OffersByGrant, Zenon DEF Stored
<1>8. Promise!Extend(g, job[p].user, job[p].cred, job[p].app, job[p].t0)
  <2>1. Handed' = Handed BY <1>u, SameHanded
  <2>2. job[p].t0 <= now BY <1>t DEF ProcInv
  <2> QED BY <1>1, <1>6, <1>7, <1>u, <2>1, <2>2, Zenon
          DEF Promise!Extend, Offers, Handed
<1> QED BY <1>1, <1>2, <1>8, Zenon

(* A grant that a request consumes is on offer and not taken.              *)
LEMMA ConsumedIsOffered ==
    ASSUME RInv, NEW p \in Procs, pc[p] \in Consuming
    PROVE  /\ job[p].grant \in Grants /\ OfferOf(job[p].grant) \in Offers
           /\ ~Promise!Taken(job[p].grant)
<1>1. /\ job[p].grant \in Grants /\ grant[job[p].grant] # None
      /\ ~grant[job[p].grant].used
  BY Holds, Zenon DEF RInv, IInv
<1>2. UsedIffSession BY DEF RInv, IInv, TableInv
<1> QED BY <1>1, <1>2, Zenon DEF Offers, Stored, UsedIffSession, Spent, Promise!Taken

(* What perform() does is the handing out of an offer.                     *)
LEMMA PerformHandsOut ==
    ASSUME RInv, NEW p \in Procs, Perform(p)
    PROVE  \E o \in Offers : Promise!HandOut(o)
<1> DEFINE g == job[p].grant
<1>t. performed \in [Grants -> 0 .. Many] BY DEF RInv, IInv, TypeOK
<1>1. g \in Grants /\ OfferOf(g) \in Offers /\ ~Promise!Taken(g)
  <2>1. pc[p] \in Consuming BY SMT DEF Perform, Consuming, Touched
  <2> QED BY <2>1, ConsumedIsOffered
<1>u. UNCHANGED <<now, apps, grant, gone, session>> BY Zenon DEF Perform, Tables
<1>2. Handed' = Handed \cup {g}
  <2>1. \A n \in 0 .. Many : (IF n < Many THEN n + 1 ELSE n) > 0 BY SMT DEF Many
  <2>2. /\ performed'[g] > 0
        /\ \A h \in Grants \ {g} : performed'[h] = performed[h]
    BY <1>t, <1>1, <2>1, Zenon DEF Perform
  <2>3. \A h \in Grants : performed'[h] > 0 <=> h = g \/ performed[h] > 0
    BY <2>2, Zenon
  <2> HIDE DEF g
  <2> QED BY <1>1, <2>3, Zenon DEF Handed
<1>o. PICK o \in Offers : o = OfferOf(g) BY <1>1
<1>3. o.grant = g BY <1>o, OffersByGrant
<1>4. Promise!HandOut(o)
  <2>1. Offers' = Offers BY <1>u, SameOffers
  <2> QED BY <1>1, <1>2, <1>3, <1>u, <2>1, Zenon DEF Promise!HandOut, Offers, Handed
<1> QED BY <1>o, <1>4, Zenon

(* A session that is committed takes the offer whose row the request has   *)
(* kept locked since it looked at it.                                      *)
LEMMA CommitSessionTakes ==
    ASSUME RInv, NEW p \in Procs, CommitSession(p)
    PROVE  \E o \in Offers : \E s \in Sessions, t \in 0 .. now : Promise!Take(o, s, t)
<1> DEFINE g == job[p].grant
           s == job[p].session
           row == [grant[g] EXCEPT !.used = job[p].marked]
<1>t. TypeOK /\ ProcInv(p) BY Zenon DEF RInv, IInv
<1>p. /\ pc[p] = "commitSession"
      /\ grant' = [grant EXCEPT ![g] = row]
      /\ session' = [session EXCEPT ![s] = NewSession(p)]
      /\ UNCHANGED <<now, apps, gone, performed>>
  BY Zenon DEF CommitSession, End
<1>1. pc[p] \in Consuming /\ pc[p] \in Recording BY <1>p, SMT DEF Consuming, Touched, Recording
<1>2. g \in Grants /\ OfferOf(g) \in Offers /\ ~Promise!Taken(g) BY <1>1, ConsumedIsOffered
<1>3. /\ grant[g] # None /\ grant[g].user = job[p].user /\ grant[g].cred = job[p].cred
      /\ grant[g].app = job[p].app /\ job[p].t0 <= grant[g].expires
  BY <1>t, <1>1, Zenon DEF ProcInv, ConsumeInv
<1>4. s \in Sessions /\ session[s] = None BY <1>t, <1>1, Zenon DEF ProcInv, RecordInv
<1>5. performed[g] > 0 BY <1>1, Zenon DEF RInv, Driven
<1>6. job[p].t0 <= now /\ job[p].t0 \in 0 .. now
  <2>1. job[p].t0 \in Nat /\ now \in Nat BY <1>t, SMT DEF TypeOK, Job
  <2>2. job[p].t0 <= now BY <1>t DEF ProcInv
  <2> QED BY <2>1, <2>2, SMT
<1>7. /\ row \in GrantRow /\ row.user = grant[g].user /\ row.cred = grant[g].cred
      /\ row.app = grant[g].app /\ row.expires = grant[g].expires
  <2>1. grant[g] \in GrantRow BY <1>t, <1>2, <1>3, RowTypes
  <2>2. job[p].marked \in BOOLEAN BY <1>t, SMT DEF TypeOK, Job
  <2> QED BY <2>1, <2>2, SMT DEF GrantRow
<1>8. row # None BY <1>7, RowsAssumption
<1> HIDE DEF g, s, row
<1>9. Offers' = Offers
  <2>1. grant'[g] = row /\ \A h \in Grants \ {g} : grant'[h] = grant[h]
    BY <1>t, <1>p, <1>2, Zenon DEF TypeOK
  <2>2. Stored' = Stored BY <1>2, <1>3, <1>8, <2>1, Zenon DEF Stored
  <2>3. \A h \in Stored : OfferOf(h)' = OfferOf(h)
    BY <1>7, <2>1, Zenon DEF OfferOf, Stored
  <2>4. \A x : x \in Offers' <=> \E h \in Stored : x = OfferOf(h)'
    BY <2>2, Zenon DEF Offers
  <2>5. \A x : x \in Offers <=> \E h \in Stored : x = OfferOf(h) BY Zenon DEF Offers
  <2> QED BY <2>3, <2>4, <2>5, Zenon
<1> DEFINE o == OfferOf(g)
<1>10. /\ o.grant = g /\ o.user = job[p].user /\ o.cred = job[p].cred
       /\ o.app = job[p].app /\ o.expires = grant[g].expires
  BY <1>3, SMT DEF OfferOf
<1>11. session' = [session EXCEPT ![s] =
           [user |-> o.user, cred |-> o.cred, app |-> o.app, grant |-> o.grant,
            expires |-> job[p].t0 + SessionTTL, status |-> "ACTIVE"]]
  BY <1>p, <1>10, Zenon DEF NewSession, g
<1>12. Handed' = Handed /\ g \in Handed BY <1>p, <1>2, <1>5, SameHanded, Zenon DEF Handed
<1> HIDE DEF o
<1>13. Promise!Take(o, s, job[p].t0)
  BY <1>p, <1>2, <1>3, <1>4, <1>6, <1>9, <1>10, <1>11, <1>12, Zenon
  DEF Promise!Take, Offers, Handed
<1> QED BY <1>2, <1>4, <1>6, <1>13, Zenon DEF o

(* When rows are deleted, their offers go and no other does.               *)
LEMMA RemovedOffers ==
    ASSUME NEW G \in SUBSET Grants, Remove(G), \A g \in G : grant[g] # None
    PROVE  /\ {OfferOf(g) : g \in G} \subseteq Offers
           /\ Offers' = Offers \ {OfferOf(g) : g \in G}
           /\ gone' = gone \cup {o.grant : o \in {OfferOf(g) : g \in G}}
<1> DEFINE O == {OfferOf(g) : g \in G}
<1>1. Stored' = Stored \ G BY Zenon DEF Stored, Remove
<1>2. \A g \in Stored \ G : OfferOf(g)' = OfferOf(g) BY Zenon DEF OfferOf, Stored, Remove
<1>3. \A x : x \in Offers' <=> \E g \in Stored \ G : x = OfferOf(g)'
  BY <1>1, Zenon DEF Offers
<1>4. \A x : x \in Offers <=> \E g \in Stored : x = OfferOf(g) BY Zenon DEF Offers
<1>5. \A x : x \in O <=> \E g \in G : x = OfferOf(g) BY Zenon
<1>6. \A g : OfferOf(g).grant = g BY OffersByGrant, Zenon
<1>7. G \subseteq Stored BY Zenon DEF Stored
<1> HIDE DEF O
<1>8. O \subseteq Offers BY <1>4, <1>5, <1>7, Zenon
<1>9. ASSUME NEW x PROVE x \in Offers' <=> x \in Offers /\ x \notin O
  <2>1. ASSUME x \in Offers' PROVE x \in Offers /\ x \notin O
    <3>1. PICK g \in Stored \ G : x = OfferOf(g) BY <1>2, <1>3, <2>1, Zenon
    <3>2. x.grant = g BY <1>6, <3>1, Zenon
    <3>3. ASSUME x \in O PROVE FALSE
      <4>1. PICK h \in G : x = OfferOf(h) BY <1>5, <3>3, Zenon
      <4> QED BY <1>6, <3>1, <3>2, <4>1, Zenon
    <3> QED BY <1>4, <3>1, <3>3, Zenon
  <2>2. ASSUME x \in Offers, x \notin O PROVE x \in Offers'
    <3>1. PICK g \in Stored : x = OfferOf(g) BY <1>4, <2>2, Zenon
    <3>2. g \notin G BY <1>5, <2>2, <3>1, Zenon
    <3> QED BY <1>2, <1>3, <3>1, <3>2, Zenon
  <2> QED BY <2>1, <2>2
<1>10. {o.grant : o \in O} = G
  <2>1. ASSUME NEW g \in G PROVE g \in {o.grant : o \in O}
    <3>1. OfferOf(g) \in O /\ OfferOf(g).grant = g BY <1>5, <1>6, Zenon
    <3> QED BY <3>1, Zenon
  <2>2. ASSUME NEW g \in {o.grant : o \in O} PROVE g \in G
    <3>1. PICK o \in O : g = o.grant BY <2>2, Zenon
    <3>2. PICK h \in G : o = OfferOf(h) BY <1>5, <3>1, Zenon
    <3> QED BY <1>6, <3>1, <3>2, Zenon
  <2> QED BY <2>1, <2>2, Zenon
<1>11. Offers' = Offers \ O BY <1>9, Zenon
<1>12. gone' = gone \cup {o.grant : o \in O} BY <1>10, Zenon DEF Remove
<1> QED BY <1>8, <1>11, <1>12, Zenon DEF O

(* The janitor withdraws offers that have been kept for their retention    *)
(* and ends sessions, all in one step: that its transaction began earlier  *)
(* makes it do less.                                                       *)
LEMMA SweepCleans ==
    ASSUME RInv, SweepCommits
    PROVE  \E O \in SUBSET Offers, S \in SUBSET Sessions : Promise!Clean(O, S)
<1> DEFINE O == {OfferOf(g) : g \in Swept}
           S == {s \in Sessions : LapsedBy(s, sweep.t0)}
<1>t. TypeOK /\ SweepInv BY Zenon DEF RInv, IInv
<1>s. sweep # None BY Zenon DEF SweepCommits
<1>0. sweep.t0 <= now /\ sweep.t0 \in Nat /\ now \in Nat
  <2>1. sweep.t0 \in Nat /\ now \in Nat BY <1>t, <1>s, SMT DEF TypeOK, Sweep
  <2> QED BY <1>t, <1>s, <2>1, Zenon DEF SweepInv
<1>1. \A g \in Swept : g \in Grants /\ DoomedBy(g, sweep.t0)
  BY <1>t, Zenon DEF Swept, SweepInv
<1>2. /\ O \subseteq Offers /\ Offers' = Offers \ O
      /\ gone' = gone \cup {o.grant : o \in O}
  <2>1. Remove(Swept) /\ Swept \in SUBSET Grants BY Zenon DEF SweepCommits, Swept
  <2>2. \A g \in Swept : grant[g] # None BY <1>1, Zenon DEF DoomedBy
  <2> QED BY <2>1, <2>2, RemovedOffers, Zenon
<1>3. \A o \in O : o.expires + Retention < now
  <2> SUFFICES ASSUME NEW g \in Swept PROVE OfferOf(g).expires + Retention < now
    BY Zenon
  <2>1. g \in Grants /\ grant[g] # None /\ grant[g].expires + Retention < sweep.t0
    BY <1>1, Zenon DEF DoomedBy
  <2>2. grant[g].expires \in Nat
    <3>1. grant[g] \in GrantRow BY <1>t, <2>1, RowTypes, Zenon
    <3> QED BY <3>1, SMT DEF GrantRow
  <2>3. OfferOf(g).expires = grant[g].expires BY SMT DEF OfferOf
  <2> QED BY <1>0, <2>1, <2>2, <2>3, GrantsAssumption, SMT
<1>4. \A s \in S : /\ session[s] # None /\ session[s].status = "ACTIVE"
                   /\ session[s].expires < now
  <2> SUFFICES ASSUME NEW s \in Sessions, LapsedBy(s, sweep.t0)
               PROVE  /\ session[s] # None /\ session[s].status = "ACTIVE"
                      /\ session[s].expires < now
    BY Zenon
  <2>1. /\ session[s] # None /\ session[s].status = "ACTIVE"
        /\ session[s].expires < sweep.t0
    BY Zenon DEF LapsedBy
  <2>2. session[s].expires \in Nat
    <3>1. session[s] \in SessionRow BY <1>t, <2>1, RowTypes, Zenon
    <3> QED BY <3>1, SMT DEF SessionRow
  <2> QED BY <1>0, <2>1, <2>2, SMT
<1>5. session' = [s \in Sessions |->
          IF s \in S THEN [session[s] EXCEPT !.status = "EXPIRED"] ELSE session[s]]
  BY Zenon DEF SweepCommits
<1>6. UNCHANGED <<now, apps, performed>> BY Zenon DEF SweepCommits
<1>7. Handed' = Handed BY <1>6, SameHanded
<1>8. S \in SUBSET Sessions BY Zenon
<1> HIDE DEF O, S
<1>9. Promise!Clean(O, S)
  BY <1>2, <1>3, <1>4, <1>5, <1>6, <1>7, Zenon DEF Promise!Clean, Offers, Handed
<1> QED BY <1>2, <1>8, <1>9, Zenon

(* An application goes with its offers.                                    *)
LEMMA DeletionCloses ==
    ASSUME RInv, NEW a \in Apps, DeleteApplication(a)
    PROVE  Promise!Close(a)
<1> DEFINE O == {OfferOf(g) : g \in OfApp(a)}
<1>p. /\ a \in apps /\ apps' = apps \ {a} /\ Remove(OfApp(a))
      /\ \A s \in Sessions : session[s] # None => session[s].app # a
      /\ UNCHANGED <<now, performed, session>>
  BY Zenon DEF DeleteApplication
<1>1. /\ O \subseteq Offers /\ Offers' = Offers \ O
      /\ gone' = gone \cup {o.grant : o \in O}
  <2>1. OfApp(a) \in SUBSET Grants /\ \A g \in OfApp(a) : grant[g] # None
    BY Zenon DEF OfApp
  <2> QED BY <1>p, <2>1, RemovedOffers, Zenon
<1>2. ASSUME NEW o \in Offers PROVE o \in O <=> o.app = a
  <2>1. PICK g \in Stored : o = OfferOf(g) BY <1>2, Zenon DEF Offers
  <2>2. \A h : OfferOf(h).grant = h /\ OfferOf(h).app = grant[h].app BY SMT DEF OfferOf
  <2>3. o \in O <=> g \in OfApp(a)
    <3>1. ASSUME NEW h \in OfApp(a), o = OfferOf(h) PROVE g = h
      <4>1. OfferOf(g).grant = g /\ OfferOf(h).grant = h BY <2>2, Zenon
      <4> QED BY <2>1, <3>1, <4>1
    <3>2. o \in O => \E h \in OfApp(a) : o = OfferOf(h) BY Zenon
    <3>3. g \in OfApp(a) => o \in O BY <2>1, Zenon
    <3> QED BY <3>1, <3>2, <3>3, Zenon
  <2>4. g \in OfApp(a) <=> grant[g].app = a BY Zenon DEF OfApp, Stored
  <2> QED BY <2>1, <2>2, <2>3, <2>4, Zenon
<1>3. Handed' = Handed BY <1>p, SameHanded
<1> HIDE DEF O
<1>4. Offers' = {o \in Offers : o.app = a => FALSE}
  BY <1>1, <1>2, Zenon
<1>5. Offers \ Offers' = O BY <1>1, Zenon
<1>6. Offers' = {o \in Offers : o.app # a} BY <1>4, Zenon
<1>7. gone' = gone \cup {o.grant : o \in Offers \ Offers'} BY <1>1, <1>5, Zenon
<1> QED BY <1>p, <1>3, <1>6, <1>7, Zenon DEF Promise!Close, Offers, Handed

(* Termination revokes a session.                                          *)
LEMMA TerminateRevokes ==
    ASSUME NEW s \in Sessions, Terminate(s)
    PROVE  Promise!Revoke(s)
<1>1. UNCHANGED <<now, apps, gone, grant, performed>> BY Zenon DEF Terminate, Globals
<1>2. Offers' = Offers /\ Handed' = Handed BY <1>1, SameOffers, SameHanded
<1> QED BY <1>1, <1>2, Zenon DEF Terminate, Promise!Revoke, Offers, Handed

(* The other steps of a request are not seen.                              *)
LEMMA RequestUnseen ==
    ASSUME NEW p \in Procs, Arrive(p) \/ Waits(p) \/ Work(p) \/ Fail(p)
    PROVE  \/ CommitGrant(p) \/ Perform(p) \/ CommitSession(p)
           \/ UNCHANGED <<now, apps, grant, gone, performed, session>>
<1>1. CASE Arrive(p)
  BY <1>1, Zenon DEF Arrive, RequestIssue, RequestConsume, Begin, Globals, Tables
<1>2. CASE Waits(p) BY <1>2, Zenon DEF Waits, Present, TouchCredential, Globals, Tables
<1>3. CASE DenyIssue(p) \/ DenyConsume(p)
  BY <1>3, Zenon DEF DenyIssue, DenyConsume, Deny, Globals
<1>r. CASE Refuse(p) \/ MintInVain(p) \/ Fail(p)
  BY <1>r, Zenon DEF Refuse, MintInVain, Fail, End
<1>4. CASE CheckVisible(p) \/ CheckEntitled(p) \/ CheckCapacity(p) \/ Unseal(p)
  BY <1>4, Zenon DEF CheckVisible, CheckEntitled, CheckCapacity, Unseal, End, Globals, Tables
<1>5. CASE Mint(p) \/ MarkUsed(p) \/ RecordSession(p)
  BY <1>5, Zenon DEF Mint, MarkUsed, RecordSession, Globals, Tables
<1>6. CASE AuditGrant(p) \/ AuditConsume(p)
  BY <1>6, Zenon DEF AuditGrant, AuditConsume, AuditStep, Globals
<1> QED BY <1>1, <1>2, <1>3, <1>r, <1>4, <1>5, <1>6, Zenon DEF Work

(* Requests with their transactions, locks and failures, the janitor's     *)
(* sweeps and the deletion of applications implement offers that are good  *)
(* for one session each: every step is one step of the promise or is not   *)
(* seen.                                                                   *)
THEOREM Refinement == Spec => ImplementsPromise
<1>1. Init => Promise!PromiseInit
  <2> SUFFICES ASSUME Init PROVE Promise!PromiseInit OBVIOUS
  <2>1. Stored = {} BY Zenon DEF Init, Stored
  <2>2. Offers = {} BY <2>1, Zenon DEF Offers
  <2>3. Handed = {} BY SMT DEF Init, Handed
  <2> QED BY <2>2, <2>3, Zenon DEF Init, Promise!PromiseInit, Offers, Handed
<1>2. RInv /\ [Next]_vars => [Promise!PromiseNext]_Shown
  <2> SUFFICES ASSUME RInv, [Next]_vars
               PROVE  Promise!PromiseNext \/ UNCHANGED Shown
    OBVIOUS
  <2>1. ASSUME NEW p \in Procs, Arrive(p) \/ Waits(p) \/ Work(p) \/ Fail(p)
        PROVE  Promise!PromiseNext \/ UNCHANGED Shown
    <3>1. CASE CommitGrant(p)
      BY <3>1, CommitGrantExtends, Zenon DEF Promise!PromiseNext
    <3>2. CASE Perform(p)
      BY <3>2, PerformHandsOut, Zenon DEF Promise!PromiseNext, Offers
    <3>3. CASE CommitSession(p)
      BY <3>3, CommitSessionTakes, Zenon DEF Promise!PromiseNext, Offers
    <3> QED BY <2>1, <3>1, <3>2, <3>3, RequestUnseen, Unseen, Zenon
  <2>2. CASE Tick
    <3>1. Promise!Pass
      <4>1. UNCHANGED <<apps, grant, gone, performed, session>> BY <2>2, Zenon DEF Tick, Tables
      <4>2. Offers' = Offers /\ Handed' = Handed BY <4>1, SameOffers, SameHanded
      <4> QED BY <2>2, <4>1, <4>2, Zenon DEF Tick, Promise!Pass, Offers, Handed
    <3> QED BY <3>1 DEF Promise!PromiseNext
  <2>3. ASSUME NEW c \in Creds, DeleteCredential(c) PROVE UNCHANGED Shown
    BY <2>3, Unseen, Zenon DEF DeleteCredential, Tables
  <2>4. ASSUME NEW s \in Sessions, Terminate(s) PROVE Promise!PromiseNext
    BY <2>4, TerminateRevokes, Zenon DEF Promise!PromiseNext
  <2>5. ASSUME NEW a \in Apps, DeleteApplication(a) PROVE Promise!PromiseNext
    BY <2>5, DeletionCloses, Zenon DEF Promise!PromiseNext
  <2>6. CASE SweepCommits BY <2>6, SweepCleans, Zenon DEF Promise!PromiseNext, Offers
  <2>7. ASSUME SweepBegins \/ SweepFails \/ \E g \in Grants : SweepLocks(g)
        PROVE  UNCHANGED Shown
    BY <2>7, Unseen, Zenon DEF SweepBegins, SweepFails, SweepLocks, Tables
  <2>8. CASE UNCHANGED vars BY <2>8, Unseen, Zenon DEF vars
  <2> QED BY <2>1, <2>2, <2>3, <2>4, <2>5, <2>6, <2>7, <2>8, Zenon DEF Next, Sweeps
<1>3. [Promise!PromiseNext]_Shown => [Promise!PromiseNext]_(Promise!promised)
  BY Zenon DEF Shown, Promise!promised, Offers, Handed
<1> QED BY <1>1, <1>2, <1>3, RefinementInvariant, PTL
        DEF Spec, ImplementsPromise, Promise!PromiseSpec
=============================================================================
