------------------------------ MODULE Directory ------------------------------
(***************************************************************************)
(* The administration routes (routes.ts): users, collections, applications,*)
(* credentials, connectors, access requests and their decisions, and       *)
(* break-glass (vault.ts).  Each handler resolves its caller in one         *)
(* transaction and does its work in a second, READ COMMITTED, which it      *)
(* leaves open while audit() writes on a connection of its own.  A request  *)
(* is a record that says what its statements look for and write; the steps  *)
(* below run the statements of several requests against each other.         *)
(***************************************************************************)
EXTENDS Naturals, FiniteSets

CONSTANTS
    Users, Collections, Credentials, Applications, Connectors, Requests,
    Present,        \* what the tables may hold at first
    Disabled,       \* the users that are disabled at first
    Slots,          \* requests served at one time
    MaxArrivals     \* bound: requests in a behaviour

Things == Users \cup Collections \cup Credentials \cup Applications
            \cup Connectors \cup Requests

ASSUME SetsAssumption ==
    /\ Present \subseteq SUBSET Things
    /\ Disabled \subseteq Users
    /\ MaxArrivals \in Nat
    /\ IsFiniteSet(Slots)
    /\ Requests \cap (Users \cup Collections \cup Credentials \cup Applications \cup Connectors) = {}
    /\ Users \cap (Collections \cup Credentials \cup Applications \cup Connectors) = {}

(* collection_members, credential_collections, application_credentials *)
Links == Collections \X (Users \cup Credentials) \cup Applications \X Credentials

Status == {"none", "ACTIVE", "DISABLED", "REVOKED", "PENDING", "DENIED"}
Row == [status : Status, deleted : BOOLEAN]
Absent == [status |-> "none", deleted |-> FALSE]

VARIABLES
    row,        \* committed rows
    links,      \* committed link rows
    approvals,  \* rows of approvals, counted for each access request
    changes,    \* committed requests about each thing
    records,    \* audit rows about each thing
    arrivals,
    pc,         \* where each slot stands
    job,        \* the request it serves
    todo,       \* links still to insert
    drop, add,  \* uncommitted link rows, deleted and inserted
    raced       \* things others changed since the request arrived

tables == <<row, links, approvals, changes>>
vars == <<tables, records, arrivals, pc, job, todo, drop, add, raced>>

-----------------------------------------------------------------------------
(* What the handlers ask of the tables.  "must" is looked for by a SELECT   *)
(* before the write, "hits" by the writing statement itself; "next" is the   *)
(* status it writes: "same" writes other columns, "untouched" none.         *)

Wants == {"any", "absent", "exists", "live", "PENDING"}
Verbs == {"POST", "PATCH", "DELETE", "DECIDE", "MISDECIDE", "REVEAL", "REFUSE"}

Req(verb, on, must, hits, next) ==
    [verb |-> verb, on |-> on, must |-> must, hits |-> hits, next |-> next,
     relink |-> FALSE, asked |-> {}]
Relink(q, S) == [q EXCEPT !.relink = TRUE, !.asked = S]

Post(t, must, next, S) == Relink(Req("POST", t, must, "absent", next), S)

PostUser(u) ==
    {Post(u, "absent", "ACTIVE", S) : S \in SUBSET (Collections \X {u})}
(* Fault: the check forgets that the user may be deleted. *)
PatchDeleted(u) == {Req("PATCH", u, "exists", "any", s) : s \in {"same", "ACTIVE", "DISABLED"}}
PatchUser(u) ==
    LET Patch(s) == Req("PATCH", u, "live", "any", s)
        Statuses == {"untouched", "same", "ACTIVE", "DISABLED"}
    IN {Patch(s) : s \in Statuses}
         \cup {Relink(Patch(s), S) : s \in Statuses, S \in SUBSET (Collections \X {u})}
DeleteUser(u) == {Req("DELETE", u, "live", "any", "DISABLED")}

PostCollection(c) ==
    {Post(c, "absent", "ACTIVE", S) : S \in SUBSET ({c} \X Users)}
PatchCollection(c) ==
    LET Patch(s) == Req("PATCH", c, "exists", "any", s)
        Columns == {"untouched", "same"}
    IN {Patch(s) : s \in Columns}
         \cup {Relink(Patch(s), S) : s \in Columns, S \in SUBSET ({c} \X Users)}
DeleteCollection(c) == {Req("DELETE", c, "exists", "any", "none")}

PostApplication(a) ==
    {Post(a, "any", "ACTIVE", S) :
        S \in {L \in SUBSET ({a} \X Credentials) : Cardinality(L) <= 1}}
PatchApplication(a) == {Req("PATCH", a, "any", "exists", "same")}
DeleteApplication(a) == {Req("DELETE", a, "any", "exists", "none")}

PostCredential(k) ==
    {Post(k, "any", "ACTIVE", S) : S \in SUBSET (Collections \X {k})}
PatchCredential(k) == {Req("PATCH", k, "any", "exists", "same")}
DeleteCredential(k) == {Req("DELETE", k, "any", "exists", "same")}

RegisterConnector(n) == {Req("POST", n, "any", "absent", "ACTIVE")}
RevokeConnector(n) == {Req("PATCH", n, "any", "any", "REVOKED")}

RequestAccess(r) == {Req("POST", r, "any", "absent", "PENDING")}
(* Fault: a decided request can be decided again. *)
DecideAgain(r) == {Req("DECIDE", r, "exists", "any", "DENIED")}
(* /approve and /deny have routes of their own, which name columns the      *)
(* schema does not have.  What else reaches /:decision is not 'approve' and *)
(* denies, if in capitals it is a decision; if not, it is refused once the  *)
(* row is written.                                                          *)
Decide(r) == {Req(v, r, "PENDING", "any", "DENIED") : v \in {"DECIDE", "MISDECIDE"}}

(* The two approvers and the reason are of the request alone. *)
BreakGlass(k) == {Req("REVEAL", k, "exists", "any", "untouched")}
(* attemptReveal, the anti-endpoint, break-glass without the permission *)
Refused(k) == {Req("REFUSE", k, "any", "any", "untouched")}

Asked ==
    (UNION {PostUser(u) \cup PatchUser(u) \cup DeleteUser(u) : u \in Users})
    \cup (UNION {PostCollection(c) \cup PatchCollection(c) \cup DeleteCollection(c) :
                    c \in Collections})
    \cup (UNION {PostApplication(a) \cup PatchApplication(a) \cup DeleteApplication(a) :
                    a \in Applications})
    \cup (UNION {PostCredential(k) \cup PatchCredential(k) \cup DeleteCredential(k)
                    \cup BreakGlass(k) \cup Refused(k) : k \in Credentials})
    \cup (UNION {RegisterConnector(n) \cup RevokeConnector(n) : n \in Connectors})
    \cup (UNION {RequestAccess(r) \cup Decide(r) : r \in Requests})

Job == [q : Asked, by : Users]
NoJob == [by |-> "nobody"]
Phases == {"idle", "resolved", "found", "written", "linking", "revealed", "recorded", "outer"}

-----------------------------------------------------------------------------
Meets(r, want) ==
    CASE want = "any"     -> TRUE
      [] want = "absent"  -> r.status = "none"
      [] want = "exists"  -> r.status # "none"
      [] want = "live"    -> r.status # "none" /\ ~r.deleted
      [] want = "PENDING" -> r.status = "PENDING"

(* Deletion is soft for users and credentials. *)
NewRow(q, r) ==
    CASE q.next = "none" -> Absent
      [] r = Absent /\ q.verb # "POST" -> r
      [] OTHER -> [status |-> IF q.next \in {"same", "untouched"} THEN r.status ELSE q.next,
                   deleted |-> r.deleted \/ q.verb = "DELETE"]

LinksOf(t) == {l \in links : t \in {l[1], l[2]}}

Writing == {"written", "linking", "revealed", "recorded"}
WritesRow(q) == q.next # "untouched"
(* g has written the row of t and not ended: it holds its lock. *)
Holds(g, t) == pc[g] \in Writing /\ job[g].q.on = t /\ WritesRow(job[g].q)
Removes(g, t) == Holds(g, t) /\ job[g].q.next = "none"

FirstStatus(t) ==
    CASE t \in Requests -> "PENDING" [] t \in Disabled -> "DISABLED" [] OTHER -> "ACTIVE"

Init ==
    /\ \E P \in Present :
          row = [t \in Things |->
                    IF t \notin P THEN Absent
                    ELSE [status |-> FirstStatus(t), deleted |-> FALSE]]
    /\ links = {}
    /\ approvals = [r \in Requests |-> 0]
    /\ changes = [t \in Things |-> 0]
    /\ records = [t \in Things |-> 0]
    /\ arrivals = 0
    /\ pc = [h \in Slots |-> "idle"]
    /\ job = [h \in Slots |-> NoJob]
    /\ todo = [h \in Slots |-> {}]
    /\ drop = [h \in Slots |-> {}]
    /\ add = [h \in Slots |-> {}]
    /\ raced = [h \in Slots |-> {}]

Goto(h, label) == pc' = [pc EXCEPT ![h] = label]

(* The slot is free again; what it had not committed is gone. *)
Release(h) ==
    /\ Goto(h, "idle")
    /\ job' = [job EXCEPT ![h] = NoJob]
    /\ todo' = [todo EXCEPT ![h] = {}]
    /\ drop' = [drop EXCEPT ![h] = {}]
    /\ add' = [add EXCEPT ![h] = {}]

(* withTenant's catch: ROLLBACK, and an error for an answer. *)
Abort(h) ==
    /\ Release(h)
    /\ raced' = [raced EXCEPT ![h] = {}]
    /\ UNCHANGED <<tables, records, arrivals>>

(* A row whose key the database generates is not being created twice. *)
Generated(q) == q.verb = "POST" /\ q.on \in Credentials \cup Requests
Fresh(q) == row[q.on] = Absent /\ \A g \in Slots : pc[g] # "idle" => job[g].q.on # q.on

(* principal() looks at the status of the caller and at nothing else. *)
MayAct(u) == row[u].status = "ACTIVE"

Arrive(h, q, u) ==
    /\ pc[h] = "idle" /\ arrivals < MaxArrivals
    /\ MayAct(u)
    /\ Generated(q) => Fresh(q)
    /\ arrivals' = arrivals + 1
    /\ Goto(h, "resolved")
    /\ job' = [job EXCEPT ![h] = [q |-> q, by |-> u]]
    /\ UNCHANGED <<tables, records, todo, drop, add, raced>>

(* The check that precedes the write, a SELECT that locks nothing. *)
Find(h) ==
    LET q == job[h].q IN
    /\ pc[h] = "resolved"
    /\ IF Meets(row[q.on], q.must)
       THEN Goto(h, "found")
            /\ UNCHANGED <<tables, records, arrivals, job, todo, drop, add, raced>>
       ELSE Abort(h)

(* The row is written once nobody else holds it; a hard DELETE cascades to  *)
(* the links and waits for those who write some.                            *)
Locks(g, h) ==
    LET q == job[h].q IN
    /\ g # h /\ WritesRow(q)
    /\ \/ Holds(g, q.on)
       \/ q.next = "none" /\ \E l \in add[g] \cup drop[g] : q.on \in {l[1], l[2]}
Write(h) ==
    LET q == job[h].q IN
    /\ pc[h] = "found"
    /\ \A g \in Slots : ~Locks(g, h)
    /\ IF Meets(row[q.on], q.hits)
       THEN /\ Goto(h, IF q.relink THEN "written" ELSE "linking")
            /\ drop' = [drop EXCEPT ![h] = IF q.next = "none" THEN LinksOf(q.on) ELSE {}]
            /\ UNCHANGED <<tables, records, arrivals, job, todo, add, raced>>
       ELSE Abort(h)

(* Fault: the old links are left in place. *)
KeepLinks(h) ==
    /\ pc[h] = "written"
    /\ Goto(h, "linking")
    /\ todo' = [todo EXCEPT ![h] = job[h].q.asked]
    /\ UNCHANGED <<tables, records, arrivals, job, drop, add, raced>>
(* DELETE FROM collection_members, of the rows this statement can see *)
Unlink(h) ==
    LET q == job[h].q
        old == IF q.verb = "POST" THEN {} ELSE LinksOf(q.on) IN
    /\ pc[h] = "written"
    /\ \A g \in Slots \ {h} : drop[g] \cap old = {}
    /\ Goto(h, "linking")
    /\ drop' = [drop EXCEPT ![h] = old]
    /\ todo' = [todo EXCEPT ![h] = q.asked]
    /\ UNCHANGED <<tables, records, arrivals, job, add, raced>>

(* One INSERT ... ON CONFLICT DO NOTHING: it waits for those who have       *)
(* touched the row, and for those who remove what it refers to.             *)
Blocks(h, g, l) == \/ l \in add[g] \cup drop[g]
                   \/ \E t \in {l[1], l[2]} : Removes(g, t)
Known(h, t) == row[t].status # "none" \/ (t = job[h].q.on /\ job[h].q.verb = "POST")
Link(h, l) ==
    /\ pc[h] = "linking" /\ l \in todo[h]
    /\ \A g \in Slots \ {h} : ~Blocks(h, g, l)
    /\ IF Known(h, l[1]) /\ Known(h, l[2])
       THEN /\ todo' = [todo EXCEPT ![h] = @ \ {l}]
            /\ add' = [add EXCEPT ![h] = @ \cup ({l} \ (links \ drop[h]))]
            /\ UNCHANGED <<tables, records, arrivals, pc, job, drop, raced>>
       ELSE Abort(h)

(* CHECK (decision IN ('APPROVE', 'DENY')): the INSERT into approvals fails. *)
RefuseWord(h) == pc[h] = "linking" /\ job[h].q.verb = "MISDECIDE" /\ Abort(h)

(* breakGlass() calls audit() twice, for the request and for the reveal. *)
RecordReveal(h) ==
    /\ pc[h] = "linking" /\ job[h].q.verb = "REVEAL"
    /\ Goto(h, "revealed")
    /\ records' = [records EXCEPT ![job[h].q.on] = @ + 1]
    /\ UNCHANGED <<tables, arrivals, job, todo, drop, add, raced>>

Unrecorded(h) ==
    /\ todo[h] = {}
    /\ \/ pc[h] = "linking" /\ job[h].q.verb \notin {"MISDECIDE", "REVEAL"}
       \/ pc[h] = "revealed"
(* Fault: a PATCH is not recorded. *)
RecordSome(h) ==
    /\ Unrecorded(h)
    /\ Goto(h, "recorded")
    /\ records' = [records EXCEPT ![job[h].q.on] = @ + IF job[h].q.verb = "PATCH" THEN 0 ELSE 1]
    /\ UNCHANGED <<tables, arrivals, job, todo, drop, add, raced>>
(* audit(), on a connection of its own: its row stays whatever follows. *)
Record(h) ==
    /\ Unrecorded(h)
    /\ records' = [records EXCEPT ![job[h].q.on] = @ + 1]
    /\ IF job[h].q.verb = "REFUSE"
       THEN Release(h) /\ raced' = [raced EXCEPT ![h] = {}]
       ELSE Goto(h, "recorded") /\ UNCHANGED <<job, todo, drop, add, raced>>
    /\ UNCHANGED <<tables, arrivals>>

Touched(h) == {job[h].q.on} \cup UNION {{l[1], l[2]} : l \in drop[h] \cup add[h]}

Commit(h) ==
    LET q == job[h].q IN
    /\ pc[h] = "recorded"
    /\ row' = [row EXCEPT ![q.on] = NewRow(q, @)]
    /\ links' = (links \ drop[h]) \cup add[h]
    /\ approvals' = [r \in Requests |-> approvals[r] + IF q.verb = "DECIDE" /\ r = q.on THEN 1 ELSE 0]
    /\ changes' = [changes EXCEPT ![q.on] = @ + 1]
    /\ raced' = [g \in Slots |-> IF g = h \/ pc[g] = "idle" THEN {} ELSE raced[g] \cup Touched(h)]
    /\ IF Generated(q) /\ q.on \in Credentials
       THEN Goto(h, "outer") /\ UNCHANGED <<job, todo>>
            /\ drop' = [drop EXCEPT ![h] = {}] /\ add' = [add EXCEPT ![h] = {}]
       ELSE Release(h)
    /\ UNCHANGED <<records, arrivals>>

(* createCredential() has committed inside POST /credentials, which records *)
(* it once more before it answers.                                          *)
RecordAgain(h) ==
    /\ pc[h] = "outer"
    /\ records' = [records EXCEPT ![job[h].q.on] = @ + 1]
    /\ Release(h)
    /\ raced' = [raced EXCEPT ![h] = {}]
    /\ UNCHANGED <<tables, arrivals>>

(* A statement fails, or the connection is lost. *)
Fail(h) == pc[h] # "idle" /\ Abort(h)

(* PostgreSQL ends one of two transactions that wait for each other. *)
WaitsFor(h, g) ==
    LET q == job[h].q IN
    /\ h # g
    /\ \/ pc[h] = "found" /\ Locks(g, h)
       \/ pc[h] = "written" /\ q.verb # "POST" /\ drop[g] \cap LinksOf(q.on) # {}
       \/ pc[h] = "linking" /\ \E l \in todo[h] : Blocks(h, g, l)
(* Fault: deadlock detection is off. *)
NoVictim(h) == FALSE
DeadlockAbort(h) ==
    /\ \E S \in SUBSET Slots : h \in S /\ \A x \in S : \E y \in S : WaitsFor(x, y)
    /\ Abort(h)

Locking(h) == Write(h) \/ Unlink(h) \/ \E l \in Links : Link(h, l)
Work(h) ==
    \/ Find(h) \/ RefuseWord(h) \/ RecordReveal(h) \/ Record(h)
    \/ Commit(h) \/ RecordAgain(h) \/ DeadlockAbort(h)

Next ==
    \E h \in Slots :
        \/ \E q \in Asked, u \in Users : Arrive(h, q, u)
        \/ Locking(h)
        \/ Work(h)
        \/ Fail(h)

Spec == Init /\ [][Next]_vars

(* Statements complete, and PostgreSQL serves the waiters of a row in turn. *)
FairSpec == Spec /\ \A h \in Slots : WF_vars(Work(h)) /\ SF_vars(Locking(h))

-----------------------------------------------------------------------------
(* Properties *)

(* Every variable holds a value of its kind.                               *)
TypeOK ==
    /\ row \in [Things -> Row]
    /\ links \subseteq Links
    /\ approvals \in [Requests -> Nat]
    /\ changes \in [Things -> Nat] /\ records \in [Things -> Nat]
    /\ arrivals \in 0..MaxArrivals
    /\ pc \in [Slots -> Phases]
    /\ job \in [Slots -> Job \cup {NoJob}]
    /\ \A h \in Slots : pc[h] # "idle" => job[h] \in Job
    /\ todo \in [Slots -> SUBSET Links]
    /\ drop \in [Slots -> SUBSET Links] /\ add \in [Slots -> SUBSET Links]
    /\ raced \in [Slots -> SUBSET Things]

(* No committed change without an audit row of its own, though the row is  *)
(* written on another connection, before the commit, and either may fail.  *)
ChangesRecorded == \A t \in Things : changes[t] <= records[t]

(* A deleted user becomes ACTIVE again only by a PATCH that had looked      *)
(* before the deletion was committed (PATCH /users writes by id alone).     *)
StaysDeleted ==
    [][\A u \in Users :
          row[u].deleted /\ row[u].status # "ACTIVE" /\ row'[u].status = "ACTIVE" =>
              \E h \in Slots : Commit(h) /\ job[h].q.on = u /\ u \in raced[h]]_vars

(* What a disabled user had begun may still be committed, and nothing else. *)
ActsWhileActive ==
    [][\A h \in Slots : Commit(h) =>
          LET u == job[h].by IN row[u].status = "ACTIVE" \/ u \in raced[h]]_vars

(* A request is decided twice only by approvers who had both seen it open. *)
DecidedOnce ==
    [][\A r \in Requests : approvals'[r] > approvals[r] /\ approvals[r] > 0 =>
          \E h \in Slots : Commit(h) /\ job[h].q.on = r /\ r \in raced[h]]_vars

(* A PATCH leaves exactly the members it was asked for, where no other      *)
(* request has committed a change to them since it arrived.                 *)
MembersAsAsked ==
    [][\A h \in Slots :
          Commit(h) /\ job[h].q.relink /\ job[h].q.on \notin raced[h] =>
              {l \in links' : job[h].q.on \in {l[1], l[2]}} = job[h].q.asked]_vars

(* Every request ends, though relinking requests insert the same rows in    *)
(* opposite orders.                                                         *)
RequestsEnd == \A h \in Slots : pc[h] # "idle" ~> pc[h] = "idle"
=============================================================================
