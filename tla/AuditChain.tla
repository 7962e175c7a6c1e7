----------------------------- MODULE AuditChain -----------------------------
(***************************************************************************)
(* The hash-chained audit log of backend/src/audit.ts.                     *)
(*                                                                         *)
(* Any number of concurrent calls of audit() append to the logs of the     *)
(* tenants.  A call is one database transaction: it takes the advisory     *)
(* lock of its tenant, reads the hash of the newest row, inserts a row     *)
(* whose hash covers that hash, and commits; a failure at any point rolls  *)
(* it back.  verifyChain() is an operator on the rows of a tenant.         *)
(*                                                                         *)
(* SHA-256 is modelled by what the chain needs of it: chainHash is         *)
(* injective and never returns the 64 zeros of an empty chain.  A hash is  *)
(* the sequence of everything that was hashed into it.                     *)
(***************************************************************************)
EXTENDS Naturals, Sequences, FiniteSets

CONSTANTS
    Tenants,
    Writers,         \* concurrent calls of audit()
    Covered,         \* values of the hashed part: event_type, actor_id, at, meta
    Uncovered,       \* values of the rest: actor_name, resource, result, ip, device
    SetupTenants,    \* tenants created by setup.ts, with its "initial audit event"
    SetupCovered, SetupUncovered,   \* the contents of that first row
    LockKey,         \* LockKey[t] = hashtext(t): two tenants may share a key
    SerializingLock, \* FALSE under pg-mem, whose advisory lock is a no-op (db.ts:59)
    MaxId,           \* bound of the id sequence
    NoWriter, NoRequest

ASSUME AuditAssumption ==
    /\ SetupTenants \subseteq Tenants
    /\ SetupCovered \in Covered /\ SetupUncovered \in Uncovered
    /\ SerializingLock \in BOOLEAN
    /\ MaxId \in Nat
    /\ NoWriter \notin Writers
    /\ NoRequest \notin [tenant : Tenants, cov : Covered, unc : Uncovered]

VARIABLES
    log,      \* log[t]: the committed rows of tenant t
    nextId,   \* the bigserial sequence audit_events.id draws from
    holder,   \* holder[k]: the transaction that holds advisory lock k
    pc,       \* where each call of audit() stands
    req,      \* the event each call has to record
    prev,     \* prevHash, as the call read it
    rowId     \* the id its INSERT was given

vars == <<log, nextId, holder, pc, req, prev, rowId>>

-----------------------------------------------------------------------------
(* Hashes and rows *)

Hash == Seq(Covered)

ZeroHash == <<>>                         \* '0'.repeat(64)

(* Fault: the hash forgets which event it covers. *)
chainHashNoEvent(p, cov) == Append(p, SetupCovered)

chainHash(p, cov) == Append(p, cov)

Request == [tenant : Tenants, cov : Covered, unc : Uncovered]

Row == [id : Nat, cov : Covered, unc : Uncovered, prev : Hash, hash : Hash]

SetupId == 1

(* setup.ts inserts the first row of its tenant with hash = prev_hash = 0. *)
SetupRow == [id |-> SetupId, cov |-> SetupCovered, unc |-> SetupUncovered,
             prev |-> ZeroHash, hash |-> ZeroHash]

IsNewest(rows, r) == r \in rows /\ \A s \in rows : s.id <= r.id

(* ORDER BY id DESC LIMIT 1, or the zero hash of an empty log. *)
LastHash(rows) ==
    IF rows = {} THEN ZeroHash ELSE (CHOOSE r \in rows : IsNewest(rows, r)).hash

Before(rows, r) == {s \in rows : s.id < r.id}

(* What verifyChain() demands of one row, given the rows it has passed. *)
Linked(rows, r) ==
    /\ r.prev = LastHash(Before(rows, r))
    /\ r.hash = chainHash(r.prev, r.cov)

(* verifyChain() is ok when this is empty; brokenAt is its least element. *)
BrokenIds(rows) == {r.id : r \in {s \in rows : ~Linked(rows, s)}}

-----------------------------------------------------------------------------
Phases == {"idle", "waiting", "locked", "read", "inserted"}

Holding == {"locked", "read", "inserted"}

KeyOf(w) == LockKey[req[w].tenant]

Keys == {LockKey[t] : t \in Tenants}

Calls == {w \in Writers : pc[w] # "idle"}

Init ==
    /\ log = [t \in Tenants |-> IF t \in SetupTenants THEN {SetupRow} ELSE {}]
    /\ nextId = SetupId + 1
    /\ holder = [k \in Keys |-> NoWriter]
    /\ pc = [w \in Writers |-> "idle"]
    /\ req = [w \in Writers |-> NoRequest]
    /\ prev = [w \in Writers |-> ZeroHash]
    /\ rowId = [w \in Writers |-> 0]

(* audit() is called; withTenant opens its transaction.  The guard on MaxId *)
(* only bounds the model.                                                   *)
Call(w) ==
    /\ pc[w] = "idle"
    /\ nextId + Cardinality(Calls) <= MaxId
    /\ \E r \in Request : req' = [req EXCEPT ![w] = r]
    /\ pc' = [pc EXCEPT ![w] = "waiting"]
    /\ UNCHANGED <<log, nextId, holder, prev, rowId>>

LockFree(k) == SerializingLock => holder[k] = NoWriter

(* Fault: pg_try_advisory_xact_lock, its answer ignored. *)
TryLock(w) ==
    /\ pc[w] = "waiting"
    /\ holder' = [holder EXCEPT ![KeyOf(w)] = IF @ = NoWriter THEN w ELSE @]
    /\ pc' = [pc EXCEPT ![w] = "locked"]
    /\ UNCHANGED <<log, nextId, req, prev, rowId>>

(* pg_advisory_xact_lock(hashtext(tenant)) is granted. *)
Lock(w) ==
    /\ pc[w] = "waiting"
    /\ LockFree(KeyOf(w))
    /\ holder' = [holder EXCEPT ![KeyOf(w)] = w]
    /\ pc' = [pc EXCEPT ![w] = "locked"]
    /\ UNCHANGED <<log, nextId, req, prev, rowId>>

(* Fault: lock and SELECT in a transaction of their own. *)
ReadLastUnlocking(w) ==
    /\ pc[w] = "locked"
    /\ prev' = [prev EXCEPT ![w] = LastHash(log[req[w].tenant])]
    /\ holder' = [holder EXCEPT ![KeyOf(w)] = NoWriter]
    /\ pc' = [pc EXCEPT ![w] = "read"]
    /\ UNCHANGED <<log, nextId, req, rowId>>

(* READ COMMITTED: the SELECT sees every row committed before it. *)
ReadLast(w) ==
    /\ pc[w] = "locked"
    /\ prev' = [prev EXCEPT ![w] = LastHash(log[req[w].tenant])]
    /\ pc' = [pc EXCEPT ![w] = "read"]
    /\ UNCHANGED <<log, nextId, holder, req, rowId>>

(* The INSERT draws an id; the row stays invisible until COMMIT. *)
Insert(w) ==
    /\ pc[w] = "read"
    /\ rowId' = [rowId EXCEPT ![w] = nextId]
    /\ nextId' = nextId + 1
    /\ pc' = [pc EXCEPT ![w] = "inserted"]
    /\ UNCHANGED <<log, holder, req, prev>>

NewRow(w) ==
    [id |-> rowId[w], cov |-> req[w].cov, unc |-> req[w].unc,
     prev |-> prev[w], hash |-> chainHash(prev[w], req[w].cov)]

(* Fault: a session-level lock, which outlives the transaction. *)
FinishKeepingLock(w) ==
    /\ pc' = [pc EXCEPT ![w] = "idle"]
    /\ req' = [req EXCEPT ![w] = NoRequest]
    /\ prev' = [prev EXCEPT ![w] = ZeroHash]
    /\ rowId' = [rowId EXCEPT ![w] = 0]
    /\ UNCHANGED <<nextId, holder>>

(* The transaction ends: its advisory lock is released with it. *)
Finish(w) ==
    /\ holder' = [k \in Keys |-> IF holder[k] = w THEN NoWriter ELSE holder[k]]
    /\ pc' = [pc EXCEPT ![w] = "idle"]
    /\ req' = [req EXCEPT ![w] = NoRequest]
    /\ prev' = [prev EXCEPT ![w] = ZeroHash]
    /\ rowId' = [rowId EXCEPT ![w] = 0]
    /\ UNCHANGED nextId

Commit(w) ==
    /\ pc[w] = "inserted"
    /\ log' = [log EXCEPT ![req[w].tenant] = @ \cup {NewRow(w)}]
    /\ Finish(w)

(* A statement fails or the process dies: ROLLBACK, the drawn id is lost. *)
Rollback(w) ==
    /\ pc[w] # "idle"
    /\ Finish(w)
    /\ UNCHANGED log

Next == \E w \in Writers :
    Call(w) \/ Lock(w) \/ ReadLast(w) \/ Insert(w) \/ Commit(w) \/ Rollback(w)

Spec == Init /\ [][Next]_vars

(* Every started statement completes, and PostgreSQL grants a lock to its  *)
(* waiters in turn, so none of them is passed over for ever.               *)
Fairness == \A w \in Writers :
    /\ WF_vars(ReadLast(w) \/ Insert(w) \/ Commit(w))
    /\ SF_vars(Lock(w))

FairSpec == Spec /\ Fairness

-----------------------------------------------------------------------------
(* Properties *)

(* Every variable holds a value of its kind; ids stay below the sequence.  *)
TypeOK ==
    /\ log \in [Tenants -> SUBSET Row]
    /\ nextId \in Nat
    /\ holder \in [Keys -> Writers \cup {NoWriter}]
    /\ pc \in [Writers -> Phases]
    /\ req \in [Writers -> Request \cup {NoRequest}]
    /\ \A w \in Writers : (req[w] = NoRequest) <=> (pc[w] = "idle")
    /\ prev \in [Writers -> Hash]
    /\ rowId \in [Writers -> Nat]

(* However calls of audit() interleave and fail, verifyChain() accepts     *)
(* every row that audit() wrote; the only row it ever rejects is the one   *)
(* setup.ts writes with a zero hash.                                       *)
ChainIntact ==
    \A t \in Tenants :
        BrokenIds(log[t]) = IF t \in SetupTenants THEN {SetupId} ELSE {}

(* verifyChain() walks the rows by id and audit() links them in the order  *)
(* they commit: the two orders must agree, so no row is ever committed     *)
(* under an id smaller than one the tenant's log already holds.            *)
IdsFollowCommits ==
    [][\A t \in Tenants : \A new \in log'[t] \ log[t], old \in log[t] :
            old.id < new.id]_vars

Replace(rows, r, s) == (rows \ {r}) \cup {s}

(* Rows audit() wrote; the row setup.ts wrote is not protected by a hash.  *)
Chained(t) == {r \in log[t] : Linked(log[t], r)}

(* A change to a hashed column of a row, or the removal of a row that is   *)
(* not the newest, is reported by verifyChain().                           *)
TamperEvident ==
    \A t \in Tenants : \A r \in Chained(t) :
        /\ \A c \in Covered \ {r.cov} :
               r.id \in BrokenIds(Replace(log[t], r, [r EXCEPT !.cov = c]))
        /\ ~IsNewest(log[t], r) =>
               \E s \in log[t] \ {r} : /\ s \in Chained(t)
                                       /\ s.id \in BrokenIds(log[t] \ {r})

(* The newest hash of a tenant, read as the history it covers, is exactly  *)
(* an append-only log: a fork of the chain would drop an event from it.    *)
Abstract == INSTANCE AppendOnlyLog WITH
    history <- [t \in Tenants |-> LastHash(log[t])]

ImplementsLog == Abstract!LogSpec

(* A call that was made ends, even while other calls keep taking the lock. *)
CallEnds == \A w \in Writers : pc[w] # "idle" ~> pc[w] = "idle"
=============================================================================
