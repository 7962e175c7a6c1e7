------------------------------ MODULE KeyVault ------------------------------
(***************************************************************************)
(* The key versions of a tenant and the credentials sealed under them:     *)
(* createCredential, rotateCredential and rotateTenantKeys of              *)
(* backend/src/vault.ts over generateDek, rotateTenantDek, seal and unseal *)
(* of crypto.ts, run by concurrent requests.                               *)
(*                                                                         *)
(* A request is one READ COMMITTED transaction on the credentials; the     *)
(* statements of generateDek and rotateTenantDek, and every audit(), run   *)
(* in transactions of their own.  An UPDATE waits until no other           *)
(* transaction has written the row, then changes the newest version of it, *)
(* in the columns it sets and no other.                                    *)
(*                                                                         *)
(* AES-256-GCM is abstracted to what it tells apart: a blob opens under    *)
(* the DEK that sealed it and no other.  A DEK never changes and is never  *)
(* deleted, so its cache (crypto.ts:31-33) is not part of the state.       *)
(***************************************************************************)
EXTENDS Naturals, FiniteSets

CONSTANTS
    Creds,        \* credential ids
    Procs,        \* requests in flight
    Secrets,      \* secret values, each drawn once
    MaxVersion,   \* bound of the key versions
    Ops,          \* the operations requests may ask for
    Live,         \* credentials whose adapter reaches a target; the others
                  \* have the one of routes.ts, which does nothing
    Faults,       \* whether requests may fail
    None

ASSUME VaultAssumption ==
    /\ MaxVersion \in Nat \ {0}
    /\ Ops \subseteq {"create", "rotate", "rekey", "delete"}
    /\ Live \subseteq Creds
    /\ Faults \in BOOLEAN
    /\ None \notin Creds \cup Secrets

VARIABLES
    keys,      \* keys[v]: the state of key version v
    cred,      \* committed rows of credentials
    deleted,   \* credentials with deleted_at set
    target,    \* target[c]: the secret the target system accepts
    drawn,     \* secrets in use anywhere
    pc, job,   \* where each request stands, and its local state
    read,      \* read[p]: the rows its SELECT returned
    dirty      \* dirty[p]: the rows it has written and not committed

vars == <<keys, cred, deleted, target, drawn, pc, job, read, dirty>>

-----------------------------------------------------------------------------
(* Keys, rows and requests *)

Versions == 1 .. MaxVersion

(* "none" stands for a version that has no row yet. *)
States == {"none", "ACTIVE", "ROTATING", "RETIRED"}

(* ver is key_version; key and user are the DEKs that sealed the secret    *)
(* and the username.                                                       *)
Row == [ver : Versions, key : Versions, secret : Secrets, user : Versions]

ASSUME VaultRowAssumption == None \notin Row

Rows == [Creds -> Row \cup {None}]

NoRows == [c \in Creds |-> None]

(* cred is the row at hand, ver the key version the request works with,    *)
(* new the secret it has drawn.                                            *)
Job == [op : {"create", "rotate", "rekey", "none"}, cred : Creds \cup {None},
        ver : Versions, new : Secrets \cup {None}]

NewJob(op, c, v, s) == [op |-> op, cred |-> c, ver |-> v, new |-> s]

NoJob == NewJob("none", None, 1, None)

Phases == {"idle", "active", "seal", "change", "verify", "update",
           "max", "insert", "mark", "select", "reseal", "write", "commit"}

Exists(v) == keys[v] # "none"

Newest == CHOOSE v \in Versions : Exists(v) /\ \A u \in Versions : Exists(u) => u <= v

(* unseal() under the key version of the row. *)
Opens(row) == row.key = row.ver

Busy(p) == pc[p] # "idle"

(* Another transaction has written the row and not ended. *)
Locked(p, c) == \E q \in Procs \ {p} : dirty[q][c] # None

Init ==
    /\ keys = [v \in Versions |-> IF v = 1 THEN "ACTIVE" ELSE "none"]
    /\ cred = NoRows
    /\ deleted = {}
    /\ drawn \in SUBSET Secrets
    /\ target \in [Creds -> drawn]
    /\ drawn = {target[c] : c \in Creds}
    /\ pc = [p \in Procs |-> "idle"]
    /\ job = [p \in Procs |-> NoJob]
    /\ read = [p \in Procs |-> NoRows]
    /\ dirty = [p \in Procs |-> NoRows]

-----------------------------------------------------------------------------
(* Transactions *)

Goto(p, phase) == pc' = [pc EXCEPT ![p] = phase]

Begin(p, phase, j) ==
    /\ pc[p] = "idle"
    /\ j.op \in Ops
    /\ Goto(p, phase)
    /\ job' = [job EXCEPT ![p] = j]

End(p) ==
    /\ Goto(p, "idle")
    /\ job' = [job EXCEPT ![p] = NoJob]
    /\ read' = [read EXCEPT ![p] = NoRows]
    /\ dirty' = [dirty EXCEPT ![p] = NoRows]

(* An exception: ROLLBACK. *)
Abort(p) ==
    /\ End(p)
    /\ UNCHANGED <<keys, cred, deleted, target, drawn>>

(* UPDATE or INSERT of row c. *)
WriteRow(p, c, row) ==
    /\ ~Locked(p, c)
    /\ dirty' = [dirty EXCEPT ![p][c] = row]
    /\ UNCHANGED <<keys, cred, deleted, target, drawn, job, read>>

(* Fault: <= for <. *)
RetireTooMany(v) ==
    [u \in Versions |-> IF Exists(u) /\ u <= v THEN "RETIRED" ELSE keys[u]]

(* rotateTenantKeys retires every key below its own, then audits. *)
Retire(v) == [u \in Versions |-> IF u < v THEN "RETIRED" ELSE keys[u]]

Commit(p) ==
    /\ pc[p] = "commit"
    /\ cred' = [c \in Creds |-> IF dirty[p][c] # None THEN dirty[p][c] ELSE cred[c]]
    /\ keys' = IF job[p].op = "rekey" THEN Retire(job[p].ver) ELSE keys
    /\ End(p)
    /\ UNCHANGED <<deleted, target, drawn>>

(* Any await of a request may reject, or its process die. *)
Fail(p) == Faults /\ Busy(p) /\ Abort(p)

-----------------------------------------------------------------------------
(* createCredential *)

BeginCreate(p, c) ==
    /\ cred[c] = None /\ \A q \in Procs : job[q].cred # c
    /\ Begin(p, "active", NewJob("create", c, 1, None))
    /\ UNCHANGED <<keys, cred, deleted, target, drawn, read, dirty>>

(* The newest ACTIVE version, or 1 where there is none. *)
ReadActive(p) ==
    LET active == {v \in Versions : keys[v] = "ACTIVE"} IN
    /\ pc[p] = "active"
    /\ \E v \in Versions :
           /\ IF active = {} THEN v = 1 ELSE v \in active /\ \A u \in active : u <= v
           /\ job' = [job EXCEPT ![p].ver = v]
    /\ Goto(p, "seal")
    /\ UNCHANGED <<keys, cred, deleted, target, drawn, read, dirty>>

NewRow(c, v) == [ver |-> v, key |-> v, secret |-> target[c], user |-> v]

(* Secret and username are sealed and inserted. *)
SealNew(p) ==
    LET c == job[p].cred  v == job[p].ver IN
    /\ pc[p] = "seal"
    /\ IF Exists(v) THEN WriteRow(p, c, NewRow(c, v)) /\ Goto(p, "commit")
                    ELSE Abort(p)

-----------------------------------------------------------------------------
(* rotateCredential *)

(* The row is read, deleted or not, and its secret unsealed; a secret that *)
(* does not open ends the request before it has done anything.             *)
BeginRotate(p, c, s) ==
    /\ cred[c] # None
    /\ s \in Secrets \ drawn
    /\ Opens(cred[c])
    /\ Begin(p, "change", NewJob("rotate", c, cred[c].ver, s))
    /\ read' = [read EXCEPT ![p][c] = cred[c]]
    /\ drawn' = drawn \cup {s}
    /\ UNCHANGED <<keys, cred, deleted, target, dirty>>

(* Fault: what changePassword() answers is not verified. *)
ChangeUnverified(p) ==
    LET c == job[p].cred IN
    /\ pc[p] = "change"
    /\ \/ /\ c \in Live /\ target[c] = read[p][c].secret
          /\ target' = [target EXCEPT ![c] = job[p].new]
       \/ UNCHANGED target
    /\ Goto(p, "update")
    /\ UNCHANGED <<keys, cred, deleted, drawn, job, read, dirty>>

(* changePassword(): the target takes the new secret from whoever knows    *)
(* the old one, and refuses it from anybody else; or its adapter answers   *)
(* and nothing has come of it.  The adapter that routes.ts injects leaves  *)
(* the target alone and verifies everything.                               *)
ChangeTarget(p) ==
    LET c == job[p].cred IN
    /\ pc[p] = "change"
    /\ \/ /\ c \notin Live
          /\ Goto(p, "update")
          /\ UNCHANGED <<keys, cred, deleted, target, drawn, job, read, dirty>>
       \/ /\ c \in Live
          /\ \/ /\ target[c] = read[p][c].secret
                /\ target' = [target EXCEPT ![c] = job[p].new]
             \/ UNCHANGED target
          /\ Goto(p, "verify")
          /\ UNCHANGED <<keys, cred, deleted, drawn, job, read, dirty>>
       \/ /\ c \in Live /\ target[c] # read[p][c].secret
          /\ Abort(p)

(* Fault: what verify() says is not heeded. *)
VerifyUnheeded(p) ==
    /\ pc[p] = "verify"
    /\ Goto(p, "update")
    /\ UNCHANGED <<keys, cred, deleted, target, drawn, job, read, dirty>>

(* verify(): a target that cannot be reached verifies nothing. *)
Verify(p) ==
    /\ pc[p] = "verify"
    /\ \/ /\ target[job[p].cred] = job[p].new
          /\ Goto(p, "update")
          /\ UNCHANGED <<keys, cred, deleted, target, drawn, job, read, dirty>>
       \/ /\ Faults \/ target[job[p].cred] # job[p].new
          /\ Abort(p)

(* Sealed under the key version that was read; key_version is not set.     *)
UpdateSecret(p) ==
    LET c == job[p].cred IN
    /\ pc[p] = "update"
    /\ WriteRow(p, c, [cred[c] EXCEPT !.key = job[p].ver, !.secret = job[p].new])
    /\ Goto(p, "commit")

-----------------------------------------------------------------------------
(* rotateTenantKeys *)

BeginRekey(p) ==
    /\ Begin(p, "max", NewJob("rekey", None, 1, None))
    /\ UNCHANGED <<keys, cred, deleted, target, drawn, read, dirty>>

(* generateDek: coalesce(max(key_version), 0) + 1.  At the bound of the    *)
(* model the request ends instead.                                         *)
ReadMax(p) ==
    /\ pc[p] = "max"
    /\ \/ Newest = MaxVersion /\ Abort(p)
       \/ /\ Newest < MaxVersion
          /\ job' = [job EXCEPT ![p].ver = Newest + 1]
          /\ Goto(p, "insert")
          /\ UNCHANGED <<keys, cred, deleted, target, drawn, read, dirty>>

(* generateDek: UNIQUE (tenant_id, key_version) refuses the second of two  *)
(* rotations that read the same maximum.                                   *)
InsertKey(p) ==
    LET v == job[p].ver IN
    /\ pc[p] = "insert"
    /\ \/ Exists(v) /\ Abort(p)
       \/ /\ ~Exists(v)
          /\ keys' = [keys EXCEPT ![v] = "ACTIVE"]
          /\ Goto(p, "mark")
          /\ UNCHANGED <<cred, deleted, target, drawn, job, read, dirty>>

(* Fault: AND state='ACTIVE' is missing. *)
RotatingAnyState(v) ==
    [u \in Versions |-> IF u < v THEN "ROTATING" ELSE keys[u]]

Rotating(v) ==
    [u \in Versions |-> IF u < v /\ keys[u] = "ACTIVE" THEN "ROTATING" ELSE keys[u]]

(* rotateTenantDek. *)
MarkRotating(p) ==
    /\ pc[p] = "mark"
    /\ keys' = Rotating(job[p].ver)
    /\ Goto(p, "select")
    /\ UNCHANGED <<cred, deleted, target, drawn, job, read, dirty>>

SelectCreds(p) ==
    /\ pc[p] = "select"
    /\ read' = [read EXCEPT ![p] =
           [c \in Creds |-> IF c \in deleted THEN None ELSE cred[c]]]
    /\ Goto(p, "reseal")
    /\ UNCHANGED <<keys, cred, deleted, target, drawn, job, dirty>>

ToDo(p) == {c \in Creds : read[p][c] # None /\ dirty[p][c] = None}

(* The next row, in no order the query states.  One that does not open     *)
(* fails the whole rotation.                                               *)
Unseal(p) ==
    /\ pc[p] = "reseal"
    /\ \E c \in ToDo(p) :
           \/ ~Opens(read[p][c]) /\ Abort(p)
           \/ /\ Opens(read[p][c])
              /\ job' = [job EXCEPT ![p].cred = c]
              /\ Goto(p, "write")
              /\ UNCHANGED <<keys, cred, deleted, target, drawn, read, dirty>>

(* Fault: the new key_version is not stored. *)
ResealedKeepingVersion(p, c) ==
    [cred[c] EXCEPT !.key = job[p].ver, !.secret = read[p][c].secret]

(* The secret under the new version; the username stays as it is. *)
Resealed(p, c) ==
    [cred[c] EXCEPT !.ver = job[p].ver, !.key = job[p].ver,
                    !.secret = read[p][c].secret]

WriteResealed(p) ==
    LET c == job[p].cred IN
    /\ pc[p] = "write"
    /\ WriteRow(p, c, Resealed(p, c))
    /\ Goto(p, "reseal")

AllResealed(p) ==
    /\ pc[p] = "reseal"
    /\ ToDo(p) = {}
    /\ Goto(p, "commit")
    /\ UNCHANGED <<keys, cred, deleted, target, drawn, job, read, dirty>>

-----------------------------------------------------------------------------
(* The rest of the system *)

(* DELETE /credentials/:id *)
DeleteCredential(c) ==
    /\ "delete" \in Ops
    /\ cred[c] # None /\ c \notin deleted
    /\ \A p \in Procs : dirty[p][c] = None
    /\ deleted' = deleted \cup {c}
    /\ UNCHANGED <<keys, cred, target, drawn, pc, job, read, dirty>>

(* p waits for a row that q has written. *)
Blocks(p, q) ==
    /\ p # q
    /\ pc[p] \in {"update", "write"}
    /\ dirty[q][job[p].cred] # None

(* Fault: deadlock detection is off. *)
NeverDeadlocked(p) == FALSE

(* p is on a cycle of waiting transactions. *)
Deadlocked(p) ==
    \E S \in SUBSET Procs :
        /\ p \in S
        /\ \A q \in S : /\ \E r \in S : Blocks(q, r)
                        /\ \E r \in S : Blocks(r, q)

(* PostgreSQL aborts one of them. *)
DeadlockAbort(p) == Deadlocked(p) /\ Abort(p)

Arrive(p) ==
    \/ \E c \in Creds : BeginCreate(p, c)
    \/ \E c \in Creds, s \in Secrets : BeginRotate(p, c, s)
    \/ BeginRekey(p)

Work(p) ==
    \/ ReadActive(p) \/ SealNew(p)
    \/ ChangeTarget(p) \/ Verify(p)
    \/ ReadMax(p) \/ InsertKey(p) \/ MarkRotating(p) \/ SelectCreds(p)
    \/ Unseal(p) \/ AllResealed(p) \/ Commit(p) \/ DeadlockAbort(p)

Write(p) == UpdateSecret(p) \/ WriteResealed(p)

Next ==
    \/ \E p \in Procs : Arrive(p) \/ Work(p) \/ Write(p) \/ Fail(p)
    \/ \E c \in Creds : DeleteCredential(c)

Spec == Init /\ [][Next]_vars

(* Statements complete, and PostgreSQL serves the waiters of a row in turn. *)
Fairness == \A p \in Procs : WF_vars(Work(p)) /\ SF_vars(Write(p))

FairSpec == Spec /\ Fairness

-----------------------------------------------------------------------------
(* Properties *)

(* Every variable holds a value of its kind.                               *)
TypeOK ==
    /\ keys \in [Versions -> States]
    /\ cred \in Rows
    /\ deleted \subseteq Creds
    /\ target \in [Creds -> Secrets]
    /\ drawn \subseteq Secrets
    /\ pc \in [Procs -> Phases]
    /\ job \in [Procs -> Job]
    /\ read \in [Procs -> Rows]
    /\ dirty \in [Procs -> Rows]

(* However rotations overlap and fail, the newest key is ACTIVE: a new     *)
(* credential is sealed under it, never under the fallback version 1.      *)
NewestKeyActive == keys[Newest] = "ACTIVE"

Rank(state) == CASE state = "RETIRED" -> 2 [] state = "ROTATING" -> 1 [] OTHER -> 0

(* A key is never behind a newer one on the way to RETIRED, even where the *)
(* rotation that was to retire it failed halfway.                          *)
KeyStatesOrdered ==
    \A u, v \in Versions : u < v /\ Exists(v) => Exists(u) /\ Rank(keys[u]) >= Rank(keys[v])

(* No key comes back to an earlier state: none, ACTIVE, ROTATING, RETIRED. *)
KeyStatesAdvance ==
    [][\A v \in Versions : keys'[v] # keys[v] =>
           \/ ~Exists(v)
           \/ keys'[v] # "none" /\ Rank(keys'[v]) > Rank(keys[v])]_vars

(* A rotation that reaches its target, between verify() and its end.       *)
HoldsTarget(p) ==
    job[p].op = "rotate" /\ job[p].cred \in Live /\ pc[p] \in {"update", "commit"}

(* Rotations of one credential that overlap have all read the old secret,  *)
(* and what an adapter was asked to change it may not have changed.  Yet   *)
(* one that goes on to store its secret has the target to itself from      *)
(* verify() until it ends: it stores what the target accepts, and not what *)
(* another has set since, or nobody.                                       *)
RotationHoldsTarget ==
    \A p \in Procs : HoldsTarget(p) => target[job[p].cred] = job[p].new

(* Where no credential is rotated meanwhile, key rotations that overlap,   *)
(* fail and deadlock never lose a secret: each stored one opens under its  *)
(* key_version, and is the one its target accepts.                         *)
Recoverable ==
    \A c \in Creds : cred[c] # None =>
        Exists(cred[c].ver) /\ Opens(cred[c]) /\ cred[c].secret = target[c]

(* A rotation may have changed its target.                                 *)
Changing(p) == HoldsTarget(p) \/ pc[p] = "verify"

(* What is stored is what the target accepts, but for a credential that a  *)
(* rotation has in its hands.                                              *)
InStep(c) ==
    cred[c] # None /\ (\A p \in Procs : Changing(p) => job[p].cred # c) =>
        cred[c].secret = target[c]

(* The vault falls out of step with a target in two ways only, however     *)
(* requests overlap: a rotation of the credential fails after              *)
(* changePassword() and before its commit, or a rotation of all keys       *)
(* commits, and with it the secret it had read.                            *)
OutOfStepOnlyBy ==
    [][\A c \in Live : InStep(c) /\ ~InStep(c)' =>
           \E p \in Procs :
               \/ Changing(p) /\ job[p].cred = c /\ Abort(p)
               \/ job[p].op = "rekey" /\ dirty[p][c] # None /\ Commit(p)]_vars

(* What a stored credential reveals to whoever unseals it.                 *)
Stored == {c \in Creds : cred[c] # None}

Revealed(c) ==
    IF Exists(cred[c].ver) /\ Opens(cred[c]) THEN cred[c].secret ELSE None

Store == INSTANCE SecretStore WITH content <- [c \in Stored |-> Revealed(c)]

(* Where no credential is rotated meanwhile, the vault is a store in which *)
(* a secret never changes: rotations of all keys cannot be told from doing *)
(* nothing, at any moment, whether they commit, fail or deadlock.          *)
ImplementsStore == Store!StoreSpec

(* Every request ends, though two rotations of all keys write the same     *)
(* rows in opposite orders.                                                *)
RequestsEnd == \A p \in Procs : Busy(p) ~> ~Busy(p)

-----------------------------------------------------------------------------
(* Claims of the documentation that the code does not keep *)

(* "re-seal under current DEK" (vault.ts:303): what rotateCredential       *)
(* stores opens under the key version of its row.                          *)
Readable == \A c \in Creds : cred[c] # None => Opens(cred[c])

(* "all credentials re-sealed" (vault.ts:335): the username of a           *)
(* credential opens under the key version of its row.                      *)
UsernameReadable == \A c \in Creds : cred[c] # None => cred[c].user = cred[c].ver
=============================================================================
