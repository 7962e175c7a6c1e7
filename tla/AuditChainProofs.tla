-------------------------- MODULE AuditChainProofs --------------------------
(***************************************************************************)
(* Proofs about AuditChain, for any number of tenants, concurrent calls    *)
(* and events, when the advisory lock is a real one (PostgreSQL).          *)
(***************************************************************************)
EXTENDS AuditChain, TLAPS

(* The rows of a tenant have a newest one (a finite set of numbered rows). *)
HasNewest(rows) == rows = {} \/ \E r \in rows : IsNewest(rows, r)

(* A call past Lock is the holder of the lock of its tenant.               *)
LockInv == \A w \in Writers : pc[w] \in Holding => holder[KeyOf(w)] = w

(* Ids drawn so far are below the sequence; an inserted row is newer than  *)
(* every committed one, and hangs on the newest of them.                   *)
OrderInv ==
    /\ \A t \in Tenants : HasNewest(log[t])
    /\ \A t \in Tenants : \A r \in log[t] : r.id < nextId
    /\ \A w \in Writers : pc[w] = "inserted" =>
           /\ rowId[w] < nextId
           /\ \A r \in log[req[w].tenant] : r.id < rowId[w]
    /\ \A w \in Writers : pc[w] \in {"read", "inserted"} =>
           prev[w] = LastHash(log[req[w].tenant])

(* The inductive invariant.                                                *)
IInv == TypeOK /\ LockInv /\ OrderInv /\ ChainIntact

-----------------------------------------------------------------------------
(* Appending a row with the largest id to a set of rows. *)

(* The newest row of a log is determined by its id, so LastHash is its hash. *)
LEMMA LastHashOfNewest ==
    ASSUME NEW rows, rows \in SUBSET Row, NEW r, r \in rows,
           \A s \in rows \ {r} : s.id < r.id
    PROVE  LastHash(rows) = r.hash
<1>1. IsNewest(rows, r)
  BY SMT DEF IsNewest, Row
<1>2. ASSUME NEW q \in rows, IsNewest(rows, q) PROVE q = r
  BY <1>2, SMT DEF IsNewest, Row
<1>3. (CHOOSE q \in rows : IsNewest(rows, q)) = r
  BY <1>1, <1>2, Zenon
<1> QED BY <1>3, Zenon DEF LastHash

(* The hash of a newest row is a hash. *)
LEMMA LastHashType ==
    ASSUME NEW rows, rows \in SUBSET Row, HasNewest(rows)
    PROVE  LastHash(rows) \in Hash
<1>1. CASE rows = {}
  BY <1>1, SMT DEF LastHash, ZeroHash, Hash
<1>2. CASE rows # {}
  <2>1. PICK r \in rows : IsNewest(rows, r) BY <1>2, Zenon DEF HasNewest
  <2>2. (CHOOSE q \in rows : IsNewest(rows, q)) \in rows BY <2>1, Zenon
  <2> QED BY <1>2, <2>2, SMT DEF LastHash, Row
<1> QED BY <1>1, <1>2

(* A row with the largest id that hangs on the newest row breaks no link   *)
(* and is linked itself: verifyChain() sees the same broken rows as before. *)
LEMMA AppendKeepsLinks ==
    ASSUME NEW rows, rows \in SUBSET Row, NEW n \in Row,
           \A s \in rows : s.id < n.id,
           n.prev = LastHash(rows), n.hash = chainHash(n.prev, n.cov)
    PROVE  /\ BrokenIds(rows \cup {n}) = BrokenIds(rows)
           /\ LastHash(rows \cup {n}) = n.hash
           /\ HasNewest(rows \cup {n})
<1> DEFINE new == rows \cup {n}
<1>1. \A s \in rows : Before(new, s) = Before(rows, s)
  BY SMT DEF Before, Row
<1>2. Before(new, n) = rows
  BY SMT DEF Before, Row
<1>3. \A s \in rows : Linked(new, s) <=> Linked(rows, s)
  BY <1>1, Zenon DEF Linked
<1>4. Linked(new, n)
  BY <1>2, Zenon DEF Linked
<1>5. {s \in new : ~Linked(new, s)} = {s \in rows : ~Linked(rows, s)}
  BY <1>3, <1>4, Zenon
<1>6. BrokenIds(new) = BrokenIds(rows)
  BY <1>5, Zenon DEF BrokenIds
<1>7. LastHash(new) = n.hash
  BY LastHashOfNewest, new \in SUBSET Row, n \in new, SMT
<1>8. HasNewest(new)
  BY SMT DEF HasNewest, IsNewest, Row
<1> QED BY <1>6, <1>7, <1>8
-----------------------------------------------------------------------------
(* The invariant is inductive. *)

(* A call that is not idle has a request of a tenant.                      *)
LEMMA RequestOfCall ==
    ASSUME TypeOK, NEW w \in Writers, pc[w] # "idle"
    PROVE  req[w] \in Request /\ req[w].tenant \in Tenants /\ KeyOf(w) \in Keys
<1>1. req[w] \in Request BY Zenon DEF TypeOK
<1>2. req[w].tenant \in Tenants BY <1>1, SMT DEF Request
<1> QED BY <1>1, <1>2, Zenon DEF KeyOf, Keys

(* At most one call per tenant is past Lock.                               *)
LEMMA OneHolder ==
    ASSUME LockInv, NEW w \in Writers, NEW v \in Writers,
           pc[w] \in Holding, pc[v] \in Holding,
           req[w].tenant = req[v].tenant
    PROVE  w = v
BY Zenon DEF LockInv, KeyOf

(* The row a call commits is a row, newer than every committed one, and    *)
(* hangs on the newest of them.                                            *)
LEMMA NewRowFits ==
    ASSUME IInv, NEW w \in Writers, pc[w] = "inserted"
    PROVE  /\ NewRow(w) \in Row
           /\ NewRow(w).id < nextId
           /\ \A s \in log[req[w].tenant] : s.id < NewRow(w).id
           /\ NewRow(w).prev = LastHash(log[req[w].tenant])
           /\ NewRow(w).hash = chainHash(NewRow(w).prev, NewRow(w).cov)
<1>1. req[w] \in Request BY RequestOfCall, Zenon DEF IInv
<1>2. prev[w] \in Hash /\ rowId[w] \in Nat BY Zenon DEF IInv, TypeOK
<1>3. req[w].cov \in Covered /\ req[w].unc \in Uncovered
  BY <1>1, SMT DEF Request
<1>4. chainHash(prev[w], req[w].cov) \in Hash
  BY <1>2, <1>3, SMT DEF chainHash, Hash
<1>5. NewRow(w) \in Row
  BY <1>2, <1>3, <1>4, SMT DEF NewRow, Row
<1>6. /\ rowId[w] < nextId
      /\ \A r \in log[req[w].tenant] : r.id < rowId[w]
      /\ prev[w] = LastHash(log[req[w].tenant])
  BY SMT DEF IInv, OrderInv
<1> QED BY <1>5, <1>6, Zenon DEF NewRow

(* Initially the only row of a log is the one setup.ts wrote, and it is    *)
(* not linked: its hash covers nothing.                                    *)
LEMMA InitIInv == Init => IInv
<1> SUFFICES ASSUME Init PROVE IInv OBVIOUS
<1> USE AuditAssumption
<1>1. SetupRow \in Row
  BY SMT DEF SetupRow, Row, SetupId, ZeroHash, Hash
<1>2. TypeOK
  <2>1. log \in [Tenants -> SUBSET Row] BY <1>1, Zenon DEF Init
  <2>2. prev \in [Writers -> Hash] BY SMT DEF Init, Hash, ZeroHash
  <2>3. NoRequest \notin Request BY Zenon DEF Request
  <2> QED BY <2>1, <2>2, <2>3, SMT DEF Init, TypeOK, Phases, SetupId
<1>3. LockInv BY SMT DEF Init, LockInv, Holding
<1>4. SetupRow.id = SetupId BY Zenon DEF SetupRow
<1>5. ASSUME NEW t \in Tenants, t \in SetupTenants
      PROVE  HasNewest(log[t]) /\ (\A r \in log[t] : r.id < nextId)
             /\ BrokenIds(log[t]) = {SetupId}
  <2>1. log[t] = {SetupRow} BY <1>5, Zenon DEF Init
  <2>2. IsNewest(log[t], SetupRow)
    BY <2>1, <1>4, SMT DEF IsNewest, SetupId
  <2>3. ~Linked(log[t], SetupRow)
    BY SMT DEF Linked, SetupRow, ZeroHash, chainHash
  <2>4. {s \in log[t] : ~Linked(log[t], s)} = {SetupRow}
    BY <2>1, <2>3, Zenon
  <2>5. BrokenIds(log[t]) = {SetupId} BY <2>4, <1>4, Zenon DEF BrokenIds
  <2>6. \A r \in log[t] : r.id < nextId
    BY <2>1, <1>4, SMT DEF Init, SetupId
  <2> QED BY <2>2, <2>5, <2>6, Zenon DEF HasNewest, IsNewest
<1>6. ASSUME NEW t \in Tenants, t \notin SetupTenants
      PROVE  HasNewest(log[t]) /\ (\A r \in log[t] : r.id < nextId)
             /\ BrokenIds(log[t]) = {}
  <2>1. log[t] = {} BY <1>6, Zenon DEF Init
  <2> QED BY <2>1, Zenon DEF HasNewest, BrokenIds
<1>7. \A w \in Writers : pc[w] = "idle" BY Zenon DEF Init
<1>8. OrderInv
  BY <1>5, <1>6, <1>7, SMT DEF OrderInv
<1>9. ChainIntact BY <1>5, <1>6, Zenon DEF ChainIntact
<1> QED BY <1>2, <1>3, <1>8, <1>9 DEF IInv

(* Every action keeps every variable in its type.                          *)
LEMMA TypeStep == IInv /\ [Next]_vars => TypeOK'
<1> SUFFICES ASSUME IInv, [Next]_vars PROVE TypeOK'
  OBVIOUS
<1> USE AuditAssumption
<1>t. TypeOK BY DEF IInv
<1>n. NoRequest \notin Request BY Zenon DEF Request
<1>1. ASSUME NEW w \in Writers, Call(w) PROVE TypeOK'
  <2>1. PICK r \in Request : req' = [req EXCEPT ![w] = r]
    BY <1>1, Zenon DEF Call
  <2> QED BY <1>t, <1>n, <1>1, <2>1, SMT DEF Call, TypeOK, Phases
<1>2. ASSUME NEW w \in Writers, Lock(w) PROVE TypeOK'
  <2>1. KeyOf(w) \in Keys BY <1>2, <1>t, RequestOfCall, SMT DEF Lock
  <2> QED BY <1>t, <1>2, <2>1, SMT DEF Lock, TypeOK, Phases
<1>3. ASSUME NEW w \in Writers, ReadLast(w) PROVE TypeOK'
  <2>1. req[w].tenant \in Tenants
    BY <1>3, <1>t, RequestOfCall, SMT DEF ReadLast
  <2>2. log[req[w].tenant] \in SUBSET Row /\ HasNewest(log[req[w].tenant])
    BY <2>1, <1>t, Zenon DEF TypeOK, IInv, OrderInv
  <2>3. LastHash(log[req[w].tenant]) \in Hash BY <2>2, LastHashType, Zenon
  <2> QED BY <1>t, <1>3, <2>3, SMT DEF ReadLast, TypeOK, Phases
<1>4. ASSUME NEW w \in Writers, Insert(w) PROVE TypeOK'
  BY <1>t, <1>4, SMT DEF Insert, TypeOK, Phases
<1>5. ASSUME NEW w \in Writers, Finish(w), pc[w] # "idle",
             log' \in [Tenants -> SUBSET Row]
      PROVE  TypeOK'
  <2>1. ZeroHash \in Hash BY SMT DEF ZeroHash, Hash
  <2> QED BY <1>t, <1>n, <1>5, <2>1, SMT DEF Finish, TypeOK, Phases
<1>6. ASSUME NEW w \in Writers, Commit(w) PROVE TypeOK'
  <2>1. NewRow(w) \in Row BY <1>6, NewRowFits, Zenon DEF Commit
  <2>2. log' \in [Tenants -> SUBSET Row]
    <3>1. req[w].tenant \in Tenants
      BY <1>6, <1>t, RequestOfCall, SMT DEF Commit
    <3>2. log[req[w].tenant] \cup {NewRow(w)} \in SUBSET Row
      BY <2>1, <3>1, <1>t, Zenon DEF TypeOK
    <3>3. log' = [log EXCEPT ![req[w].tenant] = @ \cup {NewRow(w)}]
      BY <1>6, Zenon DEF Commit
    <3>4. log \in [Tenants -> SUBSET Row] BY <1>t, Zenon DEF TypeOK
    <3> QED BY <3>1, <3>2, <3>3, <3>4, Zenon
  <2>3. Finish(w) BY <1>6 DEF Commit
  <2>4. pc[w] # "idle" BY <1>6, SMT DEF Commit
  <2> QED BY <1>5, <2>2, <2>3, <2>4
<1>7. ASSUME NEW w \in Writers, Rollback(w) PROVE TypeOK'
  BY <1>5, <1>7, <1>t, Zenon DEF Rollback, TypeOK
<1>8. CASE UNCHANGED vars BY <1>t, <1>8, SMT DEF vars, TypeOK
<1> QED BY <1>1, <1>2, <1>3, <1>4, <1>6, <1>7, <1>8, Zenon DEF Next

(* With a real lock, nobody takes a lock from the call that holds it.      *)
LEMMA LockStep ==
    ASSUME SerializingLock, IInv, [Next]_vars
    PROVE  LockInv'
<1> USE AuditAssumption
<1>t. TypeOK /\ LockInv BY DEF IInv
<1>1. ASSUME NEW w \in Writers, Call(w) PROVE LockInv'
  <2>1. \A v \in Writers \ {w} : pc'[v] = pc[v] /\ req'[v] = req[v]
    BY <1>1, <1>t, SMT DEF Call, TypeOK
  <2>2. pc'[w] = "waiting" BY <1>1, <1>t, SMT DEF Call, TypeOK
  <2> QED BY <1>1, <1>t, <2>1, <2>2, SMT DEF Call, LockInv, Holding, KeyOf
<1>2. ASSUME NEW w \in Writers, Lock(w) PROVE LockInv'
  <2>1. KeyOf(w) \in Keys BY <1>2, <1>t, RequestOfCall, SMT DEF Lock
  <2>2. holder[KeyOf(w)] = NoWriter BY <1>2, SMT DEF Lock, LockFree
  <2>3. \A v \in Writers : KeyOf(v)' = KeyOf(v) BY <1>2, Zenon DEF Lock, KeyOf
  <2>4. \A v \in Writers \ {w} :
          pc[v] \in Holding => holder[KeyOf(v)] = v /\ KeyOf(v) # KeyOf(w)
    BY <1>t, <2>2, Zenon DEF LockInv
  <2>5. \A v \in Writers \ {w} : pc'[v] = pc[v]
    BY <1>2, <1>t, SMT DEF Lock, TypeOK
  <2>6. \A k \in Keys : k # KeyOf(w) => holder'[k] = holder[k]
    BY <1>2, <1>t, SMT DEF Lock, TypeOK
  <2>7. holder'[KeyOf(w)] = w BY <1>2, <1>t, <2>1, SMT DEF Lock, TypeOK
  <2>8. \A v \in Writers : pc[v] \in Holding => KeyOf(v) \in Keys
    BY <1>t, RequestOfCall, SMT DEF Holding
  <2> QED BY <2>3, <2>4, <2>5, <2>6, <2>7, <2>8, Zenon DEF LockInv
<1>3. ASSUME NEW w \in Writers, ReadLast(w) PROVE LockInv'
  BY <1>3, <1>t, SMT DEF ReadLast, TypeOK, LockInv, Holding, KeyOf
<1>4. ASSUME NEW w \in Writers, Insert(w) PROVE LockInv'
  BY <1>4, <1>t, SMT DEF Insert, TypeOK, LockInv, Holding, KeyOf
<1>5. ASSUME NEW w \in Writers, Finish(w) PROVE LockInv'
  <2>1. \A v \in Writers \ {w} : pc'[v] = pc[v] /\ req'[v] = req[v]
    BY <1>5, <1>t, SMT DEF Finish, TypeOK
  <2>2. pc'[w] = "idle" BY <1>5, <1>t, SMT DEF Finish, TypeOK
  <2>3. \A v \in Writers \ {w} : pc[v] \in Holding =>
          KeyOf(v) \in Keys /\ KeyOf(v)' = KeyOf(v) /\ holder[KeyOf(v)] = v
    BY <1>t, <2>1, RequestOfCall, SMT DEF Holding, KeyOf, LockInv
  <2>4. \A v \in Writers \ {w} : pc[v] \in Holding =>
          holder'[KeyOf(v)] = v
    BY <1>5, <2>3, SMT DEF Finish
  <2> QED BY <2>1, <2>2, <2>3, <2>4, SMT DEF LockInv, Holding
<1>8. CASE UNCHANGED vars BY <1>t, <1>8, SMT DEF vars, LockInv, KeyOf
<1> QED BY <1>1, <1>2, <1>3, <1>4, <1>5, <1>8, Zenon
        DEF Next, Commit, Rollback

(* The commit of a new row keeps the ids in order, the chain whole, and    *)
(* leaves no other call of that tenant with a stale hash: there is none.   *)
LEMMA CommitStep ==
    ASSUME SerializingLock, IInv, NEW w \in Writers, Commit(w)
    PROVE  (OrderInv /\ ChainIntact)'
<1> USE AuditAssumption
<1> DEFINE t == req[w].tenant
           n == NewRow(w)
<1>t. TypeOK /\ LockInv /\ OrderInv /\ ChainIntact BY DEF IInv
<1>1. pc[w] = "inserted" /\ Finish(w) BY DEF Commit
<1>2. t \in Tenants BY <1>1, <1>t, RequestOfCall, SMT
<1>3. /\ log'[t] = log[t] \cup {n}
      /\ \A u \in Tenants \ {t} : log'[u] = log[u]
  BY <1>2, <1>t, SMT DEF Commit, TypeOK
<1>4. /\ n \in Row /\ n.id < nextId
      /\ \A s \in log[t] : s.id < n.id
      /\ n.prev = LastHash(log[t])
      /\ n.hash = chainHash(n.prev, n.cov)
  BY <1>1, NewRowFits, Zenon
<1>5. log[t] \in SUBSET Row BY <1>2, <1>t, Zenon DEF TypeOK
<1>6. /\ BrokenIds(log'[t]) = BrokenIds(log[t])
      /\ HasNewest(log'[t])
  <2> HIDE DEF t, n
  <2>1. /\ BrokenIds(log[t] \cup {n}) = BrokenIds(log[t])
        /\ HasNewest(log[t] \cup {n})
    BY <1>4, <1>5, AppendKeepsLinks
  <2> QED BY <1>3, <2>1, Zenon
<1>7. ChainIntact'
  BY <1>3, <1>6, <1>t, Zenon DEF ChainIntact
<1>8. \A v \in Writers \ {w} :
        /\ pc'[v] = pc[v] /\ req'[v] = req[v]
        /\ prev'[v] = prev[v] /\ rowId'[v] = rowId[v]
  BY <1>1, <1>t, SMT DEF Finish, TypeOK
<1>9. pc'[w] = "idle" /\ nextId' = nextId
  BY <1>1, <1>t, SMT DEF Finish, TypeOK
<1>10. ASSUME NEW v \in Writers, v # w, pc[v] \in {"read", "inserted"}
       PROVE  log'[req[v].tenant] = log[req[v].tenant]
  <2>1. req[v].tenant \in Tenants BY <1>10, <1>t, RequestOfCall, SMT
  <2>2. req[v].tenant # t
    BY <1>1, <1>10, <1>t, OneHolder, SMT DEF Holding
  <2> QED BY <2>1, <2>2, <1>3
<1>11. \A u \in Tenants : HasNewest(log'[u])
  BY <1>3, <1>6, <1>t, Zenon DEF OrderInv
<1>12. \A u \in Tenants : \A r \in log'[u] : r.id < nextId'
  BY <1>3, <1>4, <1>9, <1>t, SMT DEF OrderInv
<1>13. ASSUME NEW v \in Writers, pc'[v] = "inserted"
       PROVE  /\ rowId'[v] < nextId'
              /\ \A r \in log'[req'[v].tenant] : r.id < rowId'[v]
  BY <1>8, <1>9, <1>10, <1>13, <1>t, SMT DEF OrderInv
<1>14. ASSUME NEW v \in Writers, pc'[v] \in {"read", "inserted"}
       PROVE  prev'[v] = LastHash(log'[req'[v].tenant])
  BY <1>8, <1>9, <1>10, <1>14, <1>t, SMT DEF OrderInv
<1>15. OrderInv' BY <1>11, <1>12, <1>13, <1>14, Zenon DEF OrderInv
<1> QED BY <1>7, <1>15

(* The other actions leave every log alone.                                *)
LEMMA OrderStep ==
    ASSUME SerializingLock, IInv, [Next]_vars
    PROVE  (OrderInv /\ ChainIntact)'
<1> USE AuditAssumption
<1>t. TypeOK /\ LockInv /\ OrderInv /\ ChainIntact BY DEF IInv
<1>l. ASSUME log' = log PROVE ChainIntact' BY <1>l, <1>t, SMT DEF ChainIntact
<1>1. ASSUME NEW w \in Writers, Call(w) PROVE OrderInv'
  <2>1. \A v \in Writers \ {w} : pc'[v] = pc[v] /\ req'[v] = req[v]
    BY <1>1, <1>t, SMT DEF Call, TypeOK
  <2>2. pc'[w] = "waiting" BY <1>1, <1>t, SMT DEF Call, TypeOK
  <2> QED BY <1>1, <1>t, <2>1, <2>2, SMT DEF Call, OrderInv
<1>2. ASSUME NEW w \in Writers, Lock(w) PROVE OrderInv'
  BY <1>2, <1>t, SMT DEF Lock, TypeOK, OrderInv
<1>3. ASSUME NEW w \in Writers, ReadLast(w) PROVE OrderInv'
  BY <1>3, <1>t, SMT DEF ReadLast, TypeOK, OrderInv
<1>4. ASSUME NEW w \in Writers, Insert(w) PROVE OrderInv'
  <2>1. req[w].tenant \in Tenants
    BY <1>4, <1>t, RequestOfCall, SMT DEF Insert
  <2>2. \A v \in Writers \ {w} : pc'[v] = pc[v] /\ rowId'[v] = rowId[v]
    BY <1>4, <1>t, SMT DEF Insert, TypeOK
  <2>3. rowId'[w] = nextId /\ nextId' = nextId + 1 /\ nextId \in Nat
    BY <1>4, <1>t, SMT DEF Insert, TypeOK
  <2>4. \A v \in Writers : rowId[v] \in Nat BY <1>t, Zenon DEF TypeOK
  <2>5. \A u \in Tenants : \A r \in log[u] : r.id \in Nat /\ r.id < nextId
    BY <1>t, SMT DEF TypeOK, OrderInv, Row
  <2>6. \A v \in Writers : pc'[v] = "inserted" =>
           /\ rowId'[v] < nextId'
           /\ \A r \in log[req[v].tenant] : r.id < rowId'[v]
    BY <2>1, <2>2, <2>3, <2>4, <2>5, <1>t, SMT DEF OrderInv
  <2>7. \A v \in Writers : pc'[v] \in {"read", "inserted"} =>
           prev[v] = LastHash(log[req[v].tenant])
    BY <1>4, <2>2, <1>t, SMT DEF Insert, OrderInv
  <2>8. \A u \in Tenants : \A r \in log[u] : r.id < nextId'
    BY <2>3, <2>5, SMT
  <2>9. log' = log /\ req' = req /\ prev' = prev BY <1>4 DEF Insert
  <2>10. \A u \in Tenants : HasNewest(log[u]) BY <1>t DEF OrderInv
  <2> QED BY <2>6, <2>7, <2>8, <2>9, <2>10, SMT DEF OrderInv
<1>5. ASSUME NEW w \in Writers, Rollback(w) PROVE OrderInv'
  <2>1. \A v \in Writers \ {w} :
          /\ pc'[v] = pc[v] /\ req'[v] = req[v]
          /\ prev'[v] = prev[v] /\ rowId'[v] = rowId[v]
    BY <1>5, <1>t, SMT DEF Rollback, Finish, TypeOK
  <2>2. pc'[w] = "idle" /\ nextId' = nextId /\ log' = log
    BY <1>5, <1>t, SMT DEF Rollback, Finish, TypeOK
  <2> QED BY <1>t, <2>1, <2>2, SMT DEF OrderInv
<1>6. ASSUME UNCHANGED vars PROVE OrderInv'
  <2>1. /\ log' = log /\ nextId' = nextId /\ pc' = pc /\ req' = req
        /\ prev' = prev /\ rowId' = rowId
    BY <1>6, Zenon DEF vars
  <2> QED BY <1>t, <2>1, SMT DEF OrderInv
<1>7. \A w \in Writers : Call(w) \/ Lock(w) \/ ReadLast(w) \/ Insert(w)
                         \/ Rollback(w) => log' = log
  BY Zenon DEF Call, Lock, ReadLast, Insert, Rollback
<1>8. UNCHANGED vars => log' = log BY Zenon DEF vars
<1>9. ASSUME NEW w \in Writers, Commit(w) PROVE OrderInv' /\ ChainIntact'
  BY <1>9, CommitStep
<1>10. CASE Next
  <2>1. PICK w \in Writers : \/ Call(w) \/ Lock(w) \/ ReadLast(w)
                             \/ Insert(w) \/ Commit(w) \/ Rollback(w)
    BY <1>10, Zenon DEF Next
  <2> QED BY <2>1, <1>l, <1>1, <1>2, <1>3, <1>4, <1>5, <1>7, <1>9
<1> QED BY <1>l, <1>6, <1>8, <1>10

-----------------------------------------------------------------------------
(* Theorems *)

(* The inductive invariant holds throughout, when the lock is a real one.  *)
THEOREM Invariance == ASSUME SerializingLock PROVE Spec => []IInv
<1>1. IInv /\ [Next]_vars => IInv'
  BY TypeStep, LockStep, OrderStep DEF IInv
<1> QED BY <1>1, InitIInv, PTL DEF Spec

(* Every variable of the audit log keeps its type.                         *)
THEOREM TypeCorrect == ASSUME SerializingLock PROVE Spec => []TypeOK
<1>1. IInv => TypeOK BY DEF IInv
<1> QED BY <1>1, Invariance, PTL

(* However any number of calls of audit() interleave and fail, the chain   *)
(* of every tenant verifies, up to the row setup.ts wrote.                 *)
THEOREM ChainSafety == ASSUME SerializingLock PROVE Spec => []ChainIntact
<1>1. IInv => ChainIntact BY DEF IInv
<1> QED BY <1>1, Invariance, PTL

(* A row enters a log only with an id above all the log already holds: the *)
(* order verifyChain() walks the rows in is the order they committed in.   *)
THEOREM CommitOrder == ASSUME SerializingLock PROVE Spec => IdsFollowCommits
<1> DEFINE Ordered == \A t \in Tenants : \A new \in log'[t] \ log[t],
                         old \in log[t] : old.id < new.id
<1>1. ASSUME IInv, [Next]_vars PROVE [Ordered]_vars
  <2>1. ASSUME log' = log PROVE Ordered BY <2>1, Zenon
  <2>2. ASSUME NEW w \in Writers, Commit(w) PROVE Ordered
    <3>1. pc[w] = "inserted" BY <2>2 DEF Commit
    <3>2. log' = [log EXCEPT ![req[w].tenant] = @ \cup {NewRow(w)}]
      BY <2>2 DEF Commit
    <3>3. \A s \in log[req[w].tenant] : s.id < NewRow(w).id
      BY <3>1, <1>1, NewRowFits
    <3>4. log \in [Tenants -> SUBSET Row] BY <1>1 DEF IInv, TypeOK
    <3> QED BY <3>2, <3>3, <3>4, Zenon
  <2> QED BY <1>1, <2>1, <2>2, Zenon
          DEF Next, Call, Lock, ReadLast, Insert, Rollback
<1> QED BY <1>1, Invariance, PTL DEF Spec, IdsFollowCommits

(* A change to a hashed column of a row that audit() wrote is reported by  *)
(* verifyChain(), in every reachable log (the first half of TamperEvident). *)
THEOREM AlterationReported ==
    ASSUME NEW rows, rows \in SUBSET Row, NEW r \in rows, Linked(rows, r),
           NEW c \in Covered, c # r.cov
    PROVE  r.id \in BrokenIds(Replace(rows, r, [r EXCEPT !.cov = c]))
<1> DEFINE s == [r EXCEPT !.cov = c]
           new == Replace(rows, r, s)
<1>1. s.id = r.id /\ s.prev = r.prev /\ s.hash = r.hash /\ s.cov = c
  BY SMT DEF Row
<1>2. r.hash = Append(r.prev, r.cov) BY DEF Linked, chainHash
<1>3. Append(r.prev, r.cov) # Append(r.prev, c) BY SMT DEF Row, Hash
<1>4. s \in new /\ ~Linked(new, s)
  BY <1>1, <1>2, <1>3, Zenon DEF Linked, chainHash, Replace
<1> QED BY <1>1, <1>4, Zenon DEF BrokenIds

(* The rows of a tenant have ids of their own, and after each but the      *)
(* newest comes one that audit() has linked to it.                         *)
Follows(rows, r, s) == r.id < s.id /\ \A q \in rows : q.id < s.id => q.id <= r.id

Followed(rows) ==
    /\ \A r, s \in rows : r.id = s.id => r = s
    /\ \A r \in rows : ~IsNewest(rows, r) =>
           \E s \in rows : Linked(rows, s) /\ Follows(rows, r, s)

FollowedInv == \A t \in Tenants : Followed(log[t])

LEMMA AppendFollows ==
    ASSUME NEW rows, rows \in SUBSET Row, NEW n \in Row,
           \A s \in rows : s.id < n.id,
           n.prev = LastHash(rows), n.hash = chainHash(n.prev, n.cov),
           HasNewest(rows), Followed(rows)
    PROVE  Followed(rows \cup {n})
<1> DEFINE new == rows \cup {n}
<1>1. \A r \in new : r.id \in Nat BY SMT DEF Row
<1>2. ASSUME NEW r \in new, NEW s \in new, r.id = s.id PROVE r = s
  BY <1>1, <1>2, SMT DEF Followed
<1>3. Linked(new, n)
  <2>1. Before(new, n) = rows BY <1>1, SMT DEF Before
  <2> QED BY <2>1, Zenon DEF Linked
<1>4. ASSUME NEW r \in new, ~IsNewest(new, r)
      PROVE  \E s \in new : Linked(new, s) /\ Follows(new, r, s)
  <2>1. r \in rows
    <3>1. IsNewest(new, n) BY <1>1, SMT DEF IsNewest
    <3> QED BY <1>4, <3>1
  <2>2. CASE IsNewest(rows, r)
    <3>1. Follows(new, r, n) BY <1>1, <2>1, <2>2, SMT DEF Follows, IsNewest
    <3> QED BY <1>3, <3>1
  <2>3. CASE ~IsNewest(rows, r)
    <3>1. PICK s \in rows : Linked(rows, s) /\ Follows(rows, r, s)
      BY <2>1, <2>3, Zenon DEF Followed
    <3>2. Before(new, s) = Before(rows, s) BY <1>1, SMT DEF Before
    <3>3. Linked(new, s) BY <3>1, <3>2, Zenon DEF Linked
    <3>4. Follows(new, r, s) BY <1>1, <3>1, SMT DEF Follows
    <3> QED BY <3>3, <3>4
  <2> QED BY <2>2, <2>3
<1> QED BY <1>2, <1>4, Zenon DEF Followed

(* Without a row the one that follows it hangs in the air.                 *)
LEMMA RemovalBreaks ==
    ASSUME NEW rows, rows \in SUBSET Row, Followed(rows),
           NEW r \in rows, Linked(rows, r), ~IsNewest(rows, r)
    PROVE  \E s \in rows \ {r} : Linked(rows, s) /\ s.id \in BrokenIds(rows \ {r})
<1>1. \A q \in rows : q.id \in Nat BY SMT DEF Row
<1>2. PICK s \in rows : Linked(rows, s) /\ Follows(rows, r, s) BY Zenon DEF Followed
<1>3. r.id < s.id /\ \A q \in rows : q.id < s.id => q.id <= r.id BY <1>2, Zenon DEF Follows
<1>4. s # r BY <1>1, <1>3, SMT
<1>5. s.prev = r.hash
  <2>1. Before(rows, s) \in SUBSET Row /\ r \in Before(rows, s) BY <1>3, SMT DEF Before
  <2>2. ASSUME NEW q \in Before(rows, s) \ {r} PROVE q.id < r.id
    <3>1. q \in rows /\ q.id <= r.id BY <2>2, <1>3, Zenon DEF Before
    <3>2. q.id # r.id BY <3>1, <2>2, Zenon DEF Followed
    <3> QED BY <1>1, <3>1, <3>2, SMT
  <2>3. LastHash(Before(rows, s)) = r.hash BY <2>1, <2>2, LastHashOfNewest
  <2> QED BY <1>2, <2>3, Zenon DEF Linked
<1>6. LastHash(Before(rows \ {r}, s)) = r.prev
  <2>1. ASSUME NEW q \in Before(rows \ {r}, s) PROVE q \in Before(rows, r)
    <3>1. q \in rows /\ q # r /\ q.id <= r.id BY <2>1, <1>3, Zenon DEF Before
    <3>2. q.id # r.id BY <3>1, Zenon DEF Followed
    <3> QED BY <1>1, <3>1, <3>2, SMT DEF Before
  <2>2. ASSUME NEW q \in Before(rows, r) PROVE q \in Before(rows \ {r}, s)
    BY <1>1, <1>3, <2>2, SMT DEF Before
  <2>3. Before(rows \ {r}, s) = Before(rows, r) BY <2>1, <2>2, Zenon
  <2> QED BY <2>3, Zenon DEF Linked
<1>7. r.hash # r.prev
  <2>1. r.hash = Append(r.prev, r.cov) BY Zenon DEF Linked, chainHash
  <2>2. r.prev \in Seq(Covered) BY SMT DEF Row, Hash
  <2>3. Len(Append(r.prev, r.cov)) = Len(r.prev) + 1 /\ Len(r.prev) \in Nat BY <2>2, SMT
  <2> QED BY <2>1, <2>3, SMT
<1>8. s \in rows \ {r} /\ ~Linked(rows \ {r}, s)
  BY <1>4, <1>5, <1>6, <1>7, Zenon DEF Linked
<1>9. s.id \in BrokenIds(rows \ {r}) BY <1>8, Zenon DEF BrokenIds
<1> QED BY <1>2, <1>8, <1>9

LEMMA FollowedStep ==
    ASSUME IInv, FollowedInv, [Next]_vars
    PROVE  FollowedInv'
<1>1. ASSUME log' = log PROVE FollowedInv' BY <1>1, Zenon DEF FollowedInv
<1>2. ASSUME NEW w \in Writers, Commit(w) PROVE FollowedInv'
  <2> DEFINE t == req[w].tenant
             n == NewRow(w)
  <2>1. pc[w] = "inserted" /\ log' = [log EXCEPT ![t] = @ \cup {n}]
    BY <1>2, Zenon DEF Commit
  <2>2. log \in [Tenants -> SUBSET Row] /\ TypeOK BY Zenon DEF IInv, TypeOK
  <2>3. t \in Tenants
    <3>1. pc[w] # "idle" BY <2>1
    <3> QED BY <2>2, <3>1, RequestOfCall, Zenon
  <2>4. /\ n \in Row /\ \A s \in log[t] : s.id < n.id
        /\ n.prev = LastHash(log[t]) /\ n.hash = chainHash(n.prev, n.cov)
    BY <2>1, NewRowFits, Zenon
  <2>5. HasNewest(log[t]) /\ Followed(log[t])
    BY <2>3, Zenon DEF IInv, OrderInv, FollowedInv
  <2> HIDE DEF t, n
  <2>6. Followed(log[t] \cup {n}) BY <2>2, <2>3, <2>4, <2>5, AppendFollows, Zenon
  <2>7. ASSUME NEW u \in Tenants PROVE Followed(log'[u])
    <3>1. CASE u = t BY <2>1, <2>2, <2>6, <3>1, Zenon
    <3>2. CASE u # t BY <2>1, <2>2, <3>2, Zenon DEF FollowedInv
    <3> QED BY <3>1, <3>2
  <2> QED BY <2>7, Zenon DEF FollowedInv
<1> QED BY <1>1, <1>2, Zenon DEF Next, Call, Lock, ReadLast, Insert, Rollback, vars

(* A changed row or a missing one is reported by verifyChain(), in every   *)
(* reachable log.                                                          *)
THEOREM TamperReported == ASSUME SerializingLock PROVE Spec => []TamperEvident
<1>1. Init => FollowedInv
  <2> SUFFICES ASSUME Init, NEW t \in Tenants PROVE Followed(log[t])
    BY Zenon DEF FollowedInv
  <2>1. log[t] = IF t \in SetupTenants THEN {SetupRow} ELSE {} BY Zenon DEF Init
  <2>2. SetupRow.id = 1 BY DEF SetupRow, SetupId
  <2>3. \A r, s \in log[t] : r = s /\ r.id = 1 BY <2>1, <2>2, Zenon
  <2>4. \A r \in log[t] : IsNewest(log[t], r) BY <2>3, SMT DEF IsNewest
  <2> QED BY <2>3, <2>4, Zenon DEF Followed
<1>2. IInv /\ FollowedInv /\ [Next]_vars => FollowedInv' BY FollowedStep
<1>3. IInv /\ FollowedInv => TamperEvident
  <2> SUFFICES ASSUME IInv, FollowedInv, NEW t \in Tenants, NEW r \in Chained(t)
               PROVE  /\ \A c \in Covered \ {r.cov} :
                            r.id \in BrokenIds(Replace(log[t], r, [r EXCEPT !.cov = c]))
                      /\ ~IsNewest(log[t], r) =>
                            \E s \in log[t] \ {r} : /\ s \in Chained(t)
                                                    /\ s.id \in BrokenIds(log[t] \ {r})
    BY Zenon DEF TamperEvident
  <2>1. log[t] \in SUBSET Row /\ Followed(log[t]) BY Zenon DEF IInv, TypeOK, FollowedInv
  <2>2. r \in log[t] /\ Linked(log[t], r) BY Zenon DEF Chained
  <2>3. \A c \in Covered \ {r.cov} :
            r.id \in BrokenIds(Replace(log[t], r, [r EXCEPT !.cov = c]))
    BY <2>1, <2>2, AlterationReported
  <2>4. ASSUME ~IsNewest(log[t], r)
        PROVE  \E s \in log[t] \ {r} : s \in Chained(t) /\ s.id \in BrokenIds(log[t] \ {r})
    <3>1. PICK s \in log[t] \ {r} : Linked(log[t], s) /\ s.id \in BrokenIds(log[t] \ {r})
      BY <2>1, <2>2, <2>4, RemovalBreaks
    <3>2. s \in Chained(t) BY <3>1, Zenon DEF Chained
    <3> QED BY <3>1, <3>2
  <2> QED BY <2>3, <2>4
<1> QED BY <1>1, <1>2, <1>3, Invariance, PTL DEF Spec

(* The detailed log implements the abstract append-only log: its newest    *)
(* hash covers every event committed so far, and every commit extends it.  *)
THEOREM Refinement == ASSUME SerializingLock PROVE Spec => ImplementsLog
<1>1. Init => Abstract!LogInit
  <2> SUFFICES ASSUME Init, NEW t \in Tenants PROVE LastHash(log[t]) = <<>>
    BY Zenon DEF Abstract!LogInit
  <2>1. CASE t \notin SetupTenants
    BY <2>1, SMT DEF Init, LastHash, ZeroHash
  <2>2. CASE t \in SetupTenants
    <3>1. log[t] = {SetupRow} BY <2>2, Zenon DEF Init
    <3>2. SetupRow \in Row
      BY AuditAssumption, SMT DEF SetupRow, Row, SetupId, ZeroHash, Hash
    <3>3. LastHash(log[t]) = SetupRow.hash
      BY <3>1, <3>2, LastHashOfNewest
    <3> QED BY <3>3 DEF SetupRow, ZeroHash
  <2> QED BY <2>1, <2>2
<1>2. ASSUME IInv, [Next]_vars
      PROVE  [Abstract!LogNext]_[t \in Tenants |-> LastHash(log[t])]
  <2>1. ASSUME log' = log
        PROVE  UNCHANGED [t \in Tenants |-> LastHash(log[t])]
    BY <2>1
  <2>2. ASSUME NEW w \in Writers, Commit(w) PROVE Abstract!LogNext
    <3> DEFINE t == req[w].tenant
               n == NewRow(w)
    <3>1. pc[w] = "inserted" BY <2>2 DEF Commit
    <3>2. TypeOK /\ log \in [Tenants -> SUBSET Row] BY <1>2 DEF IInv, TypeOK
    <3>3. req[w] \in Request /\ t \in Tenants
      BY <3>1, <3>2, RequestOfCall, SMT
    <3>4. req[w].cov \in Covered BY <3>3, SMT DEF Request
    <3>5. /\ log'[t] = log[t] \cup {n}
          /\ \A u \in Tenants \ {t} : log'[u] = log[u]
      BY <2>2, <3>2, <3>3, Zenon DEF Commit
    <3>6. /\ n \in Row
          /\ \A s \in log[t] : s.id < n.id
          /\ n.prev = LastHash(log[t])
          /\ n.hash = chainHash(n.prev, n.cov)
      BY <3>1, <1>2, NewRowFits
    <3>7. n.cov = req[w].cov BY DEF NewRow
    <3>8. LastHash(log[t] \cup {n}) = n.hash
      BY <3>2, <3>3, <3>6, AppendKeepsLinks
    <3>9. LastHash(log'[t]) = Append(LastHash(log[t]), req[w].cov)
      BY <3>5, <3>6, <3>7, <3>8, Zenon DEF chainHash
    <3>10. [u \in Tenants |-> LastHash(log[u])]'
             = [[u \in Tenants |-> LastHash(log[u])] EXCEPT
                  ![t] = Append(@, req[w].cov)]
      BY <3>3, <3>5, <3>9, Zenon
    <3> QED BY <3>3, <3>4, <3>10, Zenon DEF Abstract!LogNext, Abstract!Record
  <2>3. UNCHANGED vars => log' = log BY DEF vars
  <2>4. CASE Next
    <3>1. PICK w \in Writers : \/ Call(w) \/ Lock(w) \/ ReadLast(w)
                               \/ Insert(w) \/ Commit(w) \/ Rollback(w)
      BY <2>4, Zenon DEF Next
    <3>2. log' = log \/ Commit(w)
      BY <3>1, Zenon DEF Call, Lock, ReadLast, Insert, Rollback
    <3> QED BY <2>1, <2>2, <3>2, Zenon
  <2> QED BY <1>2, <2>1, <2>3, <2>4, Zenon
<1> QED BY <1>1, <1>2, Invariance, PTL
        DEF Spec, ImplementsLog, Abstract!LogSpec
=============================================================================
