--------------------------- MODULE KeyVaultProofs ---------------------------
(***************************************************************************)
(* Proofs about KeyVault, for any number of credentials, requests, key     *)
(* versions and secrets, whatever adapters reach their targets, and, but   *)
(* where a theorem says otherwise, for any operations and failures.        *)
(*                                                                         *)
(* IInv is about keys and requests.  What becomes of the secrets has an    *)
(* invariant for each theorem on top of it: GoodInv and StoreInv where no  *)
(* password is rotated, RotInv for a rotation and its target, SoundInv     *)
(* where the keys are not rotated, StepInv for what is about to be stored. *)
(***************************************************************************)
EXTENDS KeyVault, Integers, TLAPS

Top(v) == Exists(v) /\ \A u \in Versions : Exists(u) => u <= v

(* The newest version exists and is ACTIVE.                                *)
KeysInv == (\E v \in Versions : Top(v) /\ keys[v] = "ACTIVE") /\ KeyStatesOrdered

(* What a request knows: a rotation of keys has read a maximum below its   *)
(* version, then inserted it; only a rotation of keys commits to retire;   *)
(* a row that was read is still there.                                     *)
ProcInv(p) ==
    /\ pc[p] = "insert" => job[p].ver # 1 /\ Exists(job[p].ver - 1)
    /\ pc[p] \in {"mark", "select", "reseal", "write"} => Exists(job[p].ver)
    /\ pc[p] = "commit" /\ job[p].op = "rekey" => Exists(job[p].ver)
    /\ pc[p] \in {"active", "seal"} => job[p].op = "create" /\ job[p].cred \in Creds
    /\ pc[p] \in {"change", "verify", "update"} =>
           /\ job[p].op = "rotate" /\ job[p].cred \in Creds /\ job[p].new \in Secrets
           /\ read[p][job[p].cred] # None
    /\ pc[p] = "write" => job[p].cred \in Creds /\ read[p][job[p].cred] # None
    /\ \A c \in Creds : read[p][c] # None => cred[c] # None

(* The inductive invariant. *)
IInv == TypeOK /\ KeysInv /\ \A p \in Procs : ProcInv(p)

-----------------------------------------------------------------------------
(* The newest key *)

(* Newest is the top version.                                              *)
LEMMA NewestIsTop ==
    ASSUME NEW v \in Versions, Top(v), keys \in [Versions -> States]
    PROVE  Newest = v
<1>1. \A u, w \in Versions : u <= w /\ w <= u => u = w
  BY VaultAssumption, SMT DEF Versions
<1>2. Newest \in Versions /\ Top(Newest) BY Zenon DEF Newest, Top
<1> QED BY <1>1, <1>2, Zenon DEF Top

(* Retiring and rotating older keys leaves the top key ACTIVE and the      *)
(* states in order, and lets every state advance.                          *)
LEMMA OlderKeys ==
    ASSUME NEW v \in Versions, Exists(v), KeysInv, keys \in [Versions -> States],
           keys' = Retire(v) \/ keys' = Rotating(v)
    PROVE  /\ KeysInv'
           /\ \A u \in Versions : Exists(u) => Exists(u)'
           /\ \A u \in Versions : keys'[u] # keys[u] =>
                  Exists(u) /\ keys'[u] # "none" /\ Rank(keys'[u]) > Rank(keys[u])
<1>1. ASSUME NEW u \in Versions
      PROVE  /\ ~(u < v) => keys'[u] = keys[u]
             /\ Exists(u) => Exists(u)'
             /\ Exists(u)' => Exists(u)
             /\ u < v => Exists(u)
  <2>1. u < v => Exists(u) BY SMT DEF KeysInv, KeyStatesOrdered
  <2>2. CASE keys' = Retire(v) BY <2>1, <2>2, SMT DEF Retire, Exists
  <2>3. CASE keys' = Rotating(v) BY <2>1, <2>3, SMT DEF Rotating, Exists
  <2> QED BY <2>2, <2>3
<1>2. \A u \in Versions : keys[u] \in States BY Zenon
<1>3. (\E w \in Versions : Top(w) /\ keys[w] = "ACTIVE")'
  <2>1. PICK w \in Versions : Top(w) /\ keys[w] = "ACTIVE" BY DEF KeysInv
  <2>2. v <= w BY <2>1, Zenon DEF Top
  <2>3. ~(w < v) BY <2>2, VaultAssumption, SMT DEF Versions
  <2>4. keys'[w] = "ACTIVE" BY <1>1, <2>1, <2>3
  <2>5. Exists(w)' BY <1>1, <2>1, Zenon DEF Top
  <2>6. \A u \in Versions : Exists(u)' => u <= w BY <1>1, <2>1, Zenon DEF Top
  <2> QED BY <2>4, <2>5, <2>6, Zenon DEF Top
<1>4. KeyStatesOrdered'
  <2> SUFFICES ASSUME NEW x \in Versions, NEW y \in Versions, x < y, Exists(y)'
               PROVE  Exists(x)' /\ Rank(keys'[x]) >= Rank(keys'[y])
    BY Zenon DEF KeyStatesOrdered
  <2>1. Exists(x) /\ Exists(y) /\ Rank(keys[x]) >= Rank(keys[y]) /\ Exists(x)'
    BY <1>1, Zenon DEF KeysInv, KeyStatesOrdered
  <2>2. x \in Int /\ y \in Int /\ v \in Int BY VaultAssumption, SMT DEF Versions
  <2>3. CASE keys' = Retire(v)
    BY <1>2, <2>1, <2>2, <2>3, SMT DEF Retire, Rank, States, Exists
  <2>4. CASE keys' = Rotating(v)
    BY <1>2, <2>1, <2>2, <2>4, SMT DEF Rotating, Rank, States, Exists
  <2> QED BY <2>1, <2>3, <2>4
<1>5. ASSUME NEW u \in Versions, keys'[u] # keys[u]
      PROVE  Exists(u) /\ keys'[u] # "none" /\ Rank(keys'[u]) > Rank(keys[u])
  <2>1. u < v /\ Exists(u) BY <1>1, <1>5
  <2>2. CASE keys' = Retire(v)
    BY <1>2, <1>5, <2>1, <2>2, SMT DEF Retire, Rank, States, Exists
  <2>3. CASE keys' = Rotating(v)
    BY <1>2, <1>5, <2>1, <2>3, SMT DEF Rotating, Rank, States, Exists
  <2> QED BY <2>2, <2>3
<1> QED BY <1>1, <1>3, <1>4, <1>5, Zenon DEF KeysInv

(* A version above an existing one, and not there yet, is the next one.    *)
LEMMA NextKey ==
    ASSUME NEW v \in Versions, v # 1, Exists(v - 1), ~Exists(v), KeysInv,
           keys \in [Versions -> States], keys' = [keys EXCEPT ![v] = "ACTIVE"]
    PROVE  /\ KeysInv'
           /\ \A u \in Versions : Exists(u) => Exists(u)'
           /\ \A u \in Versions : keys'[u] # keys[u] => ~Exists(u)
<1>0. \A u \in Versions : u \in Int /\ 1 <= u /\ u <= MaxVersion
  BY VaultAssumption, SMT DEF Versions
<1>1. v - 1 \in Versions BY <1>0, VaultAssumption, SMT DEF Versions
<1>2. keys'[v] = "ACTIVE" /\ \A u \in Versions \ {v} : keys'[u] = keys[u] BY Zenon
<1>3. \A u \in Versions : Exists(u) => u < v
  <2> SUFFICES ASSUME NEW u \in Versions, Exists(u), ~(u < v) PROVE FALSE OBVIOUS
  <2>1. u # v OBVIOUS
  <2>2. v < u BY <2>1, <1>0, SMT
  <2> QED BY <2>2, Zenon DEF KeysInv, KeyStatesOrdered
<1>4. \A u \in Versions : u < v => Exists(u)
  <2> SUFFICES ASSUME NEW u \in Versions, u < v PROVE Exists(u) OBVIOUS
  <2>1. u = v - 1 \/ u < v - 1 BY <1>0, SMT
  <2> QED BY <2>1, <1>1, Zenon DEF KeysInv, KeyStatesOrdered
<1>5. (\E w \in Versions : Top(w) /\ keys[w] = "ACTIVE")'
  <2>1. \A u \in Versions : Exists(u)' => u <= v
    <3> SUFFICES ASSUME NEW u \in Versions, Exists(u)' PROVE u <= v OBVIOUS
    <3>1. CASE u = v BY <3>1, <1>0, SMT
    <3>2. CASE u # v
      <4>1. Exists(u) BY <3>2, <1>2, Zenon DEF Exists
      <4> QED BY <4>1, <1>0, <1>3, SMT
    <3> QED BY <3>1, <3>2
  <2>2. Exists(v)' BY <1>2, SMT DEF Exists
  <2> QED BY <1>2, <2>1, <2>2, Zenon DEF Top
<1>6. KeyStatesOrdered'
  <2> SUFFICES ASSUME NEW x \in Versions, NEW y \in Versions, x < y, Exists(y)'
               PROVE  Exists(x)' /\ Rank(keys'[x]) >= Rank(keys'[y])
    BY Zenon DEF KeyStatesOrdered
  <2>1. CASE y = v
    <3>1. Exists(x) /\ x # v BY <2>1, <1>0, <1>4, SMT
    <3>2. Rank(keys'[y]) = 0 BY <1>2, <2>1, SMT DEF Rank
    <3>3. keys'[x] = keys[x] /\ keys[x] \in States BY <1>2, <3>1, Zenon
    <3>4. Rank(keys'[x]) >= 0 BY <3>3, SMT DEF Rank, States
    <3> QED BY <3>1, <3>2, <3>3, <3>4, Zenon DEF Exists
  <2>2. CASE y # v
    <3>1. Exists(y) BY <2>2, <1>2, Zenon DEF Exists
    <3>2. x # v BY <3>1, <1>0, <1>3, SMT
    <3>3. Exists(x) /\ Rank(keys[x]) >= Rank(keys[y])
      BY <3>1, Zenon DEF KeysInv, KeyStatesOrdered
    <3> QED BY <2>2, <3>2, <3>3, <1>2, Zenon DEF Exists
  <2> QED BY <2>1, <2>2
<1>7. \A u \in Versions : Exists(u) => Exists(u)'
  BY <1>2, Zenon DEF Exists
<1>8. \A u \in Versions : keys'[u] # keys[u] => ~Exists(u)
  BY <1>2, Zenon
<1> QED BY <1>5, <1>6, <1>7, <1>8, Zenon DEF KeysInv

-----------------------------------------------------------------------------
(* Types *)

(* Updates of a job keep it a job, and a new job is one.                   *)
LEMMA JobTypes ==
    /\ \A j \in Job, v \in Versions : [j EXCEPT !.ver = v] \in Job
    /\ \A j \in Job, c \in Creds : [j EXCEPT !.cred = c] \in Job
    /\ \A op \in {"create", "rotate", "rekey", "none"}, c \in Creds \cup {None},
          v \in Versions, s \in Secrets \cup {None} : NewJob(op, c, v, s) \in Job
    /\ 1 \in Versions /\ NoJob \in Job
<1>1. \A j \in Job, v \in Versions : [j EXCEPT !.ver = v] \in Job BY SMT DEF Job
<1>2. \A j \in Job, c \in Creds : [j EXCEPT !.cred = c] \in Job BY SMT DEF Job
<1>3. ASSUME NEW op \in {"create", "rotate", "rekey", "none"}, NEW c \in Creds \cup {None},
             NEW v \in Versions, NEW s \in Secrets \cup {None}
      PROVE  NewJob(op, c, v, s) \in Job
  BY SMT DEF NewJob, Job
<1>4. 1 \in Versions BY VaultAssumption, SMT DEF Versions
<1>5. NoJob \in Job BY <1>3, <1>4, SMT DEF NoJob
<1> QED BY <1>1, <1>2, <1>3, <1>4, <1>5

(* What a request writes is a row.                                         *)
LEMMA RowTypes ==
    ASSUME NEW v \in Versions, NEW s \in Secrets
    PROVE  /\ [ver |-> v, key |-> v, secret |-> s, user |-> v] \in Row
           /\ \A row \in Row : /\ [row EXCEPT !.key = v, !.secret = s] \in Row
                               /\ [row EXCEPT !.ver = v, !.key = v, !.secret = s] \in Row
<1>1. [ver |-> v, key |-> v, secret |-> s, user |-> v] \in Row BY SMT DEF Row
<1>2. ASSUME NEW row \in Row
      PROVE  /\ [row EXCEPT !.key = v] \in Row
             /\ [row EXCEPT !.ver = v] \in Row
             /\ [row EXCEPT !.secret = s] \in Row
  BY SMT DEF Row
<1>3. ASSUME NEW row \in Row
      PROVE  /\ [row EXCEPT !.key = v, !.secret = s] \in Row
             /\ [row EXCEPT !.ver = v, !.key = v, !.secret = s] \in Row
  <2>1. [row EXCEPT !.key = v, !.secret = s] = [[row EXCEPT !.key = v] EXCEPT !.secret = s]
    OBVIOUS
  <2>2. [row EXCEPT !.ver = v, !.key = v, !.secret = s]
            = [[row EXCEPT !.ver = v] EXCEPT !.key = v, !.secret = s]
    OBVIOUS
  <2>3. [row EXCEPT !.key = v, !.secret = s] \in Row BY <1>2, <2>1
  <2>4. [row EXCEPT !.ver = v] \in Row BY <1>2
  <2>5. [[row EXCEPT !.ver = v] EXCEPT !.key = v, !.secret = s] \in Row
    <3>1. [[row EXCEPT !.ver = v] EXCEPT !.key = v, !.secret = s]
              = [[[row EXCEPT !.ver = v] EXCEPT !.key = v] EXCEPT !.secret = s]
      OBVIOUS
    <3>2. [[row EXCEPT !.ver = v] EXCEPT !.key = v] \in Row BY <1>2, <2>4
    <3> QED BY <1>2, <3>1, <3>2
  <2> QED BY <2>2, <2>3, <2>5
<1> QED BY <1>1, <1>3

(* A request that ends.                                                    *)
LEMMA EndType ==
    ASSUME TypeOK, NEW p \in Procs, End(p)
    PROVE  /\ pc' \in [Procs -> Phases]
           /\ job' \in [Procs -> Job]
           /\ read' \in [Procs -> Rows]
           /\ dirty' \in [Procs -> Rows]
           /\ ProcInv(p)'
           /\ \A q \in Procs \ {p} :
                  pc'[q] = pc[q] /\ job'[q] = job[q] /\ read'[q] = read[q]
<1>1. NoRows \in Rows BY Zenon DEF NoRows, Rows
<1>2. "idle" \in Phases BY DEF Phases
<1>3. /\ pc' \in [Procs -> Phases] /\ job' \in [Procs -> Job]
      /\ read' \in [Procs -> Rows] /\ dirty' \in [Procs -> Rows]
  BY <1>1, <1>2, JobTypes, Zenon DEF TypeOK, End, Goto
<1>4. pc'[p] = "idle" /\ read'[p] = NoRows BY Zenon DEF TypeOK, End, Goto
<1>5. \A c \in Creds : read'[p][c] = None BY <1>4, Zenon DEF NoRows
<1>6. ProcInv(p)' BY <1>4, <1>5, SMT DEF ProcInv
<1>7. \A q \in Procs \ {p} :
          pc'[q] = pc[q] /\ job'[q] = job[q] /\ read'[q] = read[q]
  BY Zenon DEF TypeOK, End, Goto
<1> QED BY <1>3, <1>6, <1>7

(* A request that writes a row.                                            *)
LEMMA WriteType ==
    ASSUME TypeOK, NEW p \in Procs, NEW c \in Creds, NEW row \in Row, WriteRow(p, c, row)
    PROVE  /\ dirty' \in [Procs -> Rows]
           /\ UNCHANGED <<keys, cred, deleted, target, drawn, job, read>>
<1>1. dirty \in [Procs -> [Creds -> Row \cup {None}]] BY Zenon DEF TypeOK, Rows
<1>2. dirty' \in [Procs -> [Creds -> Row \cup {None}]] BY <1>1, SMT DEF WriteRow
<1> QED BY <1>2, Zenon DEF Rows, WriteRow

-----------------------------------------------------------------------------
(* The inductive invariant *)

(* What a request knows does not depend on what others do, as versions     *)
(* and rows are added and never removed.                                   *)
LEMMA Frame ==
    ASSUME NEW q \in Procs, ProcInv(q), job[q] \in Job,
           \A u \in Versions : Exists(u) => Exists(u)',
           \A c \in Creds : cred[c] # None => cred'[c] # None,
           pc'[q] = pc[q], job'[q] = job[q], read'[q] = read[q]
    PROVE  ProcInv(q)'
<1>1. job[q].ver \in Versions BY SMT DEF Job
<1>2. job[q].ver # 1 => job[q].ver - 1 \in Versions
  BY <1>1, VaultAssumption, SMT DEF Versions
<1>3. Exists(job[q].ver) => Exists(job[q].ver)' BY <1>1, SMT DEF Exists
<1>4. job[q].ver # 1 /\ Exists(job[q].ver - 1) => Exists(job[q].ver - 1)'
  BY <1>2, SMT DEF Exists
<1> QED BY <1>3, <1>4, Zenon DEF ProcInv

(* A step of one request.                                                  *)
LEMMA OneMoves ==
    ASSUME IInv, NEW p \in Procs, TypeOK', KeysInv', ProcInv(p)',
           \A u \in Versions : Exists(u) => Exists(u)',
           \A c \in Creds : cred[c] # None => cred'[c] # None,
           \A q \in Procs \ {p} :
               pc'[q] = pc[q] /\ job'[q] = job[q] /\ read'[q] = read[q]
    PROVE  IInv'
<1>1. ASSUME NEW q \in Procs PROVE ProcInv(q)'
  <2>1. CASE q = p BY <2>1
  <2>2. CASE q # p
    <3>1. job[q] \in Job /\ ProcInv(q) BY Zenon DEF IInv, TypeOK
    <3> QED BY <2>2, <3>1, Frame, Zenon
  <2> QED BY <2>1, <2>2
<1> QED BY <1>1, Zenon DEF IInv

(* A step that leaves the keys and the rows alone.                         *)
LEMMA KeysStay ==
    ASSUME KeysInv, keys' = keys
    PROVE  KeysInv' /\ \A u \in Versions : Exists(u) => Exists(u)'
BY Zenon DEF KeysInv, KeyStatesOrdered, Top, Exists

(* A request that ends without a commit.                                   *)
LEMMA AbortStep ==
    ASSUME IInv, NEW p \in Procs, Abort(p)
    PROVE  IInv'
<1>1. TypeOK /\ KeysInv /\ End(p) BY Zenon DEF IInv, Abort
<1>2. UNCHANGED <<keys, cred, deleted, target, drawn>> BY DEF Abort
<1>3. TypeOK' BY <1>1, <1>2, EndType, Zenon DEF TypeOK
<1>4. KeysInv' /\ \A u \in Versions : Exists(u) => Exists(u)' BY <1>1, <1>2, KeysStay, Zenon
<1> QED BY <1>1, <1>2, <1>3, <1>4, EndType, OneMoves, Zenon

(* What a step does to the keys.                                           *)
Advance ==
    \A v \in Versions : keys'[v] # keys[v] =>
        \/ ~Exists(v)
        \/ keys'[v] # "none" /\ Rank(keys'[v]) > Rank(keys[v])

(* A step of one request that leaves the keys and the rows alone.          *)
LEMMA QuietStep ==
    ASSUME IInv, NEW p \in Procs, TypeOK', ProcInv(p)', keys' = keys, cred' = cred,
           \A q \in Procs \ {p} :
               pc'[q] = pc[q] /\ job'[q] = job[q] /\ read'[q] = read[q]
    PROVE  IInv' /\ Advance
<1>1. KeysInv' /\ \A u \in Versions : Exists(u) => Exists(u)'
  BY KeysStay, Zenon DEF IInv
<1>2. Advance BY Zenon DEF Advance
<1> QED BY <1>1, <1>2, OneMoves, Zenon

(* The first steps of a request.                                           *)
LEMMA ArriveStep ==
    ASSUME IInv, NEW p \in Procs, Arrive(p)
    PROVE  IInv' /\ Advance
<1>t. TypeOK /\ ProcInv(p) BY DEF IInv
<1>b. ASSUME NEW phase \in Phases, NEW j \in Job, Begin(p, phase, j)
      PROVE  /\ pc' \in [Procs -> Phases] /\ pc'[p] = phase
             /\ job' \in [Procs -> Job] /\ job'[p] = j
             /\ \A q \in Procs \ {p} : pc'[q] = pc[q] /\ job'[q] = job[q]
  BY <1>t, <1>b, Zenon DEF TypeOK, Begin, Goto
<1>1. ASSUME NEW c \in Creds, BeginCreate(p, c) PROVE IInv' /\ Advance
  <2> DEFINE j == NewJob("create", c, 1, None)
  <2>1. j \in Job /\ j.op = "create" /\ j.cred = c /\ "active" \in Phases
    BY JobTypes, SMT DEF NewJob, Phases
  <2>2. Begin(p, "active", j) /\ UNCHANGED <<keys, cred, deleted, target, drawn, read, dirty>>
    BY <1>1, Zenon DEF BeginCreate
  <2> HIDE DEF j
  <2>3. /\ pc' \in [Procs -> Phases] /\ pc'[p] = "active"
        /\ job' \in [Procs -> Job] /\ job'[p] = j
        /\ \A q \in Procs \ {p} : pc'[q] = pc[q] /\ job'[q] = job[q]
    BY <2>1, <2>2, <1>b, Zenon
  <2>4. TypeOK' BY <1>t, <2>2, <2>3, Zenon DEF TypeOK
  <2>5. ProcInv(p)' BY <1>t, <2>1, <2>2, <2>3, SMT DEF ProcInv
  <2> QED BY <2>2, <2>3, <2>4, <2>5, QuietStep, Zenon
<1>2. ASSUME NEW c \in Creds, NEW s \in Secrets, BeginRotate(p, c, s) PROVE IInv' /\ Advance
  <2> DEFINE j == NewJob("rotate", c, cred[c].ver, s)
  <2>1. cred[c] \in Row BY <1>t, <1>2, Zenon DEF TypeOK, Rows, BeginRotate
  <2>2. cred[c].ver \in Versions BY <2>1, SMT DEF Row
  <2>3. /\ j \in Job /\ j.op = "rotate" /\ j.cred = c /\ j.new = s
        /\ "change" \in Phases
    BY <2>2, JobTypes, SMT DEF NewJob, Phases
  <2>4. Begin(p, "change", j) /\ UNCHANGED <<keys, cred, deleted, target, dirty>>
    BY <1>2, Zenon DEF BeginRotate
  <2> HIDE DEF j
  <2>5. /\ pc' \in [Procs -> Phases] /\ pc'[p] = "change"
        /\ job' \in [Procs -> Job] /\ job'[p] = j
        /\ \A q \in Procs \ {p} : pc'[q] = pc[q] /\ job'[q] = job[q]
    BY <2>3, <2>4, <1>b, Zenon
  <2>6. read \in [Procs -> [Creds -> Row \cup {None}]] BY <1>t, Zenon DEF TypeOK, Rows
  <2>7. read' = [read EXCEPT ![p][c] = cred[c]] BY <1>2, Zenon DEF BeginRotate
  <2>8. /\ read' \in [Procs -> [Creds -> Row \cup {None}]]
        /\ \A q \in Procs \ {p} : read'[q] = read[q]
        /\ read'[p][c] = cred[c]
        /\ \A d \in Creds \ {c} : read'[p][d] = read[p][d]
    BY <2>1, <2>6, <2>7, SMT
  <2>9. drawn' \subseteq Secrets BY <1>t, <1>2, Zenon DEF TypeOK, BeginRotate
  <2>10. TypeOK' BY <1>t, <2>4, <2>5, <2>8, <2>9, Zenon DEF TypeOK, Rows
  <2>11. cred[c] # None BY <1>2 DEF BeginRotate
  <2>12. \A d \in Creds : read'[p][d] # None => cred'[d] # None
    <3> SUFFICES ASSUME NEW d \in Creds, read'[p][d] # None PROVE cred'[d] # None
      OBVIOUS
    <3>1. CASE d = c BY <3>1, <2>4, <2>11, Zenon
    <3>2. CASE d # c BY <3>2, <2>4, <2>8, <1>t, Zenon DEF ProcInv
    <3> QED BY <3>1, <3>2
  <2>13. ProcInv(p)' BY <2>3, <2>5, <2>8, <2>11, <2>12, SMT DEF ProcInv
  <2> QED BY <2>4, <2>5, <2>8, <2>10, <2>13, QuietStep, Zenon
<1>3. ASSUME BeginRekey(p) PROVE IInv' /\ Advance
  <2> DEFINE j == NewJob("rekey", None, 1, None)
  <2>1. j \in Job /\ "max" \in Phases BY JobTypes, SMT DEF Phases
  <2>2. Begin(p, "max", j) /\ UNCHANGED <<keys, cred, deleted, target, drawn, read, dirty>>
    BY <1>3, Zenon DEF BeginRekey
  <2> HIDE DEF j
  <2>3. /\ pc' \in [Procs -> Phases] /\ pc'[p] = "max"
        /\ job' \in [Procs -> Job] /\ job'[p] = j
        /\ \A q \in Procs \ {p} : pc'[q] = pc[q] /\ job'[q] = job[q]
    BY <2>1, <2>2, <1>b, Zenon
  <2>4. TypeOK' BY <1>t, <2>2, <2>3, Zenon DEF TypeOK
  <2>5. ProcInv(p)' BY <1>t, <2>1, <2>2, <2>3, SMT DEF ProcInv
  <2> QED BY <2>2, <2>3, <2>4, <2>5, QuietStep, Zenon
<1> QED BY <1>1, <1>2, <1>3, Zenon DEF Arrive

(* Going to another phase.                                                 *)
LEMMA GotoType ==
    ASSUME TypeOK, NEW p \in Procs, NEW phase \in Phases, Goto(p, phase)
    PROVE  /\ pc' \in [Procs -> Phases] /\ pc'[p] = phase
           /\ \A q \in Procs \ {p} : pc'[q] = pc[q]
BY Zenon DEF TypeOK, Goto

(* createCredential and rotateCredential.                                  *)
LEMMA CredentialStep ==
    ASSUME IInv, NEW p \in Procs,
           ReadActive(p) \/ SealNew(p) \/ ChangeTarget(p) \/ Verify(p) \/ UpdateSecret(p)
    PROVE  IInv' /\ Advance
<1>t. TypeOK /\ ProcInv(p) BY DEF IInv
<1>p. /\ {"seal", "commit", "update", "verify"} \subseteq Phases
      /\ job[p] \in Job
  BY <1>t, SMT DEF TypeOK, Phases
<1>a. ASSUME Abort(p) PROVE IInv' /\ Advance
  <2>1. keys' = keys BY <1>a DEF Abort
  <2> QED BY <1>a, <2>1, AbortStep, Zenon DEF Advance
<1>1. ASSUME ReadActive(p) PROVE IInv' /\ Advance
  <2>1. PICK v \in Versions : job' = [job EXCEPT ![p].ver = v]
    BY <1>1, Zenon DEF ReadActive
  <2>2. /\ pc[p] = "active" /\ Goto(p, "seal")
        /\ UNCHANGED <<keys, cred, deleted, target, drawn, read, dirty>>
    BY <1>1, Zenon DEF ReadActive
  <2>3. /\ pc' \in [Procs -> Phases] /\ pc'[p] = "seal"
        /\ \A q \in Procs \ {p} : pc'[q] = pc[q]
    BY <1>t, <1>p, <2>2, GotoType, Zenon
  <2>4. [job[p] EXCEPT !.ver = v] \in Job BY <1>p, JobTypes, Zenon
  <2>5. /\ job' \in [Procs -> Job] /\ job'[p] = [job[p] EXCEPT !.ver = v]
        /\ \A q \in Procs \ {p} : job'[q] = job[q]
    BY <1>t, <2>1, <2>4, Zenon DEF TypeOK
  <2>6. job'[p].op = job[p].op /\ job'[p].cred = job[p].cred
    BY <1>p, <2>5, SMT DEF Job
  <2>7. TypeOK' BY <1>t, <2>2, <2>3, <2>5, Zenon DEF TypeOK
  <2>8. ProcInv(p)' BY <1>t, <2>2, <2>3, <2>6, SMT DEF ProcInv
  <2> QED BY <2>2, <2>3, <2>5, <2>7, <2>8, QuietStep, Zenon
<1>w. ASSUME NEW c \in Creds, NEW row \in Row, WriteRow(p, c, row), Goto(p, "commit"),
             job[p].op # "rekey"
      PROVE  IInv' /\ Advance
  <2>1. /\ dirty' \in [Procs -> Rows]
        /\ UNCHANGED <<keys, cred, deleted, target, drawn, job, read>>
    BY <1>t, <1>w, WriteType, Zenon
  <2>2. /\ pc' \in [Procs -> Phases] /\ pc'[p] = "commit"
        /\ \A q \in Procs \ {p} : pc'[q] = pc[q]
    BY <1>t, <1>p, <1>w, GotoType, Zenon
  <2>3. TypeOK' BY <1>t, <2>1, <2>2, Zenon DEF TypeOK
  <2>4. ProcInv(p)' BY <1>t, <1>w, <2>1, <2>2, SMT DEF ProcInv
  <2> QED BY <2>1, <2>2, <2>3, <2>4, QuietStep, Zenon
<1>2. ASSUME SealNew(p) PROVE IInv' /\ Advance
  <2> DEFINE c == job[p].cred
             v == job[p].ver
  <2>1. pc[p] = "seal" BY <1>2 DEF SealNew
  <2>2. c \in Creds /\ job[p].op # "rekey" BY <1>t, <2>1, SMT DEF ProcInv
  <2>3. v \in Versions BY <1>p, SMT DEF Job
  <2>4. target[c] \in Secrets BY <1>t, <2>2, Zenon DEF TypeOK
  <2>5. NewRow(c, v) \in Row BY <2>3, <2>4, RowTypes, Zenon DEF NewRow
  <2>6. Abort(p) \/ (WriteRow(p, c, NewRow(c, v)) /\ Goto(p, "commit"))
    BY <1>2, Zenon DEF SealNew
  <2> QED BY <1>a, <1>w, <2>2, <2>5, <2>6, Zenon
<1>m. ASSUME NEW phase \in {"update", "verify"}, pc[p] \in {"change", "verify"},
             Goto(p, phase), target' \in [Creds -> Secrets],
             UNCHANGED <<keys, cred, deleted, drawn, job, read, dirty>>
      PROVE  IInv' /\ Advance
  <2>1. /\ pc' \in [Procs -> Phases] /\ pc'[p] = phase
        /\ \A q \in Procs \ {p} : pc'[q] = pc[q]
    BY <1>t, <1>p, <1>m, GotoType, Zenon
  <2>2. TypeOK' BY <1>t, <1>m, <2>1, Zenon DEF TypeOK
  <2>3. ProcInv(p)' BY <1>t, <1>m, <2>1, SMT DEF ProcInv
  <2> QED BY <1>m, <2>1, <2>2, <2>3, QuietStep, Zenon
<1>3. ASSUME ChangeTarget(p) PROVE IInv' /\ Advance
  <2>1. pc[p] = "change" BY <1>3 DEF ChangeTarget
  <2>2. job[p].cred \in Creds /\ job[p].new \in Secrets BY <1>t, <2>1, SMT DEF ProcInv
  <2>3. CASE Abort(p) BY <1>a, <2>3
  <2>4. CASE /\ Goto(p, "update")
             /\ UNCHANGED <<keys, cred, deleted, target, drawn, job, read, dirty>>
    BY <1>m, <1>t, <2>1, <2>4, Zenon DEF TypeOK
  <2>5. CASE /\ target' = [target EXCEPT ![job[p].cred] = job[p].new]
             /\ Goto(p, "verify")
             /\ UNCHANGED <<keys, cred, deleted, drawn, job, read, dirty>>
    <3>1. target' \in [Creds -> Secrets] BY <1>t, <2>2, <2>5, Zenon DEF TypeOK
    <3> QED BY <1>m, <2>1, <2>5, <3>1, Zenon
  <2>6. CASE /\ Goto(p, "verify")
             /\ UNCHANGED <<keys, cred, deleted, target, drawn, job, read, dirty>>
    BY <1>m, <1>t, <2>1, <2>6, Zenon DEF TypeOK
  <2> QED BY <1>3, <2>3, <2>4, <2>5, <2>6, Zenon DEF ChangeTarget
<1>4. ASSUME Verify(p) PROVE IInv' /\ Advance
  <2>1. pc[p] = "verify" BY <1>4 DEF Verify
  <2>2. CASE Abort(p) BY <1>a, <2>2
  <2>3. CASE /\ Goto(p, "update")
             /\ UNCHANGED <<keys, cred, deleted, target, drawn, job, read, dirty>>
    BY <1>m, <1>t, <2>1, <2>3, Zenon DEF TypeOK
  <2> QED BY <1>4, <2>2, <2>3, Zenon DEF Verify
<1>5. ASSUME UpdateSecret(p) PROVE IInv' /\ Advance
  <2> DEFINE c == job[p].cred
             row == [cred[c] EXCEPT !.key = job[p].ver, !.secret = job[p].new]
  <2>1. pc[p] = "update" BY <1>5 DEF UpdateSecret
  <2>2. /\ c \in Creds /\ job[p].new \in Secrets /\ job[p].op # "rekey"
        /\ cred[c] # None
    BY <1>t, <2>1, SMT DEF ProcInv
  <2>3. job[p].ver \in Versions BY <1>p, SMT DEF Job
  <2>4. cred[c] \in Row BY <1>t, <2>2, Zenon DEF TypeOK, Rows
  <2>5. row \in Row BY <2>2, <2>3, <2>4, RowTypes, Zenon
  <2>6. WriteRow(p, c, row) /\ Goto(p, "commit") BY <1>5, Zenon DEF UpdateSecret
  <2> HIDE DEF row, c
  <2> QED BY <1>w, <2>2, <2>5, <2>6, Zenon
<1> QED BY <1>1, <1>2, <1>3, <1>4, <1>5

(* rotateTenantKeys.                                                       *)
LEMMA RekeyStep ==
    ASSUME IInv, NEW p \in Procs,
           \/ ReadMax(p) \/ InsertKey(p) \/ MarkRotating(p) \/ SelectCreds(p)
           \/ Unseal(p) \/ WriteResealed(p) \/ AllResealed(p)
    PROVE  IInv' /\ Advance
<1>t. TypeOK /\ ProcInv(p) /\ KeysInv BY DEF IInv
<1>p. /\ {"insert", "mark", "select", "reseal", "write", "commit"} \subseteq Phases
      /\ job[p] \in Job /\ job[p].ver \in Versions /\ keys \in [Versions -> States]
  BY <1>t, SMT DEF TypeOK, Phases, Job
<1>a. ASSUME Abort(p) PROVE IInv' /\ Advance
  <2>1. keys' = keys BY <1>a DEF Abort
  <2> QED BY <1>a, <2>1, AbortStep, Zenon DEF Advance
<1>g. ASSUME NEW phase \in {"insert", "mark", "select", "reseal", "write", "commit"},
             Goto(p, phase)
      PROVE  /\ pc' \in [Procs -> Phases] /\ pc'[p] = phase
             /\ \A q \in Procs \ {p} : pc'[q] = pc[q]
  BY <1>t, <1>p, <1>g, GotoType, Zenon
<1>1. ASSUME ReadMax(p) PROVE IInv' /\ Advance
  <2>1. CASE Abort(p) BY <1>a, <2>1
  <2>2. CASE /\ Newest < MaxVersion
             /\ job' = [job EXCEPT ![p].ver = Newest + 1]
             /\ Goto(p, "insert")
             /\ UNCHANGED <<keys, cred, deleted, target, drawn, read, dirty>>
    <3>1. PICK v \in Versions : Top(v) BY <1>t, Zenon DEF KeysInv
    <3>2. Newest = v BY <1>p, <3>1, NewestIsTop, Zenon
    <3>3. v + 1 \in Versions /\ v + 1 # 1 /\ (v + 1) - 1 = v
      BY <2>2, <3>2, VaultAssumption, SMT DEF Versions
    <3>4. [job[p] EXCEPT !.ver = v + 1] \in Job BY <1>p, <3>3, JobTypes, Zenon
    <3>5. /\ job' \in [Procs -> Job] /\ job'[p] = [job[p] EXCEPT !.ver = v + 1]
          /\ \A q \in Procs \ {p} : job'[q] = job[q]
      BY <1>t, <2>2, <3>2, <3>4, Zenon DEF TypeOK
    <3>6. job'[p].ver = v + 1 BY <1>p, <3>5, SMT DEF Job
    <3>7. /\ pc' \in [Procs -> Phases] /\ pc'[p] = "insert"
          /\ \A q \in Procs \ {p} : pc'[q] = pc[q]
      BY <1>g, <2>2
    <3>8. TypeOK' BY <1>t, <2>2, <3>5, <3>7, Zenon DEF TypeOK
    <3>9. Exists(v)' BY <2>2, <3>1, Zenon DEF Top, Exists
    <3>10. Exists(job[p].ver - 1)' BY <3>3, <3>6, <3>9, Zenon
    <3>11. ProcInv(p)' BY <1>t, <2>2, <3>3, <3>6, <3>7, <3>10, SMT DEF ProcInv
    <3> QED BY <2>2, <3>5, <3>7, <3>8, <3>11, QuietStep, Zenon
  <2> QED BY <1>1, <2>1, <2>2, Zenon DEF ReadMax
<1>2. ASSUME InsertKey(p) PROVE IInv' /\ Advance
  <2> DEFINE v == job[p].ver
  <2>1. CASE Abort(p) BY <1>a, <2>1
  <2>2. CASE /\ ~Exists(v)
             /\ keys' = [keys EXCEPT ![v] = "ACTIVE"]
             /\ Goto(p, "mark")
             /\ UNCHANGED <<cred, deleted, target, drawn, job, read, dirty>>
    <3>1. pc[p] = "insert" BY <1>2 DEF InsertKey
    <3>2. v # 1 /\ Exists(v - 1) BY <1>t, <3>1, Zenon DEF ProcInv
    <3>3. /\ KeysInv'
          /\ \A u \in Versions : Exists(u) => Exists(u)'
          /\ \A u \in Versions : keys'[u] # keys[u] => ~Exists(u)
      <4> HIDE DEF v
      <4>1. v \in Versions BY <1>p DEF v
      <4> QED BY <1>t, <1>p, <2>2, <3>2, <4>1, NextKey, Zenon
    <3>4. /\ pc' \in [Procs -> Phases] /\ pc'[p] = "mark"
          /\ \A q \in Procs \ {p} : pc'[q] = pc[q]
      BY <1>g, <2>2
    <3>5. "ACTIVE" \in States BY DEF States
    <3>6. TypeOK' BY <1>t, <2>2, <3>4, <3>5, Zenon DEF TypeOK
    <3>7. Exists(v)' BY <1>p, <2>2, SMT DEF Exists
    <3>8. ProcInv(p)' BY <1>t, <2>2, <3>4, <3>7, SMT DEF ProcInv
    <3>9. Advance BY <3>3, Zenon DEF Advance
    <3> QED BY <2>2, <3>3, <3>4, <3>6, <3>8, <3>9, OneMoves, Zenon
  <2> QED BY <1>2, <2>1, <2>2, Zenon DEF InsertKey
<1>3. ASSUME MarkRotating(p) PROVE IInv' /\ Advance
  <2> DEFINE v == job[p].ver
  <2>1. /\ pc[p] = "mark" /\ keys' = Rotating(v) /\ Goto(p, "select")
        /\ UNCHANGED <<cred, deleted, target, drawn, job, read, dirty>>
    BY <1>3, Zenon DEF MarkRotating
  <2>2. Exists(v) BY <1>t, <2>1, SMT DEF ProcInv
  <2>3. /\ KeysInv'
        /\ \A u \in Versions : Exists(u) => Exists(u)'
        /\ \A u \in Versions : keys'[u] # keys[u] =>
               Exists(u) /\ keys'[u] # "none" /\ Rank(keys'[u]) > Rank(keys[u])
    <3> HIDE DEF v
    <3>1. v \in Versions BY <1>p DEF v
    <3> QED BY <1>t, <1>p, <2>1, <2>2, <3>1, OlderKeys, Zenon
  <2>4. /\ pc' \in [Procs -> Phases] /\ pc'[p] = "select"
        /\ \A q \in Procs \ {p} : pc'[q] = pc[q]
    BY <1>g, <2>1
  <2>5. keys' \in [Versions -> States] BY <1>p, <2>1, SMT DEF Rotating, States
  <2>6. TypeOK' BY <1>t, <2>1, <2>4, <2>5, Zenon DEF TypeOK
  <2>7. Exists(v)' BY <1>p, <2>1, <2>2, <2>3, SMT DEF Exists
  <2>8. ProcInv(p)' BY <1>t, <2>1, <2>4, <2>7, SMT DEF ProcInv
  <2>9. Advance BY <2>3, Zenon DEF Advance
  <2> QED BY <2>1, <2>3, <2>4, <2>6, <2>8, <2>9, OneMoves, Zenon
<1>4. ASSUME SelectCreds(p) PROVE IInv' /\ Advance
  <2> DEFINE rows == [c \in Creds |-> IF c \in deleted THEN None ELSE cred[c]]
  <2>1. /\ pc[p] = "select" /\ read' = [read EXCEPT ![p] = rows] /\ Goto(p, "reseal")
        /\ UNCHANGED <<keys, cred, deleted, target, drawn, job, dirty>>
    BY <1>4, Zenon DEF SelectCreds
  <2>2. rows \in Rows BY <1>t, SMT DEF TypeOK, Rows
  <2>3. \A c \in Creds : rows[c] # None => cred[c] # None BY SMT
  <2> HIDE DEF rows
  <2>4. /\ pc' \in [Procs -> Phases] /\ pc'[p] = "reseal"
        /\ \A q \in Procs \ {p} : pc'[q] = pc[q]
    BY <1>g, <2>1
  <2>5. /\ read' \in [Procs -> Rows] /\ read'[p] = rows
        /\ \A q \in Procs \ {p} : read'[q] = read[q]
    BY <1>t, <2>1, <2>2, Zenon DEF TypeOK
  <2>6. TypeOK' BY <1>t, <2>1, <2>4, <2>5, Zenon DEF TypeOK
  <2>7. ProcInv(p)' BY <1>t, <2>1, <2>3, <2>4, <2>5, SMT DEF ProcInv, Exists
  <2> QED BY <2>1, <2>4, <2>5, <2>6, <2>7, QuietStep, Zenon
<1>5. ASSUME Unseal(p) PROVE IInv' /\ Advance
  <2>1. PICK c \in ToDo(p) :
          \/ Abort(p)
          \/ /\ job' = [job EXCEPT ![p].cred = c]
             /\ Goto(p, "write")
             /\ UNCHANGED <<keys, cred, deleted, target, drawn, read, dirty>>
    BY <1>5, Zenon DEF Unseal
  <2>2. c \in Creds /\ read[p][c] # None BY <2>1, Zenon DEF ToDo
  <2>3. pc[p] = "reseal" BY <1>5 DEF Unseal
  <2>4. CASE Abort(p) BY <1>a, <2>4
  <2>5. CASE /\ job' = [job EXCEPT ![p].cred = c]
             /\ Goto(p, "write")
             /\ UNCHANGED <<keys, cred, deleted, target, drawn, read, dirty>>
    <3>1. [job[p] EXCEPT !.cred = c] \in Job BY <1>p, <2>2, JobTypes, Zenon
    <3>2. /\ job' \in [Procs -> Job] /\ job'[p] = [job[p] EXCEPT !.cred = c]
          /\ \A q \in Procs \ {p} : job'[q] = job[q]
      BY <1>t, <2>5, <3>1, Zenon DEF TypeOK
    <3>3. job'[p].ver = job[p].ver /\ job'[p].cred = c BY <1>p, <3>2, SMT DEF Job
    <3>4. /\ pc' \in [Procs -> Phases] /\ pc'[p] = "write"
          /\ \A q \in Procs \ {p} : pc'[q] = pc[q]
      BY <1>g, <2>5
    <3>5. TypeOK' BY <1>t, <2>5, <3>2, <3>4, Zenon DEF TypeOK
    <3>6. ProcInv(p)' BY <1>t, <2>2, <2>3, <2>5, <3>3, <3>4, SMT DEF ProcInv, Exists
    <3> QED BY <2>5, <3>2, <3>4, <3>5, <3>6, QuietStep, Zenon
  <2> QED BY <2>1, <2>4, <2>5
<1>6. ASSUME WriteResealed(p) PROVE IInv' /\ Advance
  <2> DEFINE c == job[p].cred
  <2>1. pc[p] = "write" /\ WriteRow(p, c, Resealed(p, c)) /\ Goto(p, "reseal")
    BY <1>6, Zenon DEF WriteResealed
  <2>2. c \in Creds /\ read[p][c] # None /\ cred[c] # None
    BY <1>t, <2>1, SMT DEF ProcInv
  <2>3. cred[c] \in Row /\ read[p][c] \in Row
    <3>1. cred \in Rows /\ read[p] \in Rows BY <1>t, Zenon DEF TypeOK
    <3> HIDE DEF c
    <3> QED BY <2>2, <3>1, Zenon DEF Rows
  <2>4. read[p][c].secret \in Secrets BY <2>3, SMT DEF Row
  <2>5. Resealed(p, c) \in Row BY <1>p, <2>3, <2>4, RowTypes, Zenon DEF Resealed
  <2> HIDE DEF c
  <2>6. /\ dirty' \in [Procs -> Rows]
        /\ UNCHANGED <<keys, cred, deleted, target, drawn, job, read>>
    BY <1>t, <2>1, <2>2, <2>5, WriteType, Zenon
  <2>7. /\ pc' \in [Procs -> Phases] /\ pc'[p] = "reseal"
        /\ \A q \in Procs \ {p} : pc'[q] = pc[q]
    BY <1>g, <2>1
  <2>8. TypeOK' BY <1>t, <2>6, <2>7, Zenon DEF TypeOK
  <2>9. ProcInv(p)' BY <1>t, <2>1, <2>6, <2>7, SMT DEF ProcInv, Exists
  <2> QED BY <2>6, <2>7, <2>8, <2>9, QuietStep, Zenon
<1>7. ASSUME AllResealed(p) PROVE IInv' /\ Advance
  <2>1. /\ pc[p] = "reseal" /\ Goto(p, "commit")
        /\ UNCHANGED <<keys, cred, deleted, target, drawn, job, read, dirty>>
    BY <1>7, Zenon DEF AllResealed
  <2>2. /\ pc' \in [Procs -> Phases] /\ pc'[p] = "commit"
        /\ \A q \in Procs \ {p} : pc'[q] = pc[q]
    BY <1>g, <2>1
  <2>3. TypeOK' BY <1>t, <2>1, <2>2, Zenon DEF TypeOK
  <2>4. ProcInv(p)' BY <1>t, <2>1, <2>2, SMT DEF ProcInv, Exists
  <2> QED BY <2>1, <2>2, <2>3, <2>4, QuietStep, Zenon
<1> QED BY <1>1, <1>2, <1>3, <1>4, <1>5, <1>6, <1>7

(* A commit publishes what the request has written; a rotation of keys     *)
(* retires the older ones.                                                 *)
LEMMA CommitStep ==
    ASSUME IInv, NEW p \in Procs, Commit(p)
    PROVE  IInv' /\ Advance
<1>1. TypeOK /\ KeysInv /\ ProcInv(p) /\ End(p) BY DEF IInv, Commit
<1>2. job[p].ver \in Versions BY <1>1, SMT DEF TypeOK, Job
<1>3. UNCHANGED <<deleted, target, drawn>> /\ pc[p] = "commit" BY DEF Commit
<1>4. /\ keys' \in [Versions -> States]
      /\ KeysInv'
      /\ \A u \in Versions : Exists(u) => Exists(u)'
      /\ Advance
  <2>1. CASE job[p].op = "rekey"
    <3>1. keys' = Retire(job[p].ver) /\ Exists(job[p].ver)
      BY <1>1, <1>3, <2>1, SMT DEF Commit, ProcInv
    <3>2. keys' \in [Versions -> States] BY <1>1, <3>1, SMT DEF TypeOK, Retire, States
    <3>3. keys \in [Versions -> States] BY <1>1 DEF TypeOK
    <3>4. /\ KeysInv'
          /\ \A u \in Versions : Exists(u) => Exists(u)'
          /\ \A u \in Versions : keys'[u] # keys[u] =>
                 Exists(u) /\ keys'[u] # "none" /\ Rank(keys'[u]) > Rank(keys[u])
      BY <1>1, <1>2, <3>1, <3>3, OlderKeys, Zenon
    <3> QED BY <3>2, <3>4, Zenon DEF Advance
  <2>2. CASE job[p].op # "rekey"
    <3>1. keys' = keys BY <2>2, Zenon DEF Commit
    <3> QED BY <1>1, <3>1, KeysStay, Zenon DEF Advance, TypeOK
  <2> QED BY <2>1, <2>2
<1>5. cred' = [c \in Creds |-> IF dirty[p][c] # None THEN dirty[p][c] ELSE cred[c]]
  BY Zenon DEF Commit
<1>6. cred \in [Creds -> Row \cup {None}] /\ dirty[p] \in [Creds -> Row \cup {None}]
  BY <1>1, Zenon DEF TypeOK, Rows
<1>7. cred' \in Rows BY <1>5, <1>6, SMT DEF Rows
<1>8. \A c \in Creds : cred[c] # None => cred'[c] # None BY <1>5, SMT
<1>9. TypeOK' BY <1>1, <1>3, <1>4, <1>7, EndType, Zenon DEF TypeOK
<1> QED BY <1>1, <1>4, <1>8, <1>9, EndType, OneMoves, Zenon

(* Every step keeps the invariant, and lets keys only advance.             *)
LEMMA Step ==
    ASSUME IInv, [Next]_vars
    PROVE  IInv' /\ Advance
<1>1. ASSUME NEW p \in Procs, Abort(p) PROVE IInv' /\ Advance
  <2>1. keys' = keys BY <1>1 DEF Abort
  <2> QED BY <1>1, <2>1, AbortStep, Zenon DEF Advance
<1>2. ASSUME NEW p \in Procs, Work(p) PROVE IInv' /\ Advance
  <2>1. CASE DeadlockAbort(p) BY <1>1, <2>1, Zenon DEF DeadlockAbort
  <2> QED BY <1>2, <2>1, CredentialStep, RekeyStep, CommitStep, Zenon DEF Work
<1>3. ASSUME NEW p \in Procs, Write(p) PROVE IInv' /\ Advance
  BY <1>3, CredentialStep, RekeyStep, Zenon DEF Write
<1>4. ASSUME NEW p \in Procs, Fail(p) PROVE IInv' /\ Advance
  BY <1>1, <1>4, Zenon DEF Fail
<1>5. ASSUME NEW c \in Creds, DeleteCredential(c) PROVE IInv' /\ Advance
  <2>1. UNCHANGED <<keys, cred, target, drawn, pc, job, read, dirty>>
        /\ deleted' = deleted \cup {c}
    BY <1>5, Zenon DEF DeleteCredential
  <2>2. TypeOK' /\ KeysInv' /\ \A u \in Versions : Exists(u) => Exists(u)'
    BY <2>1, KeysStay, Zenon DEF IInv, TypeOK
  <2>3. ASSUME NEW q \in Procs PROVE ProcInv(q)'
    <3>1. job[q] \in Job /\ ProcInv(q) BY Zenon DEF IInv, TypeOK
    <3> QED BY <2>1, <2>2, <3>1, Frame, Zenon
  <2> QED BY <2>1, <2>2, <2>3, Zenon DEF IInv, Advance
<1>6. CASE UNCHANGED vars
  <2>1. UNCHANGED <<keys, cred, deleted, target, drawn, pc, job, read, dirty>>
    BY <1>6, Zenon DEF vars
  <2>2. TypeOK' /\ KeysInv' /\ \A u \in Versions : Exists(u) => Exists(u)'
    BY <2>1, KeysStay, Zenon DEF IInv, TypeOK
  <2>3. ASSUME NEW q \in Procs PROVE ProcInv(q)'
    <3>1. job[q] \in Job /\ ProcInv(q) BY Zenon DEF IInv, TypeOK
    <3> QED BY <2>1, <2>2, <3>1, Frame, Zenon
  <2> QED BY <2>1, <2>2, <2>3, Zenon DEF IInv, Advance
<1> QED BY <1>2, <1>3, <1>4, <1>5, <1>6, ArriveStep, Zenon DEF Next

(* The initial states satisfy the invariant.                               *)
LEMMA Initial == Init => IInv
<1> SUFFICES ASSUME Init PROVE IInv OBVIOUS
<1>1. 1 \in Versions /\ NoJob \in Job BY JobTypes
<1>2. NoRows \in Rows /\ \A c \in Creds : NoRows[c] = None BY Zenon DEF NoRows, Rows
<1>3. TypeOK
  <2>1. keys \in [Versions -> States] BY SMT DEF Init, States
  <2>2. target \in [Creds -> Secrets] /\ drawn \subseteq Secrets BY SMT DEF Init
  <2>3. "idle" \in Phases BY DEF Phases
  <2>4. /\ cred = NoRows /\ deleted = {}
        /\ pc = [p \in Procs |-> "idle"] /\ job = [p \in Procs |-> NoJob]
        /\ read = [p \in Procs |-> NoRows] /\ dirty = [p \in Procs |-> NoRows]
    BY Zenon DEF Init
  <2>5. pc \in [Procs -> Phases] /\ job \in [Procs -> Job] BY <1>1, <2>3, <2>4, Zenon
  <2>6. read \in [Procs -> Rows] /\ dirty \in [Procs -> Rows] BY <1>2, <2>4, Zenon
  <2> QED BY <1>2, <2>1, <2>2, <2>4, <2>5, <2>6, Zenon DEF TypeOK
<1>4. KeysInv
  <2>1. \A v \in Versions : Exists(v) <=> v = 1 BY SMT DEF Init, Exists
  <2>2. keys[1] = "ACTIVE" BY <1>1, SMT DEF Init
  <2>3. Top(1) BY <1>1, <2>1, SMT DEF Top, Versions
  <2>4. KeyStatesOrdered
    <3> SUFFICES ASSUME NEW u \in Versions, NEW v \in Versions, u < v, Exists(v)
                 PROVE  FALSE
      BY Zenon DEF KeyStatesOrdered
    <3> QED BY <2>1, SMT DEF Versions
  <2> QED BY <1>1, <2>2, <2>3, <2>4, Zenon DEF KeysInv
<1>5. ASSUME NEW p \in Procs PROVE ProcInv(p)
  <2>1. pc[p] = "idle" /\ read[p] = NoRows BY Zenon DEF Init
  <2> QED BY <1>2, <2>1, SMT DEF ProcInv
<1> QED BY <1>3, <1>4, <1>5, Zenon DEF IInv

-----------------------------------------------------------------------------
(* The theorems *)

(* The inductive invariant holds in every reachable state.                 *)
THEOREM Invariance == Spec => []IInv
<1>1. IInv /\ [Next]_vars => IInv' BY Step
<1> QED BY Initial, <1>1, PTL DEF Spec

(* Every variable holds a value of its kind.                               *)
THEOREM TypeCorrect == Spec => []TypeOK
<1>1. IInv => TypeOK BY DEF IInv
<1> QED BY Invariance, <1>1, PTL

(* However rotations of keys (vault.ts:320-338) overlap and fail, the      *)
(* newest key is ACTIVE.                                                   *)
THEOREM NewestActive == Spec => []NewestKeyActive
<1>1. ASSUME IInv PROVE NewestKeyActive
  <2>1. PICK v \in Versions : Top(v) /\ keys[v] = "ACTIVE"
    BY <1>1, Zenon DEF IInv, KeysInv
  <2>2. Newest = v BY <1>1, <2>1, NewestIsTop, Zenon DEF IInv, TypeOK
  <2> QED BY <2>1, <2>2, Zenon DEF NewestKeyActive
<1> QED BY Invariance, <1>1, PTL

(* However rotations of keys overlap and fail, no key is behind a newer    *)
(* one on the way to RETIRED.                                              *)
THEOREM KeyOrder == Spec => []KeyStatesOrdered
<1>1. IInv => KeyStatesOrdered BY DEF IInv, KeysInv
<1> QED BY Invariance, <1>1, PTL

(* No step, of crypto.ts:26, crypto.ts:39 or vault.ts:334, takes a key     *)
(* back to an earlier state.                                               *)
THEOREM KeyAdvance == Spec => KeyStatesAdvance
<1>1. IInv /\ [Next]_vars => [Advance]_vars BY Step
<1>2. [Advance]_vars => [\A v \in Versions : keys'[v] # keys[v] =>
           \/ ~Exists(v)
           \/ keys'[v] # "none" /\ Rank(keys'[v]) > Rank(keys[v])]_vars
  BY DEF Advance
<1> QED BY Invariance, <1>1, <1>2, PTL DEF Spec, KeyStatesAdvance

-----------------------------------------------------------------------------
(* Rotations of keys lose no secret *)

(* The row opens under its key_version, to the secret the target accepts.  *)
Good(c, row) == Exists(row.ver) /\ Opens(row) /\ row.secret = target[c]

(* Without rotateCredential, every row stored, read or about to be stored  *)
(* is good.                                                                *)
GoodInv ==
    /\ \A p \in Procs : job[p].op # "rotate"
    /\ \A c \in Creds : cred[c] # None => Good(c, cred[c])
    /\ \A p \in Procs, c \in Creds :
           /\ read[p][c] # None => Good(c, read[p][c])
           /\ dirty[p][c] # None => Good(c, dirty[p][c])

(* A good row stays good while versions are added and targets are left.    *)
LEMMA StaysGood ==
    ASSUME NEW c \in Creds, NEW row \in Row, Good(c, row), target' = target,
           \A u \in Versions : Exists(u) => Exists(u)'
    PROVE  Good(c, row)'
<1>1. row.ver \in Versions BY SMT DEF Row
<1>2. Exists(row.ver)' BY <1>1, Zenon DEF Good
<1> QED BY <1>2, Zenon DEF Good, Opens

(* A step that stores or reads only what is good keeps everything good.    *)
LEMMA GoodFrame ==
    ASSUME IInv, GoodInv, target' = target,
           \A u \in Versions : Exists(u) => Exists(u)',
           \A p \in Procs : job'[p].op # "rotate",
           \A c \in Creds : cred'[c] # None =>
               cred'[c] = cred[c] \/ \E p \in Procs : cred'[c] = dirty[p][c],
           \A p \in Procs, c \in Creds : read'[p][c] # None =>
               read'[p][c] = read[p][c] \/ read'[p][c] = cred[c],
           \A p \in Procs, c \in Creds : dirty'[p][c] # None =>
               \/ dirty'[p][c] = dirty[p][c]
               \/ dirty'[p][c] \in Row /\ Good(c, dirty'[p][c])
    PROVE  GoodInv'
<1>1. /\ cred \in [Creds -> Row \cup {None}]
      /\ read \in [Procs -> [Creds -> Row \cup {None}]]
      /\ dirty \in [Procs -> [Creds -> Row \cup {None}]]
  BY Zenon DEF IInv, TypeOK, Rows
<1>2. ASSUME NEW c \in Creds, NEW row \in Row, Good(c, row)
      PROVE  Exists(row.ver)' /\ Opens(row) /\ row.secret = target'[c]
  BY <1>2, StaysGood, Zenon DEF Good, Opens
<1>3. \A c \in Creds : cred[c] # None => cred[c] \in Row /\ Good(c, cred[c])
  BY <1>1, Zenon DEF GoodInv
<1>4. \A p \in Procs, c \in Creds :
          /\ read[p][c] # None => read[p][c] \in Row /\ Good(c, read[p][c])
          /\ dirty[p][c] # None => dirty[p][c] \in Row /\ Good(c, dirty[p][c])
  <2> SUFFICES ASSUME NEW p \in Procs, NEW c \in Creds
               PROVE  /\ read[p][c] # None => read[p][c] \in Row /\ Good(c, read[p][c])
                      /\ dirty[p][c] # None => dirty[p][c] \in Row /\ Good(c, dirty[p][c])
    OBVIOUS
  <2>1. read[p] \in [Creds -> Row \cup {None}] /\ dirty[p] \in [Creds -> Row \cup {None}]
    BY <1>1, Zenon
  <2>2. read[p][c] \in Row \cup {None} /\ dirty[p][c] \in Row \cup {None} BY <2>1, Zenon
  <2> QED BY <2>2, Zenon DEF GoodInv
<1>5. ASSUME NEW c \in Creds, cred'[c] # None PROVE Good(c, cred[c])'
  <2>1. PICK row \in Row : row = cred'[c] /\ Good(c, row) BY <1>3, <1>4, <1>5, Zenon
  <2> QED BY <1>2, <2>1, Zenon DEF Good, Opens, Exists
<1>6. ASSUME NEW p \in Procs, NEW c \in Creds, read'[p][c] # None
      PROVE  Good(c, read[p][c])'
  <2>1. read'[p][c] = read[p][c] \/ read'[p][c] = cred[c] BY <1>6
  <2>2. read'[p][c] \in Row /\ Good(c, read'[p][c])
    <3>1. CASE read'[p][c] = read[p][c] BY <1>4, <1>6, <3>1, Zenon
    <3>2. CASE read'[p][c] = cred[c] BY <1>3, <1>6, <3>2, Zenon
    <3> QED BY <2>1, <3>1, <3>2
  <2>3. PICK row \in Row : row = read'[p][c] /\ Good(c, row) BY <2>2, Zenon
  <2> QED BY <1>2, <2>3, Zenon DEF Good, Opens, Exists
<1>7. ASSUME NEW p \in Procs, NEW c \in Creds, dirty'[p][c] # None
      PROVE  Good(c, dirty[p][c])'
  <2>1. PICK row \in Row : row = dirty'[p][c] /\ Good(c, row) BY <1>4, <1>7, ZenonT(40)
  <2> QED BY <1>2, <2>1, Zenon DEF Good, Opens, Exists
<1> QED BY <1>5, <1>6, <1>7, Zenon DEF GoodInv

(* A request that ends forgets what it has read and written.               *)
LEMMA EndForgets ==
    ASSUME IInv, GoodInv, NEW p \in Procs, End(p)
    PROVE  /\ \A q \in Procs : job'[q].op # "rotate"
           /\ \A q \in Procs, c \in Creds :
                  /\ read'[q][c] # None => read'[q][c] = read[q][c]
                  /\ dirty'[q][c] # None => dirty'[q][c] = dirty[q][c]
<1>1. TypeOK BY DEF IInv
<1>2. job'[p] = NoJob /\ read'[p] = NoRows /\ dirty'[p] = NoRows
  BY <1>1, Zenon DEF TypeOK, End
<1>3. \A q \in Procs \ {p} :
          job'[q] = job[q] /\ read'[q] = read[q] /\ dirty'[q] = dirty[q]
  BY <1>1, Zenon DEF TypeOK, End
<1>4. NoJob.op # "rotate" BY SMT DEF NoJob, NewJob
<1>5. \A c \in Creds : read'[p][c] = None /\ dirty'[p][c] = None
  BY <1>2, Zenon DEF NoRows
<1>6. \A q \in Procs : job'[q].op # "rotate" BY <1>2, <1>3, <1>4, Zenon DEF GoodInv
<1> QED BY <1>3, <1>5, <1>6, Zenon

(* Every step keeps everything good.                                       *)
LEMMA GoodStep ==
    ASSUME "rotate" \notin Ops, IInv, GoodInv, [Next]_vars
    PROVE  GoodInv'
<1>t. TypeOK BY DEF IInv
<1>j. job \in [Procs -> Job] /\ dirty \in [Procs -> [Creds -> Row \cup {None}]]
  BY <1>t, Zenon DEF TypeOK, Rows
<1>m. \A u \in Versions : Exists(u) => Exists(u)'
  BY Step, Zenon DEF Advance, Exists
<1>o. \A p \in Procs : job[p].op # "rotate" BY DEF GoodInv
<1>q. ASSUME \A p \in Procs : job'[p].op # "rotate",
             target' = target, cred' = cred, read' = read, dirty' = dirty
      PROVE  GoodInv'
  BY <1>m, <1>q, GoodFrame, Zenon
<1>a. ASSUME NEW p \in Procs, Abort(p) PROVE GoodInv'
  <2>1. End(p) /\ target' = target /\ cred' = cred BY <1>a DEF Abort
  <2> QED BY <1>m, <2>1, EndForgets, GoodFrame, Zenon
<1>b. ASSUME NEW p \in Procs, NEW phase, NEW op \in {"create", "rekey"},
             NEW c \in Creds \cup {None}, Begin(p, phase, NewJob(op, c, 1, None)),
             target' = target, cred' = cred, read' = read, dirty' = dirty
      PROVE  GoodInv'
  <2>1. NewJob(op, c, 1, None).op # "rotate" BY SMT DEF NewJob
  <2>2. /\ job'[p] = NewJob(op, c, 1, None)
        /\ \A q \in Procs \ {p} : job'[q] = job[q]
    BY <1>b, <1>j, Zenon DEF Begin
  <2>3. \A q \in Procs : job'[q].op # "rotate" BY <1>o, <2>1, <2>2, Zenon
  <2> QED BY <1>q, <1>b, <2>3, Zenon
<1>c. ASSUME NEW p \in Procs, NEW j \in Job, j.op = job[p].op, job' = [job EXCEPT ![p] = j]
      PROVE  \A q \in Procs : job'[q].op # "rotate"
  BY <1>c, <1>j, <1>o, Zenon
<1>f. ASSUME NEW p \in Procs
      PROVE  /\ \A v \in Versions : [job[p] EXCEPT !.ver = v] \in Job
             /\ \A c \in Creds : [job[p] EXCEPT !.cred = c] \in Job
             /\ \A v \in Versions : [job[p] EXCEPT !.ver = v].op = job[p].op
             /\ \A c \in Creds : [job[p] EXCEPT !.cred = c].op = job[p].op
  <2>1. job[p] \in Job BY <1>j
  <2>2. \A v \in Versions : [job[p] EXCEPT !.ver = v].op = job[p].op
    BY <2>1, SMT DEF Job
  <2>3. \A c \in Creds : [job[p] EXCEPT !.cred = c].op = job[p].op
    BY <2>1, SMT DEF Job
  <2> QED BY <2>1, <2>2, <2>3, JobTypes, Zenon
<1>w. ASSUME NEW p \in Procs, NEW c \in Creds, NEW row \in Row, Good(c, row),
             WriteRow(p, c, row)
      PROVE  GoodInv'
  <2>1. /\ dirty' = [dirty EXCEPT ![p][c] = row]
        /\ UNCHANGED <<keys, cred, deleted, target, drawn, job, read>>
    BY <1>w DEF WriteRow
  <2>2. \A q \in Procs, d \in Creds :
            dirty'[q][d] = dirty[q][d] \/ (dirty'[q][d] = row /\ d = c)
    BY <1>j, <2>1, SMT
  <2>3. \A q \in Procs, d \in Creds : dirty'[q][d] # None =>
            \/ dirty'[q][d] = dirty[q][d]
            \/ dirty'[q][d] \in Row /\ Good(d, dirty'[q][d])
    BY <1>w, <2>2, Zenon
  <2> QED BY <1>m, <1>o, <2>1, <2>3, GoodFrame, Zenon
<1>1. ASSUME NEW p \in Procs, Arrive(p) PROVE GoodInv'
  <2>1. ASSUME NEW c \in Creds, BeginCreate(p, c) PROVE GoodInv'
    <3>1. /\ Begin(p, "active", NewJob("create", c, 1, None))
          /\ target' = target /\ cred' = cred /\ read' = read /\ dirty' = dirty
      BY <2>1, Zenon DEF BeginCreate
    <3> QED BY <1>b, <3>1
  <2>2. ASSUME NEW c \in Creds, NEW s \in Secrets, BeginRotate(p, c, s) PROVE FALSE
    <3>1. NewJob("rotate", c, cred[c].ver, s).op = "rotate" BY SMT DEF NewJob
    <3> QED BY <2>2, <3>1, Zenon DEF BeginRotate, Begin
  <2>3. ASSUME BeginRekey(p) PROVE GoodInv'
    <3>1. /\ Begin(p, "max", NewJob("rekey", None, 1, None))
          /\ target' = target /\ cred' = cred /\ read' = read /\ dirty' = dirty
      BY <2>3, Zenon DEF BeginRekey
    <3> QED BY <1>b, <3>1
  <2> QED BY <1>1, <2>1, <2>2, <2>3, Zenon DEF Arrive
<1>2. ASSUME NEW p \in Procs, ReadActive(p) PROVE GoodInv'
  <2>1. PICK v \in Versions : job' = [job EXCEPT ![p].ver = v]
    BY <1>2, Zenon DEF ReadActive
  <2>2. target' = target /\ cred' = cred /\ read' = read /\ dirty' = dirty
    BY <1>2, Zenon DEF ReadActive
  <2>3. job' = [job EXCEPT ![p] = [job[p] EXCEPT !.ver = v]] BY <2>1, Zenon
  <2>4. \A q \in Procs : job'[q].op # "rotate" BY <1>c, <1>f, <2>3, Zenon
  <2> QED BY <1>q, <2>2, <2>4, Zenon
<1>3. ASSUME NEW p \in Procs, SealNew(p) PROVE GoodInv'
  <2> DEFINE c == job[p].cred
             v == job[p].ver
  <2>1. CASE Abort(p) BY <1>a, <2>1
  <2>2. CASE ~Abort(p)
    <3>1. pc[p] = "seal" /\ Exists(v) /\ WriteRow(p, c, NewRow(c, v))
      BY <1>3, <2>2, SMT DEF SealNew
    <3>2. c \in Creds BY <3>1, SMT DEF IInv, ProcInv
    <3>3. v \in Versions /\ target[c] \in Secrets
      BY <1>t, <1>j, <3>2, SMT DEF TypeOK, Job
    <3> HIDE DEF c, v
    <3>4. NewRow(c, v) \in Row BY <3>3, RowTypes, Zenon DEF NewRow
    <3>5. Good(c, NewRow(c, v)) BY <3>1, SMT DEF Good, Opens, NewRow
    <3> QED BY <1>w, <3>1, <3>2, <3>4, <3>5, Zenon
  <2> QED BY <2>1, <2>2
<1>4. ASSUME NEW p \in Procs, ChangeTarget(p) \/ Verify(p) \/ UpdateSecret(p) PROVE FALSE
  <2>1. pc[p] \in {"change", "verify", "update"}
    BY <1>4, SMT DEF ChangeTarget, Verify, UpdateSecret
  <2> QED BY <1>o, <2>1, Zenon DEF IInv, ProcInv
<1>5. ASSUME NEW p \in Procs, ReadMax(p) PROVE GoodInv'
  <2>1. CASE Abort(p) BY <1>a, <2>1
  <2>2. CASE ~Abort(p)
    <3>1. /\ job' = [job EXCEPT ![p].ver = Newest + 1] /\ Newest < MaxVersion
          /\ target' = target /\ cred' = cred /\ read' = read /\ dirty' = dirty
      BY <1>5, <2>2, Zenon DEF ReadMax
    <3>2. PICK v \in Versions : Top(v) BY Zenon DEF IInv, KeysInv
    <3>3. Newest = v BY <1>t, <3>2, NewestIsTop, Zenon DEF TypeOK
    <3>4. v + 1 \in Versions BY <3>1, <3>3, VaultAssumption, SMT DEF Versions
    <3>5. job' = [job EXCEPT ![p] = [job[p] EXCEPT !.ver = v + 1]] BY <3>1, <3>3, Zenon
    <3>6. \A q \in Procs : job'[q].op # "rotate" BY <1>c, <1>f, <3>4, <3>5, Zenon
    <3> QED BY <1>q, <3>1, <3>6, Zenon
  <2> QED BY <2>1, <2>2
<1>6. ASSUME NEW p \in Procs, InsertKey(p) \/ MarkRotating(p) \/ AllResealed(p)
      PROVE  GoodInv'
  <2>1. CASE Abort(p) BY <1>a, <2>1
  <2>2. CASE ~Abort(p)
    <3>1. UNCHANGED <<cred, target, job, read, dirty>>
      BY <1>6, <2>2, Zenon DEF InsertKey, MarkRotating, AllResealed
    <3> QED BY <1>o, <1>q, <3>1, Zenon
  <2> QED BY <2>1, <2>2
<1>7. ASSUME NEW p \in Procs, SelectCreds(p) PROVE GoodInv'
  <2> DEFINE rows == [c \in Creds |-> IF c \in deleted THEN None ELSE cred[c]]
  <2>1. read' = [read EXCEPT ![p] = rows] /\ UNCHANGED <<cred, target, job, dirty>>
    BY <1>7, Zenon DEF SelectCreds
  <2>2. \A c \in Creds : rows[c] = None \/ rows[c] = cred[c] BY SMT
  <2> HIDE DEF rows
  <2>3. \A q \in Procs, c \in Creds : read'[q][c] # None =>
            read'[q][c] = read[q][c] \/ read'[q][c] = cred[c]
    BY <1>t, <2>1, <2>2, Zenon DEF TypeOK
  <2> QED BY <1>m, <1>o, <2>1, <2>3, GoodFrame, Zenon
<1>8. ASSUME NEW p \in Procs, Unseal(p) PROVE GoodInv'
  <2>1. CASE Abort(p) BY <1>a, <2>1
  <2>2. CASE ~Abort(p)
    <3>1. PICK c \in ToDo(p) :
            job' = [job EXCEPT ![p].cred = c]
            /\ UNCHANGED <<target, cred, read, dirty>>
      BY <1>8, <2>2, Zenon DEF Unseal
    <3>2. c \in Creds BY <3>1, Zenon DEF ToDo
    <3>3. job' = [job EXCEPT ![p] = [job[p] EXCEPT !.cred = c]] BY <3>1, Zenon
    <3>4. \A q \in Procs : job'[q].op # "rotate" BY <1>c, <1>f, <3>2, <3>3, Zenon
    <3> QED BY <1>q, <3>1, <3>4, Zenon
  <2> QED BY <2>1, <2>2
<1>9. ASSUME NEW p \in Procs, WriteResealed(p) PROVE GoodInv'
  <2> DEFINE c == job[p].cred
             v == job[p].ver
  <2>1. pc[p] = "write" /\ WriteRow(p, c, Resealed(p, c)) BY <1>9, Zenon DEF WriteResealed
  <2>2. /\ c \in Creds /\ read[p][c] # None /\ cred[c] # None /\ Exists(v)
    BY <2>1, SMT DEF IInv, ProcInv
  <2>3. v \in Versions BY <1>j, SMT DEF Job
  <2> HIDE DEF c
  <2>4. cred[c] \in Row /\ read[p][c] \in Row /\ Good(c, read[p][c])
    <3>1. cred \in Rows /\ read[p] \in Rows BY <1>t, Zenon DEF TypeOK
    <3>2. cred[c] \in Row /\ read[p][c] \in Row BY <2>2, <3>1, Zenon DEF Rows
    <3>3. Good(c, read[p][c]) BY <2>2, Zenon DEF GoodInv
    <3> QED BY <3>2, <3>3
  <2>5. read[p][c].secret \in Secrets BY <2>4, SMT DEF Row
  <2>6. Resealed(p, c) \in Row BY <2>3, <2>4, <2>5, RowTypes, Zenon DEF Resealed
  <2>7. /\ Resealed(p, c).ver = v /\ Resealed(p, c).key = v
        /\ Resealed(p, c).secret = read[p][c].secret
    BY <2>4, SMT DEF Resealed, Row
  <2>8. Good(c, Resealed(p, c)) BY <2>2, <2>4, <2>7, Zenon DEF Good, Opens
  <2> QED BY <1>w, <2>1, <2>2, <2>6, <2>8, Zenon
<1>10. ASSUME NEW p \in Procs, Commit(p) PROVE GoodInv'
  <2>1. /\ cred' = [c \in Creds |-> IF dirty[p][c] # None THEN dirty[p][c] ELSE cred[c]]
        /\ End(p) /\ target' = target
    BY <1>10, Zenon DEF Commit
  <2>2. \A c \in Creds : cred'[c] # None =>
            cred'[c] = cred[c] \/ \E q \in Procs : cred'[c] = dirty[q][c]
    BY <2>1, Zenon
  <2> QED BY <1>m, <2>1, <2>2, EndForgets, GoodFrame, Zenon
<1>11. ASSUME NEW c \in Creds, DeleteCredential(c) PROVE GoodInv'
  <2>1. UNCHANGED <<cred, target, job, read, dirty>>
    BY <1>11, Zenon DEF DeleteCredential
  <2> QED BY <1>o, <1>q, <2>1, Zenon
<1>12. ASSUME UNCHANGED vars PROVE GoodInv'
  <2>1. UNCHANGED <<cred, target, job, read, dirty>> BY <1>12, Zenon DEF vars
  <2> QED BY <1>o, <1>q, <2>1, Zenon
<1>13. ASSUME NEW p \in Procs, DeadlockAbort(p) \/ Fail(p) PROVE GoodInv'
  BY <1>a, <1>13, Zenon DEF DeadlockAbort, Fail
<1>14. ASSUME NEW p \in Procs, Work(p) \/ Write(p) PROVE GoodInv'
  BY <1>2, <1>3, <1>4, <1>5, <1>6, <1>7, <1>8, <1>9, <1>10, <1>13, <1>14, Zenon
  DEF Work, Write
<1> QED BY <1>1, <1>11, <1>12, <1>13, <1>14, Zenon DEF Next

(* At the start there is no row.                                           *)
LEMMA GoodInit == Init => GoodInv
<1> SUFFICES ASSUME Init PROVE GoodInv OBVIOUS
<1>1. NoJob.op # "rotate" BY SMT DEF NoJob, NewJob
<1>2. \A c \in Creds : NoRows[c] = None BY Zenon DEF NoRows
<1>3. \A p \in Procs : job[p] = NoJob /\ read[p] = NoRows /\ dirty[p] = NoRows
  BY Zenon DEF Init
<1>4. cred = NoRows BY DEF Init
<1> QED BY <1>1, <1>2, <1>3, <1>4, Zenon DEF GoodInv

(* Where no single credential is rotated, rotations of all keys lose no    *)
(* secret, however they overlap, fail and deadlock.                        *)
THEOREM NothingLost ==
    ASSUME "rotate" \notin Ops
    PROVE  Spec => []Recoverable
<1>1. IInv /\ GoodInv /\ [Next]_vars => IInv' /\ GoodInv' BY Step, GoodStep
<1>2. GoodInv => Recoverable BY Zenon DEF GoodInv, Good, Recoverable
<1> QED BY Initial, GoodInit, <1>1, <1>2, PTL DEF Spec

-----------------------------------------------------------------------------
(* Without rotateCredential the vault is a store of secrets *)

Elsewhere == {"idle", "max", "insert", "mark", "select", "reseal", "write"}

Creates(p, c) == job[p].op = "create" /\ job[p].cred = c

(* A request that creates a credential is about one that is not stored; a  *)
(* row that is to be written is stored already, or is being created.       *)
Stores(p) ==
    /\ pc[p] \in Elsewhere => job[p].op # "create"
    /\ \A c \in Creds : Creates(p, c) => cred[c] = None
    /\ \A c \in Creds : dirty[p][c] # None => cred[c] # None \/ Creates(p, c)

(* And nobody else creates it: what commits a creation is a new row.       *)
StoreInv ==
    /\ \A p \in Procs : Stores(p)
    /\ \A p, q \in Procs, c \in Creds : Creates(p, c) /\ Creates(q, c) => p = q

(* A step of one request that commits nothing and creates nothing new.     *)
LEMMA StoreFrame ==
    ASSUME StoreInv, NEW p \in Procs, cred' = cred,
           \A q \in Procs \ {p} : pc'[q] = pc[q] /\ job'[q] = job[q] /\ dirty'[q] = dirty[q],
           \A c \in Creds : Creates(p, c)' => Creates(p, c),
           pc'[p] \in Elsewhere => job'[p].op # "create",
           \A c \in Creds : dirty'[p][c] # None => cred[c] # None \/ Creates(p, c)'
    PROVE  StoreInv'
<1>1. \A q \in Procs \ {p}, c \in Creds : Creates(q, c)' <=> Creates(q, c)
  BY Zenon DEF Creates
<1>2. ASSUME NEW q \in Procs PROVE Stores(q)'
  <2>1. CASE q = p
    <3>1. Stores(p) BY DEF StoreInv
    <3>2. Stores(p)' BY <3>1, Zenon DEF Stores
    <3> QED BY <2>1, <3>2
  <2>2. CASE q # p
    <3>1. Stores(q) BY DEF StoreInv
    <3>2. pc'[q] = pc[q] /\ job'[q] = job[q] /\ dirty'[q] = dirty[q] BY <2>2
    <3>3. \A c \in Creds : Creates(q, c)' <=> Creates(q, c) BY <1>1, <2>2
    <3> QED BY <3>1, <3>2, <3>3, Zenon DEF Stores
  <2> QED BY <2>1, <2>2
<1>3. ASSUME NEW q \in Procs, NEW r \in Procs, NEW c \in Creds,
             Creates(q, c)', Creates(r, c)'
      PROVE  q = r
  <2>1. Creates(q, c) /\ Creates(r, c) BY <1>1, <1>3, Zenon
  <2> QED BY <2>1, Zenon DEF StoreInv
<1> QED BY <1>2, <1>3, Zenon DEF StoreInv

(* A request that ends.                                                    *)
LEMMA StoreEnds ==
    ASSUME TypeOK, NEW p \in Procs, End(p)
    PROVE  /\ job'[p].op # "create"
           /\ \A c \in Creds : ~Creates(p, c)' /\ dirty'[p][c] = None
           /\ \A q \in Procs \ {p} :
                  pc'[q] = pc[q] /\ job'[q] = job[q] /\ dirty'[q] = dirty[q]
<1>1. pc'[p] = "idle" /\ job'[p] = NoJob /\ dirty'[p] = NoRows
  BY Zenon DEF TypeOK, End, Goto
<1>2. NoJob.op # "create" BY SMT DEF NoJob, NewJob
<1>3. \A q \in Procs \ {p} :
          pc'[q] = pc[q] /\ job'[q] = job[q] /\ dirty'[q] = dirty[q]
  BY Zenon DEF TypeOK, End, Goto
<1> QED BY <1>1, <1>2, <1>3, Zenon DEF Creates, NoRows

LEMMA StoreAborts ==
    ASSUME TypeOK, StoreInv, NEW p \in Procs, Abort(p)
    PROVE  StoreInv'
<1>1. End(p) /\ cred' = cred BY DEF Abort
<1> QED BY <1>1, StoreEnds, StoreFrame, Zenon

(* A request that goes on, whatever it has found out.                      *)
LEMMA StoreGoesOn ==
    ASSUME TypeOK, StoreInv, NEW p \in Procs, NEW phase \in Phases, NEW j \in Job,
           Goto(p, phase), job' = [job EXCEPT ![p] = j], cred' = cred, dirty' = dirty,
           j.op = job[p].op, j.op = "create" => j.cred = job[p].cred,
           phase \in Elsewhere => pc[p] \in Elsewhere
    PROVE  StoreInv'
<1>1. /\ pc'[p] = phase /\ job'[p] = j
      /\ \A q \in Procs \ {p} : pc'[q] = pc[q] /\ job'[q] = job[q] /\ dirty'[q] = dirty[q]
  BY Zenon DEF TypeOK, Goto
<1>2. \A c \in Creds : Creates(p, c)' <=> Creates(p, c) BY <1>1, Zenon DEF Creates
<1>3. Stores(p) BY DEF StoreInv
<1> QED BY <1>1, <1>2, <1>3, StoreFrame, Zenon DEF Stores

(* A request that writes a row that is stored, or that it creates.         *)
LEMMA StoreWrites ==
    ASSUME TypeOK, StoreInv, NEW p \in Procs, NEW c \in Creds, NEW row \in Row,
           NEW phase \in Phases, WriteRow(p, c, row), Goto(p, phase),
           cred[c] # None \/ Creates(p, c),
           phase \in Elsewhere => pc[p] \in Elsewhere
    PROVE  StoreInv'
<1>1. dirty \in [Procs -> [Creds -> Row \cup {None}]] BY Zenon DEF TypeOK, Rows
<1>2. dirty' = [dirty EXCEPT ![p][c] = row] /\ cred' = cred /\ job' = job
  BY DEF WriteRow
<1>3. /\ \A q \in Procs \ {p} : dirty'[q] = dirty[q]
      /\ \A d \in Creds \ {c} : dirty'[p][d] = dirty[p][d]
  BY <1>1, <1>2, SMT
<1>4. pc'[p] = phase /\ \A q \in Procs \ {p} : pc'[q] = pc[q]
  BY Zenon DEF TypeOK, Goto
<1>5. \A d \in Creds : Creates(p, d)' <=> Creates(p, d) BY <1>2, Zenon DEF Creates
<1>6. \A d \in Creds : dirty'[p][d] # None => cred[d] # None \/ Creates(p, d)'
  <2> SUFFICES ASSUME NEW d \in Creds, dirty'[p][d] # None
               PROVE  cred[d] # None \/ Creates(p, d)
    BY <1>5
  <2>1. CASE d = c BY <2>1
  <2>2. CASE d # c BY <1>3, <2>2, Zenon DEF StoreInv, Stores
  <2> QED BY <2>1, <2>2
<1>7. pc'[p] \in Elsewhere => job'[p].op # "create"
  BY <1>2, <1>4, Zenon DEF StoreInv, Stores
<1> QED BY <1>2, <1>3, <1>4, <1>5, <1>6, <1>7, StoreFrame, Zenon

(* Every step keeps it.                                                    *)
LEMMA StoreStep ==
    ASSUME IInv, StoreInv, [Next]_vars
    PROVE  StoreInv'
<1>t. TypeOK BY DEF IInv
<1>j. job \in [Procs -> Job] /\ \A p \in Procs : Stores(p)
  BY <1>t, Zenon DEF TypeOK, StoreInv
<1>p. /\ {"seal", "verify", "update", "commit", "insert", "mark", "select", "reseal", "write"}
             \subseteq Phases
      /\ {"insert", "mark", "select", "reseal", "write", "max", "idle"} \subseteq Elsewhere
      /\ \A phase \in {"active", "seal", "change", "verify", "update", "commit"} :
             phase \notin Elsewhere
  BY SMT DEF Phases, Elsewhere
<1>e. ASSUME NEW p \in Procs, Abort(p) PROVE StoreInv'
  BY <1>e, <1>t, StoreAborts
<1>n. ASSUME NEW p \in Procs, NEW phase \in Phases, Goto(p, phase),
             job' = job, cred' = cred, dirty' = dirty,
             phase \in Elsewhere => pc[p] \in Elsewhere
      PROVE  StoreInv'
  <2>1. job' = [job EXCEPT ![p] = job[p]] /\ job[p] \in Job BY <1>n, <1>j, Zenon
  <2> QED BY <1>n, <1>t, <2>1, StoreGoesOn, Zenon
<1>1. ASSUME NEW p \in Procs, NEW c \in Creds, BeginCreate(p, c) PROVE StoreInv'
  <2> DEFINE j == NewJob("create", c, 1, None)
  <2>1. j.op = "create" /\ j.cred = c BY SMT DEF NewJob
  <2>2. /\ Begin(p, "active", j) /\ cred[c] = None /\ \A q \in Procs : job[q].cred # c
        /\ UNCHANGED <<cred, dirty>>
    BY <1>1, Zenon DEF BeginCreate
  <2> HIDE DEF j
  <2>3. /\ pc'[p] = "active" /\ job'[p] = j
        /\ \A q \in Procs \ {p} : pc'[q] = pc[q] /\ job'[q] = job[q]
    BY <1>t, <2>2, Zenon DEF TypeOK, Begin, Goto
  <2>4. Creates(p, c)' /\ \A d \in Creds : Creates(p, d)' => d = c
    BY <2>1, <2>3, Zenon DEF Creates
  <2>5. \A q \in Procs \ {p}, d \in Creds : Creates(q, d)' <=> Creates(q, d)
    BY <2>3, Zenon DEF Creates
  <2>6. \A q \in Procs \ {p} : ~Creates(q, c)' BY <2>2, <2>5, Zenon DEF Creates
  <2>7. \A d \in Creds : ~Creates(p, d)
    <3>1. pc[p] \in Elsewhere BY <1>p, <2>2 DEF Begin
    <3> QED BY <1>j, <3>1, Zenon DEF Stores, Creates
  <2>8. ASSUME NEW q \in Procs PROVE Stores(q)'
    <3>1. CASE q = p
      <4>1. \A d \in Creds : Creates(p, d)' => cred'[d] = None BY <2>2, <2>4, Zenon
      <4>2. \A d \in Creds : dirty'[p][d] # None => cred'[d] # None
        BY <1>j, <2>2, <2>7, Zenon DEF Stores
      <4>3. pc'[p] \notin Elsewhere BY <1>p, <2>3
      <4> QED BY <3>1, <4>1, <4>2, <4>3, Zenon DEF Stores
    <3>2. CASE q # p
      <4>1. Stores(q) BY <1>j
      <4> QED BY <2>2, <2>3, <2>5, <3>2, <4>1, Zenon DEF Stores
    <3> QED BY <3>1, <3>2
  <2>9. ASSUME NEW q \in Procs, NEW r \in Procs, NEW d \in Creds,
               Creates(q, d)', Creates(r, d)'
        PROVE  q = r
    <3>1. CASE d = c BY <2>6, <2>9, <3>1, Zenon
    <3>2. CASE d # c
      <4>1. q # p /\ r # p BY <2>4, <2>9, <3>2, Zenon
      <4>2. Creates(q, d) /\ Creates(r, d) BY <2>5, <2>9, <4>1, Zenon
      <4> QED BY <4>2, Zenon DEF StoreInv
    <3> QED BY <3>1, <3>2
  <2> QED BY <2>8, <2>9, Zenon DEF StoreInv
<1>2. ASSUME NEW p \in Procs, BeginRekey(p) PROVE StoreInv'
  <2> DEFINE j == NewJob("rekey", None, 1, None)
  <2>1. j.op # "create" BY SMT DEF NewJob
  <2>2. Begin(p, "max", j) /\ UNCHANGED <<cred, dirty>> BY <1>2, Zenon DEF BeginRekey
  <2> HIDE DEF j
  <2>3. /\ pc[p] = "idle" /\ pc'[p] = "max" /\ job'[p] = j /\ dirty' = dirty /\ cred' = cred
        /\ \A q \in Procs \ {p} : pc'[q] = pc[q] /\ job'[q] = job[q] /\ dirty'[q] = dirty[q]
    BY <1>t, <2>2, Zenon DEF TypeOK, Begin, Goto
  <2>4. \A d \in Creds : ~Creates(p, d)
    BY <1>j, <1>p, <2>3, Zenon DEF Stores, Creates
  <2>5. \A d \in Creds : ~Creates(p, d)' BY <2>1, <2>3, Zenon DEF Creates
  <2>6. \A d \in Creds : dirty'[p][d] # None => cred[d] # None
    BY <1>j, <2>3, <2>4, Zenon DEF Stores
  <2> QED BY <2>1, <2>3, <2>5, <2>6, StoreFrame, Zenon
<1>3. ASSUME NEW p \in Procs, NEW phase \in Phases, NEW j \in Job, Goto(p, phase),
             job' = [job EXCEPT ![p] = j], cred' = cred, dirty' = dirty,
             j.op = job[p].op, j.cred = job[p].cred \/ pc[p] \in Elsewhere,
             phase \in Elsewhere => pc[p] \in Elsewhere
      PROVE  StoreInv'
  <2>1. Stores(p) BY <1>j
  <2>2. j.op = "create" => j.cred = job[p].cred BY <1>3, <2>1, Zenon DEF Stores
  <2> QED BY <1>3, <1>t, <2>2, StoreGoesOn, Zenon
<1>f. ASSUME NEW p \in Procs
      PROVE  /\ \A v \in Versions : /\ [job[p] EXCEPT !.ver = v] \in Job
                                    /\ [job[p] EXCEPT !.ver = v].op = job[p].op
                                    /\ [job[p] EXCEPT !.ver = v].cred = job[p].cred
             /\ \A c \in Creds : /\ [job[p] EXCEPT !.cred = c] \in Job
                                 /\ [job[p] EXCEPT !.cred = c].op = job[p].op
  <2>1. job[p] \in Job BY <1>j
  <2>2. \A v \in Versions : /\ [job[p] EXCEPT !.ver = v].op = job[p].op
                            /\ [job[p] EXCEPT !.ver = v].cred = job[p].cred
    BY <2>1, SMT DEF Job
  <2>3. \A c \in Creds : [job[p] EXCEPT !.cred = c].op = job[p].op BY <2>1, SMT DEF Job
  <2> QED BY <2>1, <2>2, <2>3, JobTypes, Zenon
<1>4. ASSUME NEW p \in Procs, ReadActive(p) PROVE StoreInv'
  <2>1. PICK v \in Versions : job' = [job EXCEPT ![p].ver = v]
    BY <1>4, Zenon DEF ReadActive
  <2>2. job' = [job EXCEPT ![p] = [job[p] EXCEPT !.ver = v]] BY <2>1, Zenon
  <2>3. Goto(p, "seal") /\ cred' = cred /\ dirty' = dirty BY <1>4, Zenon DEF ReadActive
  <2> QED BY <1>3, <1>f, <1>p, <2>2, <2>3, Zenon
<1>5. ASSUME NEW p \in Procs, SealNew(p) PROVE StoreInv'
  <2> DEFINE c == job[p].cred
             v == job[p].ver
  <2>1. CASE Abort(p) BY <1>e, <2>1
  <2>2. CASE ~Abort(p)
    <3>1. pc[p] = "seal" /\ WriteRow(p, c, NewRow(c, v)) /\ Goto(p, "commit")
      BY <1>5, <2>2, SMT DEF SealNew
    <3>2. c \in Creds /\ Creates(p, c) BY <3>1, SMT DEF IInv, ProcInv, Creates
    <3>3. v \in Versions /\ target[c] \in Secrets
      BY <1>t, <1>j, <3>2, SMT DEF TypeOK, Job
    <3> HIDE DEF c, v
    <3>4. NewRow(c, v) \in Row BY <3>3, RowTypes, Zenon DEF NewRow
    <3> QED BY <1>p, <1>t, <3>1, <3>2, <3>4, StoreWrites, Zenon
  <2> QED BY <2>1, <2>2
<1>6. ASSUME NEW p \in Procs, ChangeTarget(p) \/ Verify(p) \/ UpdateSecret(p)
      PROVE  StoreInv'
  <2>1. CASE Abort(p) BY <1>e, <2>1
  <2>2. CASE ChangeTarget(p) /\ ~Abort(p)
    BY <1>n, <1>p, <2>2, Zenon DEF ChangeTarget
  <2>3. CASE Verify(p) /\ ~Abort(p)
    BY <1>n, <1>p, <2>3, Zenon DEF Verify
  <2>4. CASE UpdateSecret(p)
    <3> DEFINE c == job[p].cred
               row == [cred[c] EXCEPT !.key = job[p].ver, !.secret = job[p].new]
    <3>1. pc[p] = "update" /\ WriteRow(p, c, row) /\ Goto(p, "commit")
      BY <2>4, Zenon DEF UpdateSecret
    <3>2. c \in Creds /\ cred[c] # None /\ job[p].new \in Secrets
      BY <3>1, SMT DEF IInv, ProcInv
    <3>3. job[p].ver \in Versions BY <1>j, SMT DEF Job
    <3>4. cred[c] \in Row
      <4>1. cred \in Rows BY <1>t DEF TypeOK
      <4> QED BY <3>2, <4>1, Zenon DEF Rows
    <3>5. row \in Row BY <3>2, <3>3, <3>4, RowTypes, Zenon
    <3> HIDE DEF c, row
    <3> QED BY <1>p, <1>t, <3>1, <3>2, <3>5, StoreWrites, Zenon
  <2> QED BY <1>6, <2>1, <2>2, <2>3, <2>4
<1>7. ASSUME NEW p \in Procs, ReadMax(p) PROVE StoreInv'
  <2>1. CASE Abort(p) BY <1>e, <2>1
  <2>2. CASE ~Abort(p)
    <3>1. /\ job' = [job EXCEPT ![p].ver = Newest + 1] /\ Newest < MaxVersion
          /\ pc[p] = "max" /\ Goto(p, "insert") /\ cred' = cred /\ dirty' = dirty
      BY <1>7, <2>2, Zenon DEF ReadMax
    <3>2. PICK v \in Versions : Top(v) BY Zenon DEF IInv, KeysInv
    <3>3. Newest = v BY <1>t, <3>2, NewestIsTop, Zenon DEF TypeOK
    <3>4. v + 1 \in Versions BY <3>1, <3>3, VaultAssumption, SMT DEF Versions
    <3>5. job' = [job EXCEPT ![p] = [job[p] EXCEPT !.ver = v + 1]] BY <3>1, <3>3, Zenon
    <3> QED BY <1>3, <1>f, <1>p, <3>1, <3>4, <3>5, Zenon
  <2> QED BY <2>1, <2>2
<1>8. ASSUME NEW p \in Procs,
             InsertKey(p) \/ MarkRotating(p) \/ SelectCreds(p) \/ AllResealed(p)
      PROVE  StoreInv'
  <2>1. CASE InsertKey(p)
    <3>1. CASE Abort(p) BY <1>e, <3>1
    <3>2. CASE ~Abort(p) BY <1>n, <1>p, <2>1, <3>2, Zenon DEF InsertKey
    <3> QED BY <3>1, <3>2
  <2>2. CASE MarkRotating(p) BY <1>n, <1>p, <2>2, Zenon DEF MarkRotating
  <2>3. CASE SelectCreds(p) BY <1>n, <1>p, <2>3, Zenon DEF SelectCreds
  <2>4. CASE AllResealed(p) BY <1>n, <1>p, <2>4, Zenon DEF AllResealed
  <2> QED BY <1>8, <2>1, <2>2, <2>3, <2>4
<1>9. ASSUME NEW p \in Procs, Unseal(p) PROVE StoreInv'
  <2>1. CASE Abort(p) BY <1>e, <2>1
  <2>2. CASE ~Abort(p)
    <3>1. PICK c \in ToDo(p) :
            /\ job' = [job EXCEPT ![p].cred = c]
            /\ Goto(p, "write") /\ UNCHANGED <<cred, dirty>>
      BY <1>9, <2>2, Zenon DEF Unseal
    <3>2. c \in Creds BY <3>1, Zenon DEF ToDo
    <3>3. job' = [job EXCEPT ![p] = [job[p] EXCEPT !.cred = c]] BY <3>1, Zenon
    <3>4. pc[p] = "reseal" BY <1>9 DEF Unseal
    <3> QED BY <1>3, <1>f, <1>p, <3>1, <3>2, <3>3, <3>4, Zenon
  <2> QED BY <2>1, <2>2
<1>10. ASSUME NEW p \in Procs, WriteResealed(p) PROVE StoreInv'
  <2> DEFINE c == job[p].cred
  <2>1. pc[p] = "write" /\ WriteRow(p, c, Resealed(p, c)) /\ Goto(p, "reseal")
    BY <1>10, Zenon DEF WriteResealed
  <2>2. c \in Creds /\ read[p][c] # None /\ cred[c] # None
    BY <2>1, SMT DEF IInv, ProcInv
  <2>3. job[p].ver \in Versions BY <1>j, SMT DEF Job
  <2> HIDE DEF c
  <2>4. cred[c] \in Row /\ read[p][c] \in Row
    <3>1. cred \in Rows /\ read[p] \in Rows BY <1>t, Zenon DEF TypeOK
    <3> QED BY <2>2, <3>1, Zenon DEF Rows
  <2>5. read[p][c].secret \in Secrets BY <2>4, SMT DEF Row
  <2>6. Resealed(p, c) \in Row BY <2>3, <2>4, <2>5, RowTypes, Zenon DEF Resealed
  <2> QED BY <1>p, <1>t, <2>1, <2>2, <2>6, StoreWrites, Zenon
<1>11. ASSUME NEW p \in Procs, Commit(p) PROVE StoreInv'
  <2>1. /\ cred' = [c \in Creds |-> IF dirty[p][c] # None THEN dirty[p][c] ELSE cred[c]]
        /\ End(p)
    BY <1>11, Zenon DEF Commit
  <2>2. /\ job'[p].op # "create"
        /\ \A c \in Creds : ~Creates(p, c)' /\ dirty'[p][c] = None
        /\ \A q \in Procs \ {p} :
               pc'[q] = pc[q] /\ job'[q] = job[q] /\ dirty'[q] = dirty[q]
    BY <1>t, <2>1, StoreEnds
  <2>3. \A q \in Procs \ {p}, c \in Creds : Creates(q, c)' <=> Creates(q, c)
    BY <2>2, Zenon DEF Creates
  <2>4. \A c \in Creds : cred[c] # None => cred'[c] # None BY <2>1, Zenon
  <2>5. ASSUME NEW q \in Procs \ {p}, NEW c \in Creds, Creates(q, c) PROVE cred'[c] = None
    <3>1. cred[c] = None /\ ~Creates(p, c) BY <2>5, Zenon DEF StoreInv, Stores
    <3>2. dirty[p][c] = None BY <3>1, Zenon DEF StoreInv, Stores
    <3> QED BY <2>1, <3>1, <3>2, Zenon
  <2>6. ASSUME NEW q \in Procs PROVE Stores(q)'
    <3>1. CASE q = p BY <2>2, <3>1, Zenon DEF Stores
    <3>2. CASE q # p
      <4>1. Stores(q) BY <1>j
      <4>2. \A c \in Creds : Creates(q, c)' => cred'[c] = None BY <2>3, <2>5, <3>2, Zenon
      <4>3. \A c \in Creds : dirty'[q][c] # None => cred'[c] # None \/ Creates(q, c)'
        BY <2>2, <2>3, <2>4, <3>2, <4>1, Zenon DEF Stores
      <4>4. pc'[q] \in Elsewhere => job'[q].op # "create"
        BY <2>2, <3>2, <4>1, Zenon DEF Stores
      <4> QED BY <4>2, <4>3, <4>4, Zenon DEF Stores
    <3> QED BY <3>1, <3>2
  <2>7. ASSUME NEW q \in Procs, NEW r \in Procs, NEW c \in Creds,
               Creates(q, c)', Creates(r, c)'
        PROVE  q = r
    <3>1. q # p /\ r # p BY <2>2, <2>7, Zenon
    <3>2. Creates(q, c) /\ Creates(r, c) BY <2>3, <2>7, <3>1, Zenon
    <3> QED BY <3>2, Zenon DEF StoreInv
  <2> QED BY <2>6, <2>7, Zenon DEF StoreInv
<1>12. ASSUME UNCHANGED <<cred, pc, job, dirty>> PROVE StoreInv'
  BY <1>12, Zenon DEF StoreInv, Stores, Creates
<1>13. ASSUME NEW c \in Creds, NEW s \in Secrets, NEW p \in Procs, BeginRotate(p, c, s)
       PROVE  StoreInv'
  <2> DEFINE j == NewJob("rotate", c, cred[c].ver, s)
  <2>1. j.op # "create" BY SMT DEF NewJob
  <2>2. Begin(p, "change", j) /\ UNCHANGED <<cred, dirty>> BY <1>13, Zenon DEF BeginRotate
  <2> HIDE DEF j
  <2>3. /\ pc[p] = "idle" /\ pc'[p] = "change" /\ job'[p] = j /\ dirty' = dirty /\ cred' = cred
        /\ \A q \in Procs \ {p} : pc'[q] = pc[q] /\ job'[q] = job[q] /\ dirty'[q] = dirty[q]
    BY <1>t, <2>2, Zenon DEF TypeOK, Begin, Goto
  <2>4. \A d \in Creds : ~Creates(p, d)
    BY <1>j, <1>p, <2>3, Zenon DEF Stores, Creates
  <2>5. \A d \in Creds : ~Creates(p, d)' BY <2>1, <2>3, Zenon DEF Creates
  <2>6. \A d \in Creds : dirty'[p][d] # None => cred[d] # None
    BY <1>j, <2>3, <2>4, Zenon DEF Stores
  <2> QED BY <2>1, <2>3, <2>5, <2>6, StoreFrame, Zenon
<1>14. ASSUME NEW p \in Procs, Arrive(p) PROVE StoreInv'
  BY <1>1, <1>2, <1>13, <1>14, Zenon DEF Arrive
<1>15. ASSUME NEW p \in Procs, Work(p) \/ Write(p) \/ Fail(p) PROVE StoreInv'
  BY <1>e, <1>4, <1>5, <1>6, <1>7, <1>8, <1>9, <1>10, <1>11, <1>15, Zenon
  DEF Work, Write, Fail, DeadlockAbort
<1>16. ASSUME NEW c \in Creds, DeleteCredential(c) PROVE StoreInv'
  BY <1>12, <1>16, Zenon DEF DeleteCredential
<1>17. ASSUME UNCHANGED vars PROVE StoreInv'
  BY <1>12, <1>17, Zenon DEF vars
<1> QED BY <1>14, <1>15, <1>16, <1>17, Zenon DEF Next

(* At the start nobody creates anything.                                   *)
LEMMA StoreStart == Init => StoreInv
<1> SUFFICES ASSUME Init PROVE StoreInv OBVIOUS
<1>1. NoJob.op # "create" BY SMT DEF NoJob, NewJob
<1>2. \A p \in Procs : job[p] = NoJob /\ dirty[p] = NoRows BY Zenon DEF Init
<1>3. \A p \in Procs, c \in Creds : ~Creates(p, c) BY <1>1, <1>2, Zenon DEF Creates
<1>4. \A p \in Procs, c \in Creds : dirty[p][c] = None BY <1>2, Zenon DEF NoRows
<1> QED BY <1>1, <1>2, <1>3, <1>4, Zenon DEF StoreInv, Stores

(* What a step shows of the credentials.                                   *)
LEMMA StepShows ==
    ASSUME "rotate" \notin Ops, IInv, GoodInv, [Next]_vars
    PROVE  /\ target' = target
           /\ \/ UNCHANGED <<cred, deleted>>
              \/ \E p \in Procs : Commit(p)
              \/ \E c \in Creds : DeleteCredential(c)
<1> DEFINE Unseen == UNCHANGED <<target, cred, deleted>>
<1>1. ASSUME NEW p \in Procs, Abort(p) PROVE Unseen BY <1>1 DEF Abort
<1>2. ASSUME NEW p \in Procs, Arrive(p) PROVE Unseen
  <2>1. ASSUME NEW c \in Creds, BeginCreate(p, c) PROVE Unseen BY <2>1 DEF BeginCreate
  <2>2. ASSUME NEW c \in Creds, NEW s \in Secrets, BeginRotate(p, c, s) PROVE Unseen
    BY <2>2 DEF BeginRotate
  <2>3. ASSUME BeginRekey(p) PROVE Unseen BY <2>3 DEF BeginRekey
  <2> QED BY <1>2, <2>1, <2>2, <2>3, Zenon DEF Arrive
<1>3. ASSUME NEW p \in Procs, ChangeTarget(p) \/ Verify(p) \/ UpdateSecret(p) PROVE FALSE
  <2>1. pc[p] \in {"change", "verify", "update"}
    BY <1>3, SMT DEF ChangeTarget, Verify, UpdateSecret
  <2> QED BY <2>1, Zenon DEF IInv, ProcInv, GoodInv
<1>4. ASSUME NEW p \in Procs, ReadActive(p) \/ SealNew(p) PROVE Unseen
  BY <1>1, <1>4, Zenon DEF ReadActive, SealNew, WriteRow
<1>5. ASSUME NEW p \in Procs, ReadMax(p) \/ InsertKey(p) \/ MarkRotating(p) PROVE Unseen
  BY <1>1, <1>5, Zenon DEF ReadMax, InsertKey, MarkRotating
<1>6. ASSUME NEW p \in Procs,
             SelectCreds(p) \/ Unseal(p) \/ WriteResealed(p) \/ AllResealed(p)
      PROVE  Unseen
  BY <1>1, <1>6, Zenon DEF SelectCreds, Unseal, WriteResealed, AllResealed, WriteRow
<1>7. ASSUME NEW p \in Procs, DeadlockAbort(p) \/ Fail(p) PROVE Unseen
  BY <1>1, <1>7, Zenon DEF DeadlockAbort, Fail
<1>8. ASSUME NEW p \in Procs, Commit(p) PROVE target' = target BY <1>8 DEF Commit
<1>9. ASSUME NEW c \in Creds, DeleteCredential(c) PROVE target' = target
  BY <1>9 DEF DeleteCredential
<1>10. ASSUME UNCHANGED vars PROVE Unseen BY <1>10 DEF vars
<1>11. ASSUME NEW p \in Procs, Work(p) \/ Write(p) \/ Fail(p) PROVE Unseen \/ Commit(p)
  BY <1>3, <1>4, <1>5, <1>6, <1>7, <1>11, Zenon DEF Work, Write
<1> QED BY <1>2, <1>8, <1>9, <1>10, <1>11, Zenon DEF Next

AllReveal == \A c \in Stored : Revealed(c) = target[c]

(* Each stored credential reveals what its target accepts,                 *)
LEMMA Reveals == GoodInv => AllReveal
BY Zenon DEF GoodInv, Good, Stored, Revealed, AllReveal

(* so that a step shows exactly when a credential is stored or hidden.     *)
LEMMA StoreRefines ==
    ASSUME "rotate" \notin Ops, IInv, GoodInv, StoreInv, [Next]_vars, GoodInv'
    PROVE  [Store!StoreNext]_(Store!store)
<1> DEFINE content == [c \in Stored |-> Revealed(c)]
<1>1. \A c \in Stored : Revealed(c) = target[c] BY Reveals DEF AllReveal
<1>2. target' = target BY StepShows
<1>3. content' = [c \in Stored' |-> target[c]]
  <2>1. AllReveal' BY Reveals, PTL
  <2> QED BY <1>2, <2>1, Zenon DEF AllReveal
<1>4. content = [c \in Stored |-> target[c]] /\ content' = [c \in Stored' |-> target[c]]
  BY <1>1, <1>3, Zenon
<1>5. DOMAIN content = Stored OBVIOUS
<1>6. Stored \subseteq Creds BY DEF Stored
<1> HIDE DEF content
<1>7. ASSUME Stored' = Stored, deleted' = deleted PROVE UNCHANGED <<content, deleted, target>>
  BY <1>2, <1>4, <1>7, Zenon
<1>8. ASSUME NEW c \in Creds, c \notin Stored, Stored' = Stored \cup {c}, deleted' = deleted
      PROVE  Store!Keep(c)
  <2>1. content' = [d \in DOMAIN content \cup {c} |-> IF d = c THEN target[c] ELSE content[d]]
    <3>1. \A d \in Stored : d # c /\ content[d] = target[d] BY <1>4, <1>8, Zenon
    <3>2. \A d \in Stored \cup {c} :
              (IF d = c THEN target[c] ELSE content[d]) = target[d]
      BY <3>1, Zenon
    <3>3. content' = [d \in Stored \cup {c} |-> target[d]] BY <1>4, <1>8, Zenon
    <3> QED BY <1>5, <3>2, <3>3, Zenon
  <2> QED BY <1>2, <1>5, <1>8, <2>1, Zenon DEF Store!Keep, content
<1>9. ASSUME NEW c \in Creds, DeleteCredential(c) PROVE Store!Hide(c)
  <2>1. /\ cred[c] # None /\ c \notin deleted /\ deleted' = deleted \cup {c}
        /\ cred' = cred
    BY <1>9 DEF DeleteCredential
  <2>2. c \in Stored /\ Stored' = Stored BY <2>1, Zenon DEF Stored
  <2>3. content' = content BY <1>4, <2>2, Zenon
  <2> QED BY <1>2, <1>5, <2>1, <2>2, <2>3, Zenon DEF Store!Hide, content
<1>10. ASSUME NEW p \in Procs, Commit(p)
       PROVE  UNCHANGED <<content, deleted, target>> \/ \E c \in Creds : Store!Keep(c)
  <2>1. /\ cred' = [c \in Creds |-> IF dirty[p][c] # None THEN dirty[p][c] ELSE cred[c]]
        /\ deleted' = deleted
    BY <1>10, Zenon DEF Commit
  <2>2. \A c \in Creds : cred'[c] # None <=> cred[c] # None \/ dirty[p][c] # None
    BY <2>1, Zenon
  <2>3. CASE \E c \in Creds : Creates(p, c) /\ dirty[p][c] # None
    <3>1. PICK c \in Creds : Creates(p, c) /\ dirty[p][c] # None BY <2>3
    <3>2. c \notin Stored BY <3>1, Zenon DEF StoreInv, Stores, Stored
    <3>3. \A d \in Creds : dirty[p][d] # None => cred[d] # None \/ d = c
      BY <3>1, Zenon DEF StoreInv, Stores, Creates
    <3>4. \A d : d \in Stored' <=> d \in Stored \cup {c}
      BY <2>2, <3>1, <3>3, Zenon DEF Stored
    <3>5. Stored' = Stored \cup {c} BY <3>4, Zenon
    <3> QED BY <1>8, <2>1, <3>2, <3>5, Zenon
  <2>4. CASE \A c \in Creds : Creates(p, c) => dirty[p][c] = None
    <3>1. \A d \in Creds : dirty[p][d] # None => cred[d] # None
      BY <2>4, Zenon DEF StoreInv, Stores
    <3>2. \A d : d \in Stored' <=> d \in Stored BY <2>2, <3>1, Zenon DEF Stored
    <3>3. Stored' = Stored BY <3>2, Zenon
    <3> QED BY <1>7, <2>1, <3>3
  <2> QED BY <2>3, <2>4, Zenon
<1>11. ASSUME UNCHANGED <<cred, deleted>> PROVE UNCHANGED <<content, deleted, target>>
  <2>1. Stored' = Stored BY <1>11, Zenon DEF Stored
  <2> QED BY <1>7, <1>11, <2>1
<1>12. \/ UNCHANGED <<content, deleted, target>>
       \/ \E c \in Creds : Store!Keep(c) \/ Store!Hide(c)
  BY <1>9, <1>10, <1>11, StepShows, Zenon
<1> QED BY <1>12, Zenon DEF Store!StoreNext, Store!store, content

(* At the start nothing is stored.                                         *)
LEMMA StoreEmpty == Init => Store!StoreInit
<1> SUFFICES ASSUME Init PROVE Store!StoreInit OBVIOUS
<1>1. Stored = {} BY Zenon DEF Init, NoRows, Stored
<1>2. [c \in Stored |-> Revealed(c)] = [c \in {} |-> None] BY <1>1, Zenon
<1>3. target \in [Creds -> Secrets]
  <2>1. target \in [Creds -> drawn] /\ drawn \subseteq Secrets BY Zenon DEF Init
  <2> QED BY <2>1, Zenon
<1>4. deleted = {} BY DEF Init
<1> QED BY <1>2, <1>3, <1>4, Zenon DEF Store!StoreInit

(* Where no single credential is rotated, rotating every key of the tenant *)
(* (vault.ts:320-338) cannot be told from doing nothing: the vault is a    *)
(* store in which a secret, once there, stays what it is.                  *)
THEOREM Refinement ==
    ASSUME "rotate" \notin Ops
    PROVE  Spec => ImplementsStore
<1>1. IInv /\ GoodInv /\ StoreInv /\ [Next]_vars => IInv' /\ GoodInv' /\ StoreInv'
  BY Step, GoodStep, StoreStep
<1>2. IInv /\ GoodInv /\ StoreInv /\ [Next]_vars /\ GoodInv' => [Store!StoreNext]_(Store!store)
  BY StoreRefines
<1> QED BY Initial, GoodInit, StoreStart, StoreEmpty, <1>1, <1>2, PTL
        DEF Spec, ImplementsStore, Store!StoreSpec

-----------------------------------------------------------------------------
(* A rotation has its target to itself *)

InRotation(p) == job[p].op = "rotate"

(* Every secret in use anywhere was drawn.                                 *)
Drawn ==
    /\ \A c \in Creds : target[c] \in drawn
    /\ \A c \in Creds : cred[c] # None => cred[c].secret \in drawn
    /\ \A q \in Procs, c \in Creds :
           /\ read[q][c] # None => read[q][c].secret \in drawn
           /\ dirty[q][c] # None => dirty[q][c].secret \in drawn
    /\ \A q \in Procs : InRotation(q) => job[q].new \in drawn

(* No row that is stored, read, or written by another than p holds s.      *)
Unseen(p, s) ==
    /\ \A c \in Creds : cred[c] # None => cred[c].secret # s
    /\ \A q \in Procs, c \in Creds : read[q][c] # None => read[q][c].secret # s
    /\ \A q \in Procs \ {p}, c \in Creds : dirty[q][c] # None => dirty[q][c].secret # s

(* The secret that a rotation has drawn is its own until it commits, and   *)
(* no target but its own can have it: nobody who reads the credential can  *)
(* change the target after this rotation has.                              *)
Rotates(p) ==
    InRotation(p) =>
        /\ pc[p] \notin Elsewhere
        /\ job[p].cred \in Creds /\ cred[job[p].cred] # None
        /\ Unseen(p, job[p].new)
        /\ \A c \in Creds \ {job[p].cred} : target[c] # job[p].new
        /\ HoldsTarget(p) => target[job[p].cred] = job[p].new
        /\ \A q \in Procs \ {p} : InRotation(q) => job[q].new # job[p].new

RotInv == Drawn /\ \A p \in Procs : Rotates(p)

(* A step of one request that leaves the targets alone, and writes nothing *)
(* that another rotation has drawn.                                        *)
LEMMA RotFrame ==
    ASSUME RotInv, NEW p \in Procs, target' = target, drawn' = drawn,
           \A q \in Procs \ {p} :
               /\ pc'[q] = pc[q] /\ job'[q] = job[q]
               /\ read'[q] = read[q] /\ dirty'[q] = dirty[q],
           \A c \in Creds : cred[c] # None => cred'[c] # None,
           InRotation(p)' =>
               /\ InRotation(p) /\ pc'[p] \notin Elsewhere
               /\ job'[p].new = job[p].new /\ job'[p].cred = job[p].cred
               /\ HoldsTarget(p)' => HoldsTarget(p) \/ target[job[p].cred] = job[p].new,
           \A c \in Creds : cred'[c] # None =>
               \/ cred'[c] = cred[c]
               \/ cred'[c] = dirty[p][c] /\ ~InRotation(p)',
           \A c \in Creds : read'[p][c] # None =>
               read'[p][c] = read[p][c] \/ read'[p][c] = cred[c],
           \A c \in Creds : dirty'[p][c] # None =>
               \/ dirty'[p][c] = dirty[p][c]
               \/ /\ dirty'[p][c].secret \in drawn
                  /\ \A q \in Procs \ {p} :
                         InRotation(q) => dirty'[p][c].secret # job[q].new
    PROVE  RotInv'
<1>1. \A q \in Procs \ {p} : /\ InRotation(q)' <=> InRotation(q)
                             /\ HoldsTarget(q)' <=> HoldsTarget(q)
  BY Zenon DEF InRotation, HoldsTarget
<1>2. Drawn'
  <2>1. \A c \in Creds : target'[c] \in drawn' BY Zenon DEF RotInv, Drawn
  <2>2. \A c \in Creds : cred'[c] # None => cred'[c].secret \in drawn'
    BY Zenon DEF RotInv, Drawn
  <2>3. ASSUME NEW q \in Procs, NEW c \in Creds
        PROVE  /\ read'[q][c] # None => read'[q][c].secret \in drawn'
               /\ dirty'[q][c] # None => dirty'[q][c].secret \in drawn'
    <3>1. CASE q = p
      <4>1. read'[p][c] # None => read'[p][c].secret \in drawn'
        BY Zenon DEF RotInv, Drawn
      <4>2. dirty'[p][c] # None => dirty'[p][c].secret \in drawn'
        BY Zenon DEF RotInv, Drawn
      <4> QED BY <3>1, <4>1, <4>2
    <3>2. CASE q # p
      <4>1. read'[q] = read[q] /\ dirty'[q] = dirty[q] BY <3>2
      <4> QED BY <4>1, Zenon DEF RotInv, Drawn
    <3> QED BY <3>1, <3>2
  <2>4. ASSUME NEW q \in Procs, InRotation(q)' PROVE job'[q].new \in drawn'
    <3>1. InRotation(q) /\ job'[q].new = job[q].new BY <1>1, <2>4, Zenon
    <3> QED BY <3>1, Zenon DEF RotInv, Drawn
  <2> QED BY <2>1, <2>2, <2>3, <2>4, Zenon DEF Drawn
<1>3. ASSUME NEW q \in Procs, InRotation(q)'
      PROVE  /\ pc'[q] \notin Elsewhere /\ InRotation(q)
             /\ job'[q].new = job[q].new /\ job'[q].cred = job[q].cred
             /\ HoldsTarget(q)' => HoldsTarget(q) \/ target[job[q].cred] = job[q].new
  <2>1. CASE q = p BY <1>3, <2>1
  <2>2. CASE q # p
    <3>1. Rotates(q) /\ pc'[q] = pc[q] /\ job'[q] = job[q] BY <2>2 DEF RotInv
    <3>2. InRotation(q) /\ (HoldsTarget(q)' <=> HoldsTarget(q)) BY <1>1, <1>3, <2>2
    <3> QED BY <3>1, <3>2, Zenon DEF Rotates
  <2> QED BY <2>1, <2>2
<1>4. ASSUME NEW q \in Procs, InRotation(q)' PROVE Unseen(q, job[q].new)'
  <2> DEFINE s == job[q].new
  <2>1. Unseen(q, s) /\ job'[q].new = s BY <1>3, <1>4, Zenon DEF RotInv, Rotates
  <2>2. q # p => InRotation(q) BY <1>3, <1>4
  <2> HIDE DEF s
  <2>3. ASSUME NEW c \in Creds, cred'[c] # None PROVE cred'[c].secret # s
    <3>1. CASE cred'[c] = cred[c] BY <2>1, <2>3, <3>1, Zenon DEF Unseen
    <3>2. CASE cred'[c] # cred[c]
      <4>1. cred'[c] = dirty[p][c] /\ q # p BY <1>4, <2>3, <3>2, Zenon
      <4>2. dirty[p][c] # None => dirty[p][c].secret # s BY <2>1, <4>1, Zenon DEF Unseen
      <4> QED BY <2>3, <4>1, <4>2
    <3> QED BY <3>1, <3>2
  <2>4. ASSUME NEW r \in Procs, NEW c \in Creds, read'[r][c] # None
        PROVE  read'[r][c].secret # s
    <3>1. CASE r = p BY <2>1, <2>4, <3>1, Zenon DEF Unseen
    <3>2. CASE r # p
      <4>1. read'[r] = read[r] BY <3>2
      <4>2. read[r][c] # None => read[r][c].secret # s BY <2>1, Zenon DEF Unseen
      <4> QED BY <2>4, <4>1, <4>2
    <3> QED BY <3>1, <3>2
  <2>5. ASSUME NEW r \in Procs \ {q}, NEW c \in Creds, dirty'[r][c] # None
        PROVE  dirty'[r][c].secret # s
    <3>1. CASE r = p
      <4>1. CASE dirty'[p][c] = dirty[p][c] BY <2>1, <2>5, <3>1, <4>1, Zenon DEF Unseen
      <4>2. CASE dirty'[p][c] # dirty[p][c]
        <5>1. q # p /\ InRotation(q) BY <2>2, <3>1
        <5>2. dirty'[p][c].secret # job[q].new BY <2>5, <3>1, <4>2, <5>1, Zenon
        <5> QED BY <3>1, <5>2 DEF s
      <4> QED BY <4>1, <4>2
    <3>2. CASE r # p
      <4>1. dirty'[r] = dirty[r] BY <3>2
      <4>2. dirty[r][c] # None => dirty[r][c].secret # s BY <2>1, Zenon DEF Unseen
      <4> QED BY <2>5, <4>1, <4>2
    <3> QED BY <3>1, <3>2
  <2> QED BY <2>1, <2>3, <2>4, <2>5, Zenon DEF Unseen
<1>5. ASSUME NEW q \in Procs PROVE Rotates(q)'
  <2> SUFFICES ASSUME InRotation(q)'
               PROVE  /\ pc'[q] \notin Elsewhere
                      /\ job'[q].cred \in Creds /\ cred'[job'[q].cred] # None
                      /\ Unseen(q, job[q].new)'
                      /\ \A c \in Creds \ {job'[q].cred} : target'[c] # job'[q].new
                      /\ HoldsTarget(q)' => target'[job'[q].cred] = job'[q].new
                      /\ \A r \in Procs \ {q} : InRotation(r)' => job'[r].new # job'[q].new
    BY Zenon DEF Rotates
  <2>1. /\ pc'[q] \notin Elsewhere /\ InRotation(q) /\ Rotates(q)
        /\ job'[q].new = job[q].new /\ job'[q].cred = job[q].cred
        /\ HoldsTarget(q)' => HoldsTarget(q) \/ target[job[q].cred] = job[q].new
    BY <1>3, Zenon DEF RotInv
  <2>2. job'[q].cred \in Creds /\ cred'[job'[q].cred] # None
    BY <2>1, Zenon DEF Rotates
  <2>3. \A c \in Creds \ {job'[q].cred} : target'[c] # job'[q].new
    BY <2>1, Zenon DEF Rotates
  <2>4. HoldsTarget(q)' => target'[job'[q].cred] = job'[q].new
    BY <2>1, Zenon DEF Rotates
  <2>5. ASSUME NEW r \in Procs \ {q}, InRotation(r)' PROVE job'[r].new # job'[q].new
    <3>1. InRotation(r) /\ job'[r].new = job[r].new BY <1>3, <2>5
    <3> QED BY <2>1, <3>1, Zenon DEF Rotates
  <2> QED BY <1>4, <2>1, <2>2, <2>3, <2>4, <2>5
<1> QED BY <1>2, <1>5, Zenon DEF RotInv

(* A rotation begins, with a secret that nobody has.                       *)
LEMMA RotBegins ==
    ASSUME IInv, RotInv, NEW p \in Procs, NEW c \in Creds, NEW s \in Secrets,
           BeginRotate(p, c, s)
    PROVE  RotInv'
<1> DEFINE j == NewJob("rotate", c, cred[c].ver, s)
<1>t. TypeOK /\ Drawn /\ \A q \in Procs : Rotates(q) BY DEF IInv, RotInv
<1>0. read \in [Procs -> [Creds -> Row \cup {None}]] BY <1>t, Zenon DEF TypeOK, Rows
<1>1. j.op = "rotate" /\ j.cred = c /\ j.new = s BY SMT DEF NewJob
<1>2. /\ Begin(p, "change", j) /\ cred[c] # None /\ s \notin drawn
      /\ read' = [read EXCEPT ![p][c] = cred[c]] /\ drawn' = drawn \cup {s}
      /\ UNCHANGED <<cred, target, dirty>>
  BY Zenon DEF BeginRotate
<1> HIDE DEF j
<1>3. /\ pc'[p] = "change" /\ job'[p] = j
      /\ \A q \in Procs \ {p} : pc'[q] = pc[q] /\ job'[q] = job[q]
  BY <1>t, <1>2, Zenon DEF TypeOK, Begin, Goto
<1>4. \A q \in Procs, d \in Creds : read'[q][d] = read[q][d] \/ read'[q][d] = cred[d]
  BY <1>0, <1>2, SMT
<1>5. /\ \A d \in Creds : cred[d] # None => cred[d].secret \in drawn
      /\ \A d \in Creds : target[d] \in drawn
      /\ \A q \in Procs, d \in Creds :
             /\ read[q][d] # None => read[q][d].secret \in drawn
             /\ dirty[q][d] # None => dirty[q][d].secret \in drawn
  BY <1>t, Zenon DEF Drawn
<1>6. \A q \in Procs, d \in Creds : read'[q][d] # None => read'[q][d].secret \in drawn
  <2> SUFFICES ASSUME NEW q \in Procs, NEW d \in Creds, read'[q][d] # None
               PROVE  read'[q][d].secret \in drawn
    OBVIOUS
  <2>1. CASE read'[q][d] = read[q][d] BY <1>5, <2>1, Zenon
  <2>2. CASE read'[q][d] = cred[d] BY <1>5, <2>2, Zenon
  <2> QED BY <1>4, <2>1, <2>2
<1>7. \A q \in Procs \ {p} : /\ InRotation(q)' <=> InRotation(q)
                             /\ HoldsTarget(q)' <=> HoldsTarget(q)
  BY <1>3, Zenon DEF InRotation, HoldsTarget
<1>8. ASSUME NEW q \in Procs, InRotation(q)'
      PROVE  job'[q].new \in drawn' /\ (q # p => job'[q].new \in drawn /\ job'[q].new # s)
  <2>1. CASE q = p BY <1>1, <1>2, <1>3, <2>1, Zenon
  <2>2. CASE q # p
    <3>1. InRotation(q) /\ job'[q] = job[q] BY <1>3, <1>7, <1>8, <2>2
    <3>2. job[q].new \in drawn BY <1>t, <3>1, Zenon DEF Drawn
    <3> QED BY <1>2, <3>1, <3>2, Zenon
  <2> QED BY <2>1, <2>2
<1>9. Drawn'
  <2>1. \A d \in Creds : target'[d] \in drawn' BY <1>2, <1>5, Zenon
  <2>2. \A d \in Creds : cred'[d] # None => cred'[d].secret \in drawn' BY <1>2, <1>5, Zenon
  <2>3. \A q \in Procs, d \in Creds :
            dirty'[q][d] # None => dirty'[q][d].secret \in drawn'
    BY <1>2, <1>5, Zenon
  <2>4. \A q \in Procs, d \in Creds :
            read'[q][d] # None => read'[q][d].secret \in drawn'
    <3>1. drawn \subseteq drawn' BY <1>2
    <3> QED BY <1>6, <3>1
  <2>5. \A q \in Procs : InRotation(q)' => job'[q].new \in drawn' BY <1>8
  <2> QED BY <2>1, <2>2, <2>3, <2>4, <2>5, Zenon DEF Drawn
<1>10. Rotates(p)'
  <2>1. Unseen(p, s)'
    <3>1. \A d \in Creds : cred'[d] # None => cred'[d].secret # s BY <1>2, <1>5, Zenon
    <3>2. \A q \in Procs, d \in Creds : read'[q][d] # None => read'[q][d].secret # s
      BY <1>2, <1>6, Zenon
    <3>3. \A q \in Procs \ {p}, d \in Creds : dirty'[q][d] # None => dirty'[q][d].secret # s
      BY <1>2, <1>5, Zenon
    <3> QED BY <3>1, <3>2, <3>3, Zenon DEF Unseen
  <2>2. \A d \in Creds \ {c} : target'[d] # s BY <1>2, <1>5, Zenon
  <2>3. ~HoldsTarget(p)' BY <1>3, SMT DEF HoldsTarget
  <2>4. \A q \in Procs \ {p} : InRotation(q)' => job'[q].new # s BY <1>8, Zenon
  <2>5. "change" \notin Elsewhere BY DEF Elsewhere
  <2>6. Unseen(p, job[p].new)' BY <1>1, <1>3, <2>1, Zenon DEF Unseen
  <2>7. job'[p].new = s /\ job'[p].cred = c /\ pc'[p] \notin Elsewhere
    BY <1>1, <1>3, <2>5
  <2>8. cred'[c] # None BY <1>2
  <2> QED BY <2>2, <2>3, <2>4, <2>6, <2>7, <2>8, Zenon DEF Rotates
<1>11. ASSUME NEW q \in Procs \ {p}, InRotation(q)' PROVE Rotates(q)'
  <2>1. InRotation(q) /\ Rotates(q) /\ pc'[q] = pc[q] /\ job'[q] = job[q]
    BY <1>t, <1>3, <1>7, <1>11
  <2>2. Unseen(q, job[q].new) BY <2>1, Zenon DEF Rotates
  <2>3. ASSUME NEW r \in Procs, NEW d \in Creds, read'[r][d] # None
        PROVE  read'[r][d].secret # job[q].new
    <3>1. CASE read'[r][d] = read[r][d] BY <2>2, <2>3, <3>1, Zenon DEF Unseen
    <3>2. CASE read'[r][d] = cred[d] BY <2>2, <2>3, <3>2, Zenon DEF Unseen
    <3> QED BY <1>4, <3>1, <3>2
  <2>4. Unseen(q, job[q].new)' BY <1>2, <2>1, <2>2, <2>3, Zenon DEF Unseen
  <2>5. \A r \in Procs \ {q} : InRotation(r)' => job'[r].new # job[q].new
    <3> SUFFICES ASSUME NEW r \in Procs \ {q}, InRotation(r)'
                 PROVE  job'[r].new # job[q].new
      OBVIOUS
    <3>1. CASE r = p
      <4>1. job[q].new # s BY <1>8, <1>11, <2>1
      <4> QED BY <1>1, <1>3, <3>1, <4>1
    <3>2. CASE r # p
      <4>1. InRotation(r) /\ job'[r] = job[r] BY <1>3, <1>7, <3>2
      <4> QED BY <2>1, <4>1, Zenon DEF Rotates
    <3> QED BY <3>1, <3>2
  <2>6. HoldsTarget(q)' => HoldsTarget(q) BY <1>7
  <2> QED BY <1>2, <2>1, <2>4, <2>5, <2>6, Zenon DEF Rotates
<1>12. ASSUME NEW q \in Procs PROVE Rotates(q)'
  <2>1. CASE q = p BY <1>10, <2>1
  <2>2. CASE q # p
    <3>1. CASE InRotation(q)' BY <1>11, <2>2, <3>1
    <3>2. CASE ~InRotation(q)' BY <3>2, Zenon DEF Rotates
    <3> QED BY <3>1, <3>2
  <2> QED BY <2>1, <2>2
<1> QED BY <1>9, <1>12, Zenon DEF RotInv

(* A rotation changes its target: no other of the credential has.          *)
LEMMA RotChanges ==
    ASSUME IInv, RotInv, NEW p \in Procs, pc[p] = "change",
           target[job[p].cred] = read[p][job[p].cred].secret,
           target' = [target EXCEPT ![job[p].cred] = job[p].new],
           Goto(p, "verify"), UNCHANGED <<cred, drawn, job, read, dirty>>
    PROVE  RotInv'
<1> DEFINE c == job[p].cred
           s == job[p].new
<1>t. TypeOK /\ Drawn /\ \A q \in Procs : Rotates(q) BY DEF IInv, RotInv
<1>1. c \in Creds /\ InRotation(p) /\ read[p][c] # None /\ s \in Secrets
  BY SMT DEF IInv, ProcInv, InRotation
<1>2. target'[c] = s /\ \A d \in Creds \ {c} : target'[d] = target[d]
  BY <1>t, <1>1, Zenon DEF TypeOK
<1>3. pc'[p] = "verify" /\ \A q \in Procs \ {p} : pc'[q] = pc[q]
  BY <1>t, Zenon DEF TypeOK, Goto
<1>4. \A q \in Procs : InRotation(q)' <=> InRotation(q) BY Zenon DEF InRotation
<1>5. Drawn'
  <2>1. s \in drawn BY <1>t, <1>1, Zenon DEF Drawn
  <2>2. \A d \in Creds : target'[d] \in drawn BY <1>t, <1>2, <2>1, Zenon DEF Drawn
  <2> QED BY <1>t, <1>4, <2>2, Zenon DEF Drawn
<1>6. \A q \in Procs : Unseen(q, job[q].new)' <=> Unseen(q, job[q].new)
  BY Zenon DEF Unseen
<1> HIDE DEF c, s
<1>7. Rotates(p)'
  <2>1. /\ Unseen(p, s) /\ \A d \in Creds \ {c} : target[d] # s
        /\ \A q \in Procs \ {p} : InRotation(q) => job[q].new # s
        /\ cred[c] # None
    BY <1>t, <1>1, Zenon DEF Rotates, c, s
  <2>2. "verify" \notin Elsewhere BY DEF Elsewhere
  <2>3. /\ pc'[p] \notin Elsewhere /\ job'[p].cred = c /\ job'[p].new = s
        /\ cred'[c] # None /\ Unseen(p, job[p].new)'
    BY <1>3, <1>6, <2>1, <2>2 DEF c, s
  <2>4. \A d \in Creds \ {c} : target'[d] # s BY <1>2, <2>1, Zenon
  <2>5. \A q \in Procs \ {p} : InRotation(q)' => job'[q].new # s BY <1>4, <2>1, Zenon
  <2>6. ~HoldsTarget(p)' BY <1>3, SMT DEF HoldsTarget
  <2> QED BY <1>1, <2>3, <2>4, <2>5, <2>6, Zenon DEF Rotates
<1>8. ASSUME NEW q \in Procs \ {p}, InRotation(q) PROVE Rotates(q)'
  <2> DEFINE n == job[q].new
             b == job[q].cred
  <2>1. /\ Unseen(q, n) /\ \A d \in Creds \ {b} : target[d] # n
        /\ \A r \in Procs \ {q} : InRotation(r) => job[r].new # n
        /\ b \in Creds /\ cred[b] # None /\ pc[q] \notin Elsewhere
        /\ HoldsTarget(q) => target[b] = n
    BY <1>t, <1>8, Zenon DEF Rotates
  <2>2. s # n BY <1>1, <2>1, Zenon DEF s
  <2>3. HoldsTarget(q)' <=> HoldsTarget(q) BY <1>3, Zenon DEF HoldsTarget
  <2>4. job'[q].new = n /\ job'[q].cred = b /\ pc'[q] = pc[q] /\ Unseen(q, job[q].new)'
    BY <1>3, <1>6, <2>1
  <2> HIDE DEF n, b
  <2>5. HoldsTarget(q) => b # c
    <3>1. read[p][c].secret # n BY <1>1, <2>1, Zenon DEF Unseen
    <3> QED BY <2>1, <3>1, Zenon DEF c
  <2>6. \A d \in Creds \ {b} : target'[d] # n BY <1>2, <2>1, <2>2, Zenon
  <2>7. HoldsTarget(q)' => target'[b] = n BY <1>2, <2>1, <2>3, <2>5, Zenon
  <2>8. \A r \in Procs \ {q} : InRotation(r)' => job'[r].new # n BY <1>4, <2>1, Zenon
  <2> QED BY <2>1, <2>4, <2>6, <2>7, <2>8, Zenon DEF Rotates
<1>9. ASSUME NEW q \in Procs PROVE Rotates(q)'
  <2>1. CASE q = p BY <1>7, <2>1
  <2>2. CASE q # p
    <3>1. CASE InRotation(q) BY <1>8, <2>2, <3>1
    <3>2. CASE ~InRotation(q) BY <1>4, <3>2, Zenon DEF Rotates
    <3> QED BY <3>1, <3>2
  <2> QED BY <2>1, <2>2
<1> QED BY <1>5, <1>9, Zenon DEF RotInv

(* Every step keeps it.                                                    *)
LEMMA RotStep ==
    ASSUME IInv, StoreInv, RotInv, [Next]_vars
    PROVE  RotInv'
<1>t. TypeOK /\ Drawn /\ \A p \in Procs : Rotates(p) /\ ProcInv(p) /\ Stores(p)
  BY DEF IInv, RotInv, StoreInv
<1>j. job \in [Procs -> Job] /\ dirty \in [Procs -> [Creds -> Row \cup {None}]]
  BY <1>t, Zenon DEF TypeOK, Rows
<1>p. /\ {"idle", "max", "insert", "mark", "select", "reseal", "write"} = Elsewhere
      /\ "commit" \notin Elsewhere /\ "update" \notin Elsewhere /\ "verify" \notin Elsewhere
  BY DEF Elsewhere
<1>o. ASSUME NEW p \in Procs, pc[p] \in Elsewhere \cup {"active", "seal"}
      PROVE  ~InRotation(p)
  BY <1>o, <1>t, SMT DEF Rotates, ProcInv, InRotation
<1>a. ASSUME NEW p \in Procs, End(p), target' = target, drawn' = drawn,
             \A c \in Creds : cred[c] # None => cred'[c] # None,
             \A c \in Creds : cred'[c] # None =>
                 cred'[c] = cred[c] \/ cred'[c] = dirty[p][c]
      PROVE  RotInv'
  <2>1. job'[p] = NoJob /\ read'[p] = NoRows /\ dirty'[p] = NoRows
    BY <1>a, <1>t, Zenon DEF TypeOK, End
  <2>2. \A q \in Procs \ {p} :
            /\ pc'[q] = pc[q] /\ job'[q] = job[q]
            /\ read'[q] = read[q] /\ dirty'[q] = dirty[q]
    BY <1>a, <1>t, Zenon DEF TypeOK, End, Goto
  <2>3. NoJob.op # "rotate" BY SMT DEF NoJob, NewJob
  <2>4. ~InRotation(p)' BY <2>1, <2>3, Zenon DEF InRotation
  <2>5. \A c \in Creds : read'[p][c] = None /\ dirty'[p][c] = None
    BY <2>1, Zenon DEF NoRows
  <2>6. \A c \in Creds : cred'[c] # None =>
            \/ cred'[c] = cred[c]
            \/ cred'[c] = dirty[p][c] /\ ~InRotation(p)'
    BY <1>a, <2>4
  <2> QED BY <1>a, <2>2, <2>4, <2>5, <2>6, RotFrame
<1>e. ASSUME NEW p \in Procs, Abort(p) PROVE RotInv'
  <2>1. End(p) /\ UNCHANGED <<cred, target, drawn>> BY <1>e DEF Abort
  <2> QED BY <1>a, <2>1, Zenon
<1>n. ASSUME NEW p \in Procs, NEW phase, NEW j \in Job,
             pc' = [pc EXCEPT ![p] = phase], job' = [job EXCEPT ![p] = j], j.op # "rotate",
             UNCHANGED <<cred, target, drawn, read, dirty>>
      PROVE  RotInv'
  <2>1. /\ job'[p] = j
        /\ \A q \in Procs \ {p} :
               /\ pc'[q] = pc[q] /\ job'[q] = job[q]
               /\ read'[q] = read[q] /\ dirty'[q] = dirty[q]
    BY <1>n, <1>t, Zenon DEF TypeOK
  <2>2. ~InRotation(p)' BY <1>n, <2>1, Zenon DEF InRotation
  <2> QED BY <1>n, <2>1, <2>2, RotFrame, Zenon
<1>s. ASSUME NEW p \in Procs, NEW phase, Goto(p, phase), job' = job,
             InRotation(p) =>
                 /\ phase \in {"verify", "update"}
                 /\ phase = "update" /\ job[p].cred \in Live =>
                        target[job[p].cred] = job[p].new,
             UNCHANGED <<cred, target, drawn, read, dirty>>
      PROVE  RotInv'
  <2>1. /\ pc'[p] = phase
        /\ \A q \in Procs \ {p} :
               /\ pc'[q] = pc[q] /\ job'[q] = job[q]
               /\ read'[q] = read[q] /\ dirty'[q] = dirty[q]
    BY <1>s, <1>t, Zenon DEF TypeOK, Goto
  <2>2. InRotation(p)' => InRotation(p) BY <1>s, Zenon DEF InRotation
  <2>3. ASSUME InRotation(p)'
        PROVE  /\ InRotation(p) /\ pc'[p] \notin Elsewhere
               /\ HoldsTarget(p)' => HoldsTarget(p) \/ target[job[p].cred] = job[p].new
    <3>1. pc'[p] \in {"verify", "update"} /\ InRotation(p)
      BY <1>s, <2>1, <2>2, <2>3
    <3>2. HoldsTarget(p)' => phase = "update" /\ job[p].cred \in Live
      BY <1>s, <2>1, <3>1, SMT DEF HoldsTarget
    <3>3. HoldsTarget(p)' => target[job[p].cred] = job[p].new BY <1>s, <3>1, <3>2
    <3> QED BY <1>p, <3>1, <3>3
  <2> QED BY <1>s, <2>1, <2>3, RotFrame, Zenon
<1>w. ASSUME NEW p \in Procs, NEW c \in Creds, NEW row \in Row, NEW phase,
             WriteRow(p, c, row), Goto(p, phase),
             InRotation(p) => phase = "commit" /\ pc[p] = "update",
             row.secret \in drawn,
             \A q \in Procs \ {p} : InRotation(q) => row.secret # job[q].new
      PROVE  RotInv'
  <2>1. /\ dirty' = [dirty EXCEPT ![p][c] = row]
        /\ UNCHANGED <<cred, target, drawn, job, read>>
    BY <1>w DEF WriteRow
  <2>2. /\ \A q \in Procs \ {p} : dirty'[q] = dirty[q]
        /\ \A d \in Creds : dirty'[p][d] = dirty[p][d] \/ dirty'[p][d] = row
    BY <1>j, <2>1, SMT
  <2>3. pc'[p] = phase /\ \A q \in Procs \ {p} : pc'[q] = pc[q]
    BY <1>w, <1>t, Zenon DEF TypeOK, Goto
  <2>4. \A q \in Procs \ {p} : /\ pc'[q] = pc[q] /\ job'[q] = job[q]
                               /\ read'[q] = read[q] /\ dirty'[q] = dirty[q]
    BY <2>1, <2>2, <2>3
  <2>5. InRotation(p)' => InRotation(p) BY <2>1, Zenon DEF InRotation
  <2>6. ASSUME InRotation(p)'
        PROVE  /\ InRotation(p) /\ pc'[p] \notin Elsewhere
               /\ job'[p].new = job[p].new /\ job'[p].cred = job[p].cred
               /\ HoldsTarget(p)' => HoldsTarget(p)
    <3>1. pc'[p] = "commit" /\ pc[p] = "update" /\ InRotation(p)
      BY <1>w, <2>3, <2>5, <2>6
    <3>2. HoldsTarget(p)' => job[p].cred \in Live BY <2>1, Zenon DEF HoldsTarget
    <3>3. HoldsTarget(p)' => HoldsTarget(p) BY <3>1, <3>2, SMT DEF HoldsTarget, InRotation
    <3> QED BY <1>p, <2>1, <3>1, <3>3
  <2>7. \A d \in Creds : dirty'[p][d] # None =>
            \/ dirty'[p][d] = dirty[p][d]
            \/ /\ dirty'[p][d].secret \in drawn
               /\ \A q \in Procs \ {p} :
                      InRotation(q) => dirty'[p][d].secret # job[q].new
    BY <1>w, <2>2, Zenon
  <2> QED BY <2>1, <2>4, <2>6, <2>7, RotFrame, Zenon
<1>1. ASSUME NEW p \in Procs, NEW c \in Creds, BeginCreate(p, c) PROVE RotInv'
  <2> DEFINE j == NewJob("create", c, 1, None)
  <2>1. j \in Job /\ j.op # "rotate" BY JobTypes, SMT DEF NewJob
  <2>2. Begin(p, "active", j) /\ UNCHANGED <<cred, target, drawn, read, dirty>>
    BY <1>1, Zenon DEF BeginCreate
  <2> HIDE DEF j
  <2> QED BY <1>n, <2>1, <2>2, Zenon DEF Begin, Goto
<1>2. ASSUME NEW p \in Procs, BeginRekey(p) PROVE RotInv'
  <2> DEFINE j == NewJob("rekey", None, 1, None)
  <2>1. j \in Job /\ j.op # "rotate" BY JobTypes, SMT DEF NewJob
  <2>2. Begin(p, "max", j) /\ UNCHANGED <<cred, target, drawn, read, dirty>>
    BY <1>2, Zenon DEF BeginRekey
  <2> HIDE DEF j
  <2> QED BY <1>n, <2>1, <2>2, Zenon DEF Begin, Goto
<1>f. ASSUME NEW p \in Procs, ~InRotation(p)
      PROVE  /\ \A v \in Versions : /\ [job[p] EXCEPT !.ver = v] \in Job
                                    /\ [job[p] EXCEPT !.ver = v].op # "rotate"
             /\ \A c \in Creds : /\ [job[p] EXCEPT !.cred = c] \in Job
                                 /\ [job[p] EXCEPT !.cred = c].op # "rotate"
  <2>1. job[p] \in Job /\ job[p].op # "rotate" BY <1>j, <1>f DEF InRotation
  <2>2. \A v \in Versions : [job[p] EXCEPT !.ver = v].op # "rotate" BY <2>1, SMT DEF Job
  <2>3. \A c \in Creds : [job[p] EXCEPT !.cred = c].op # "rotate" BY <2>1, SMT DEF Job
  <2> QED BY <2>1, <2>2, <2>3, JobTypes, Zenon
<1>3. ASSUME NEW p \in Procs, ReadActive(p) PROVE RotInv'
  <2>1. PICK v \in Versions : job' = [job EXCEPT ![p].ver = v]
    BY <1>3, Zenon DEF ReadActive
  <2>2. job' = [job EXCEPT ![p] = [job[p] EXCEPT !.ver = v]] BY <2>1, Zenon
  <2>3. pc[p] = "active" /\ Goto(p, "seal") /\ UNCHANGED <<cred, target, drawn, read, dirty>>
    BY <1>3, Zenon DEF ReadActive
  <2>4. ~InRotation(p) BY <1>o, <2>3
  <2> QED BY <1>f, <1>n, <2>2, <2>3, <2>4, Zenon DEF Goto
<1>4. ASSUME NEW p \in Procs, ReadMax(p) PROVE RotInv'
  <2>1. CASE Abort(p) BY <1>e, <2>1
  <2>2. CASE ~Abort(p)
    <3>1. /\ job' = [job EXCEPT ![p].ver = Newest + 1] /\ Newest < MaxVersion
          /\ pc[p] = "max" /\ Goto(p, "insert")
          /\ UNCHANGED <<cred, target, drawn, read, dirty>>
      BY <1>4, <2>2, Zenon DEF ReadMax
    <3>2. PICK v \in Versions : Top(v) BY Zenon DEF IInv, KeysInv
    <3>3. Newest = v BY <1>t, <3>2, NewestIsTop, Zenon DEF TypeOK
    <3>4. v + 1 \in Versions BY <3>1, <3>3, VaultAssumption, SMT DEF Versions
    <3>5. job' = [job EXCEPT ![p] = [job[p] EXCEPT !.ver = v + 1]] BY <3>1, <3>3, Zenon
    <3>6. ~InRotation(p) BY <1>o, <1>p, <3>1
    <3>7. [job[p] EXCEPT !.ver = v + 1] \in Job /\ [job[p] EXCEPT !.ver = v + 1].op # "rotate"
      BY <1>f, <3>4, <3>6
    <3> QED BY <1>n, <3>1, <3>5, <3>7, Zenon DEF Goto
  <2> QED BY <2>1, <2>2
<1>5. ASSUME NEW p \in Procs, Unseal(p) PROVE RotInv'
  <2>1. CASE Abort(p) BY <1>e, <2>1
  <2>2. CASE ~Abort(p)
    <3>1. PICK c \in ToDo(p) :
            /\ job' = [job EXCEPT ![p].cred = c]
            /\ Goto(p, "write") /\ UNCHANGED <<cred, target, drawn, read, dirty>>
      BY <1>5, <2>2, Zenon DEF Unseal
    <3>2. c \in Creds BY <3>1, Zenon DEF ToDo
    <3>3. job' = [job EXCEPT ![p] = [job[p] EXCEPT !.cred = c]] BY <3>1, Zenon
    <3>4. pc[p] = "reseal" BY <1>5 DEF Unseal
    <3>5. ~InRotation(p) BY <1>o, <1>p, <3>4
    <3>6. [job[p] EXCEPT !.cred = c] \in Job /\ [job[p] EXCEPT !.cred = c].op # "rotate"
      BY <1>f, <3>2, <3>5
    <3> QED BY <1>n, <3>1, <3>3, <3>6, Zenon DEF Goto
  <2> QED BY <2>1, <2>2
<1>6. ASSUME NEW p \in Procs, InsertKey(p) \/ MarkRotating(p) \/ AllResealed(p)
      PROVE  RotInv'
  <2>1. CASE Abort(p) BY <1>e, <2>1
  <2>2. CASE ~Abort(p)
    <3>1. pc[p] \in {"insert", "mark", "reseal"}
      BY <1>6, SMT DEF InsertKey, MarkRotating, AllResealed
    <3>2. ~InRotation(p) BY <1>o, <1>p, <3>1
    <3>3. UNCHANGED <<cred, target, drawn, job, read, dirty>>
      BY <1>6, <2>2, Zenon DEF InsertKey, MarkRotating, AllResealed
    <3>4. \E phase \in {"mark", "select", "commit"} : Goto(p, phase)
      BY <1>6, <2>2, Zenon DEF InsertKey, MarkRotating, AllResealed
    <3> QED BY <1>s, <3>2, <3>3, <3>4, Zenon
  <2> QED BY <2>1, <2>2
<1>7. ASSUME NEW p \in Procs, SelectCreds(p) PROVE RotInv'
  <2> DEFINE rows == [c \in Creds |-> IF c \in deleted THEN None ELSE cred[c]]
  <2>1. /\ read' = [read EXCEPT ![p] = rows] /\ pc[p] = "select" /\ Goto(p, "reseal")
        /\ UNCHANGED <<cred, target, drawn, job, dirty>>
    BY <1>7, Zenon DEF SelectCreds
  <2>2. \A c \in Creds : rows[c] = None \/ rows[c] = cred[c] BY SMT
  <2> HIDE DEF rows
  <2>3. read'[p] = rows
    BY <1>t, <2>1, Zenon DEF TypeOK
  <2>4. \A q \in Procs \ {p} : /\ pc'[q] = pc[q] /\ job'[q] = job[q]
                               /\ read'[q] = read[q] /\ dirty'[q] = dirty[q]
    BY <1>t, <2>1, Zenon DEF TypeOK, Goto
  <2>5. ~InRotation(p) BY <1>o, <1>p, <2>1
  <2>6. ~InRotation(p)' BY <2>1, <2>5, Zenon DEF InRotation
  <2>7. \A c \in Creds : read'[p][c] # None =>
            read'[p][c] = read[p][c] \/ read'[p][c] = cred[c]
    BY <2>2, <2>3, Zenon
  <2> QED BY <2>1, <2>4, <2>6, <2>7, RotFrame, Zenon
<1>8. ASSUME NEW p \in Procs, SealNew(p) PROVE RotInv'
  <2> DEFINE c == job[p].cred
             v == job[p].ver
  <2>1. CASE Abort(p) BY <1>e, <2>1
  <2>2. CASE ~Abort(p)
    <3>1. pc[p] = "seal" /\ WriteRow(p, c, NewRow(c, v)) /\ Goto(p, "commit")
      BY <1>8, <2>2, SMT DEF SealNew
    <3>2. c \in Creds /\ Creates(p, c) BY <3>1, SMT DEF IInv, ProcInv, Creates
    <3>3. v \in Versions /\ target[c] \in Secrets
      BY <1>t, <1>j, <3>2, SMT DEF TypeOK, Job
    <3>4. ~InRotation(p) BY <1>o, <3>1
    <3> HIDE DEF c, v
    <3>5. NewRow(c, v) \in Row BY <3>3, RowTypes, Zenon DEF NewRow
    <3>6. NewRow(c, v).secret = target[c] BY SMT DEF NewRow
    <3>7. target[c] \in drawn BY <1>t, <3>2, Zenon DEF Drawn
    <3>8. cred[c] = None BY <1>t, <3>2, Zenon DEF Stores
    <3>9. \A q \in Procs \ {p} : InRotation(q) => target[c] # job[q].new
      <4> SUFFICES ASSUME NEW q \in Procs \ {p}, InRotation(q)
                   PROVE  target[c] # job[q].new
        OBVIOUS
      <4>1. c # job[q].cred BY <1>t, <3>8, Zenon DEF Rotates
      <4> QED BY <1>t, <3>2, <4>1, Zenon DEF Rotates
    <3> QED BY <1>w, <3>1, <3>2, <3>4, <3>5, <3>6, <3>7, <3>9, Zenon
  <2> QED BY <2>1, <2>2
<1>9. ASSUME NEW p \in Procs, WriteResealed(p) PROVE RotInv'
  <2> DEFINE c == job[p].cred
  <2>1. pc[p] = "write" /\ WriteRow(p, c, Resealed(p, c)) /\ Goto(p, "reseal")
    BY <1>9, Zenon DEF WriteResealed
  <2>2. c \in Creds /\ read[p][c] # None /\ cred[c] # None
    BY <2>1, SMT DEF IInv, ProcInv
  <2>3. job[p].ver \in Versions BY <1>j, SMT DEF Job
  <2>4. ~InRotation(p) BY <1>o, <1>p, <2>1
  <2> HIDE DEF c
  <2>5. cred[c] \in Row /\ read[p][c] \in Row
    <3>1. cred \in Rows /\ read[p] \in Rows BY <1>t, Zenon DEF TypeOK
    <3> QED BY <2>2, <3>1, Zenon DEF Rows
  <2>6. read[p][c].secret \in Secrets BY <2>5, SMT DEF Row
  <2>7. Resealed(p, c) \in Row BY <2>3, <2>5, <2>6, RowTypes, Zenon DEF Resealed
  <2>8. Resealed(p, c).secret = read[p][c].secret BY <2>5, SMT DEF Resealed, Row
  <2>9. read[p][c].secret \in drawn BY <1>t, <2>2, Zenon DEF Drawn
  <2>10. \A q \in Procs \ {p} : InRotation(q) => read[p][c].secret # job[q].new
    BY <1>t, <2>2, Zenon DEF Rotates, Unseen
  <2> QED BY <1>w, <2>1, <2>2, <2>4, <2>7, <2>8, <2>9, <2>10, Zenon
<1>10. ASSUME NEW p \in Procs, UpdateSecret(p) PROVE RotInv'
  <2> DEFINE c == job[p].cred
             row == [cred[c] EXCEPT !.key = job[p].ver, !.secret = job[p].new]
  <2>1. pc[p] = "update" /\ WriteRow(p, c, row) /\ Goto(p, "commit")
    BY <1>10, Zenon DEF UpdateSecret
  <2>2. c \in Creds /\ cred[c] # None /\ job[p].new \in Secrets /\ InRotation(p)
    BY <2>1, SMT DEF IInv, ProcInv, InRotation
  <2>3. job[p].ver \in Versions BY <1>j, SMT DEF Job
  <2>4. cred[c] \in Row
    <3>1. cred \in Rows BY <1>t DEF TypeOK
    <3> QED BY <2>2, <3>1, Zenon DEF Rows
  <2>5. row \in Row BY <2>2, <2>3, <2>4, RowTypes, Zenon
  <2>6. row.secret = job[p].new BY <2>4, SMT DEF Row
  <2> HIDE DEF c, row
  <2>7. job[p].new \in drawn BY <1>t, <2>2, Zenon DEF Drawn
  <2>8. \A q \in Procs \ {p} : InRotation(q) => job[p].new # job[q].new
    BY <1>t, <2>2, Zenon DEF Rotates
  <2> QED BY <1>w, <2>1, <2>2, <2>5, <2>6, <2>7, <2>8, Zenon
<1>11. ASSUME NEW p \in Procs, ChangeTarget(p) PROVE RotInv'
  <2>1. CASE Abort(p) BY <1>e, <2>1
  <2>2. CASE /\ job[p].cred \notin Live /\ Goto(p, "update")
             /\ UNCHANGED <<cred, target, drawn, job, read, dirty>>
    BY <1>s, <2>2, Zenon
  <2>3. CASE /\ target[job[p].cred] = read[p][job[p].cred].secret
             /\ target' = [target EXCEPT ![job[p].cred] = job[p].new]
             /\ Goto(p, "verify") /\ UNCHANGED <<cred, drawn, job, read, dirty>>
    <3>1. pc[p] = "change" BY <1>11 DEF ChangeTarget
    <3> QED BY <2>3, <3>1, RotChanges, Zenon
  <2>4. CASE Goto(p, "verify") /\ UNCHANGED <<cred, target, drawn, job, read, dirty>>
    BY <1>s, <2>4, SMT
  <2> QED BY <1>11, <2>1, <2>2, <2>3, <2>4, Zenon DEF ChangeTarget
<1>12. ASSUME NEW p \in Procs, Verify(p) PROVE RotInv'
  <2>1. CASE Abort(p) BY <1>e, <2>1
  <2>2. CASE ~Abort(p)
    <3>1. /\ target[job[p].cred] = job[p].new /\ Goto(p, "update")
          /\ UNCHANGED <<cred, target, drawn, job, read, dirty>>
      BY <1>12, <2>2, Zenon DEF Verify
    <3> QED BY <1>s, <3>1, SMT
  <2> QED BY <2>1, <2>2
<1>13. ASSUME NEW p \in Procs, Commit(p) PROVE RotInv'
  <2>1. /\ cred' = [c \in Creds |-> IF dirty[p][c] # None THEN dirty[p][c] ELSE cred[c]]
        /\ End(p) /\ target' = target /\ drawn' = drawn
    BY <1>13, Zenon DEF Commit
  <2>2. \A c \in Creds : cred[c] # None => cred'[c] # None BY <2>1, Zenon
  <2>3. \A c \in Creds : cred'[c] # None =>
            cred'[c] = cred[c] \/ cred'[c] = dirty[p][c]
    BY <2>1, Zenon
  <2> QED BY <1>a, <2>1, <2>2, <2>3, Zenon
<1>14. ASSUME UNCHANGED <<cred, target, drawn, pc, job, read, dirty>> PROVE RotInv'
  <2>1. Drawn' BY <1>t, <1>14, Zenon DEF Drawn, InRotation
  <2>2. \A q \in Procs : (Unseen(q, job[q].new)' <=> Unseen(q, job[q].new))
    BY <1>14, Zenon DEF Unseen
  <2>3. \A q \in Procs : Rotates(q)'
    BY <1>t, <1>14, <2>2, Zenon DEF Rotates, InRotation, HoldsTarget
  <2> QED BY <2>1, <2>3, Zenon DEF RotInv
<1>15. ASSUME NEW p \in Procs, Arrive(p) PROVE RotInv'
  BY <1>1, <1>2, <1>15, RotBegins, Zenon DEF Arrive
<1>16. ASSUME NEW p \in Procs, Work(p) \/ Write(p) \/ Fail(p) PROVE RotInv'
  BY <1>e, <1>3, <1>4, <1>5, <1>6, <1>7, <1>8, <1>9, <1>10, <1>11, <1>12, <1>13, <1>16, Zenon
  DEF Work, Write, Fail, DeadlockAbort
<1>17. ASSUME NEW c \in Creds, DeleteCredential(c) PROVE RotInv'
  BY <1>14, <1>17, Zenon DEF DeleteCredential
<1>18. ASSUME UNCHANGED vars PROVE RotInv'
  BY <1>14, <1>18, Zenon DEF vars
<1> QED BY <1>15, <1>16, <1>17, <1>18, Zenon DEF Next

(* At the start nothing is stored and nobody rotates.                      *)
LEMMA RotStart == Init => RotInv
<1> SUFFICES ASSUME Init PROVE RotInv OBVIOUS
<1>1. NoJob.op # "rotate" BY SMT DEF NoJob, NewJob
<1>2. \A p \in Procs : job[p] = NoJob /\ read[p] = NoRows /\ dirty[p] = NoRows
  BY Zenon DEF Init
<1>3. \A p \in Procs : ~InRotation(p) BY <1>1, <1>2, Zenon DEF InRotation
<1>4. \A c \in Creds : cred[c] = None /\ target[c] \in drawn BY Zenon DEF Init, NoRows
<1>5. \A p \in Procs, c \in Creds : read[p][c] = None /\ dirty[p][c] = None
  BY <1>2, Zenon DEF NoRows
<1> QED BY <1>3, <1>4, <1>5, Zenon DEF RotInv, Drawn, Rotates

(* However rotations (vault.ts:282-310) of one credential overlap, fail    *)
(* and are overtaken by rotations of all keys, and whatever an adapter     *)
(* makes of changePassword(), what a rotation has verified at its target   *)
(* is there until the rotation has stored it and ends.                     *)
THEOREM RotationHolds == Spec => []RotationHoldsTarget
<1>1. IInv /\ StoreInv /\ RotInv /\ [Next]_vars => IInv' /\ StoreInv' /\ RotInv'
  BY Step, StoreStep, RotStep
<1>2. IInv /\ RotInv => RotationHoldsTarget
  <2> SUFFICES ASSUME IInv, RotInv, NEW p \in Procs, HoldsTarget(p)
               PROVE  target[job[p].cred] = job[p].new
    BY DEF RotationHoldsTarget
  <2>1. InRotation(p) BY SMT DEF HoldsTarget, InRotation, IInv, ProcInv
  <2> QED BY <2>1, Zenon DEF RotInv, Rotates
<1> QED BY Initial, StoreStart, RotStart, <1>1, <1>2, PTL DEF Spec

-----------------------------------------------------------------------------
(* Without rotateTenantKeys every row opens *)

KeyPhases == Elsewhere \ {"idle"}

Sound(row) == Exists(row.ver) /\ Opens(row)

(* Nobody changes the key_version of a row, so the one that a rotation has *)
(* read is the row's own when it stores what it has sealed under it.       *)
SoundInv ==
    /\ \A p \in Procs : pc[p] \notin KeyPhases
    /\ \A c \in Creds : cred[c] # None => Sound(cred[c])
    /\ \A p \in Procs, c \in Creds : dirty[p][c] # None =>
           Sound(dirty[p][c]) /\ (cred[c] # None => dirty[p][c].ver = cred[c].ver)
    /\ \A p \in Procs : InRotation(p) => cred[job[p].cred].ver = job[p].ver

(* Keys are added and never removed. *)
LEMMA StaysSound ==
    ASSUME NEW row \in Row, Sound(row), \A u \in Versions : Exists(u) => Exists(u)'
    PROVE  Exists(row.ver)' /\ Opens(row)
<1>1. row.ver \in Versions BY SMT DEF Row
<1> QED BY <1>1, Zenon DEF Sound

(* A step of one request that commits nothing. *)
LEMMA SoundFrame ==
    ASSUME TypeOK, SoundInv, NEW p \in Procs, cred' = cred,
           \A u \in Versions : Exists(u) => Exists(u)',
           \A q \in Procs \ {p} : pc'[q] = pc[q] /\ job'[q] = job[q] /\ dirty'[q] = dirty[q],
           pc'[p] \notin KeyPhases,
           InRotation(p)' => cred[job'[p].cred].ver = job'[p].ver,
           \A c \in Creds : dirty'[p][c] # None =>
               \/ dirty'[p][c] = dirty[p][c]
               \/ /\ dirty'[p][c] \in Row /\ Sound(dirty'[p][c])
                  /\ cred[c] # None => dirty'[p][c].ver = cred[c].ver
    PROVE  SoundInv'
<1>t. cred \in [Creds -> Row \cup {None}] /\ dirty \in [Procs -> [Creds -> Row \cup {None}]]
  BY Zenon DEF TypeOK, Rows
<1>1. ASSUME NEW q \in Procs PROVE pc'[q] \notin KeyPhases
  <2>1. CASE q = p BY <2>1
  <2>2. CASE q # p
    <3>1. pc'[q] = pc[q] BY <2>2
    <3> QED BY <3>1, Zenon DEF SoundInv
  <2> QED BY <2>1, <2>2
<1>2. ASSUME NEW c \in Creds, cred'[c] # None PROVE Sound(cred[c])'
  <2>0. cred[c] # None BY <1>2
  <2>1. cred[c] \in Row /\ Sound(cred[c]) BY <1>t, <2>0, SMT DEF SoundInv
  <2>2. PICK row \in Row : row = cred[c] /\ Sound(row) BY <2>1
  <2>3. Exists(row.ver)' /\ Opens(row) BY <2>2, StaysSound
  <2> QED BY <2>2, <2>3, Zenon DEF Sound, Opens, Exists
<1>3. ASSUME NEW q \in Procs, NEW c \in Creds, dirty'[q][c] # None
      PROVE  Sound(dirty[q][c])' /\ (cred'[c] # None => dirty'[q][c].ver = cred'[c].ver)
  <2>1. dirty[q] \in [Creds -> Row \cup {None}] BY <1>t
  <2>2. dirty[q][c] # None =>
            /\ dirty[q][c] \in Row /\ Sound(dirty[q][c])
            /\ cred[c] # None => dirty[q][c].ver = cred[c].ver
    BY <2>1, Zenon DEF SoundInv
  <2>3. /\ dirty'[q][c] \in Row /\ Sound(dirty'[q][c])
        /\ cred[c] # None => dirty'[q][c].ver = cred[c].ver
    <3>1. CASE dirty'[q][c] = dirty[q][c] BY <1>3, <2>2, <3>1
    <3>2. CASE dirty'[q][c] # dirty[q][c]
      <4>1. q = p BY <3>2
      <4> QED BY <1>3, <3>2, <4>1
    <3> QED BY <3>1, <3>2
  <2>4. PICK row \in Row : row = dirty'[q][c] /\ Sound(row) BY <2>3
  <2>5. Exists(row.ver)' /\ Opens(row) BY <2>4, StaysSound
  <2>6. Sound(dirty[q][c])' BY <2>4, <2>5, Zenon DEF Sound, Opens, Exists
  <2> QED BY <2>3, <2>6
<1>4. ASSUME NEW q \in Procs, InRotation(q)' PROVE cred'[job'[q].cred].ver = job'[q].ver
  <2>1. CASE q = p BY <1>4, <2>1
  <2>2. CASE q # p
    <3>1. job'[q] = job[q] BY <2>2
    <3>2. InRotation(q) BY <1>4, <3>1, Zenon DEF InRotation
    <3> QED BY <3>1, <3>2, Zenon DEF SoundInv
  <2> QED BY <2>1, <2>2
<1> QED BY <1>1, <1>2, <1>3, <1>4, Zenon DEF SoundInv

(* A request that ends, having committed or not. *)
LEMMA EndLeaves ==
    ASSUME TypeOK, NEW p \in Procs, End(p)
    PROVE  /\ pc'[p] = "idle" /\ ~InRotation(p)'
           /\ \A c \in Creds : dirty'[p][c] = None
           /\ \A q \in Procs \ {p} :
                  pc'[q] = pc[q] /\ job'[q] = job[q] /\ dirty'[q] = dirty[q]
<1>1. pc'[p] = "idle" /\ job'[p] = NoJob BY Zenon DEF TypeOK, End, Goto
<1>2. NoJob.op # "rotate" BY SMT DEF NoJob, NewJob
<1>3. ~InRotation(p)' BY <1>1, <1>2, Zenon DEF InRotation
<1> QED BY <1>1, <1>3, StoreEnds, Zenon

LEMMA JobEnds ==
    ASSUME TypeOK, NEW p \in Procs, End(p)
    PROVE  job'[p].op = "none"
<1>1. job'[p] = NoJob BY Zenon DEF TypeOK, End
<1> QED BY <1>1, SMT DEF NoJob, NewJob

(* A commit puts rows that open beside, or in the place of, such rows.     *)
LEMMA SoundCommit ==
    ASSUME IInv, StoreInv, RotInv, SoundInv, NEW p \in Procs, Commit(p),
           \A u \in Versions : Exists(u) => Exists(u)'
    PROVE  SoundInv'
<1>t. TypeOK BY DEF IInv
<1>r. cred \in [Creds -> Row \cup {None}] /\ dirty \in [Procs -> [Creds -> Row \cup {None}]]
  BY <1>t, Zenon DEF TypeOK, Rows
<1>0. /\ cred' = [c \in Creds |-> IF dirty[p][c] # None THEN dirty[p][c] ELSE cred[c]]
      /\ End(p)
  BY Zenon DEF Commit
<1>1. /\ pc'[p] = "idle" /\ ~InRotation(p)'
      /\ \A c \in Creds : dirty'[p][c] = None
      /\ \A q \in Procs \ {p} :
             pc'[q] = pc[q] /\ job'[q] = job[q] /\ dirty'[q] = dirty[q]
  BY <1>t, <1>0, EndLeaves
<1>2. \A c \in Creds : cred'[c] = cred[c] \/ (cred'[c] = dirty[p][c] /\ dirty[p][c] # None)
  BY <1>0, Zenon
<1>3. \A q \in Procs, c \in Creds : dirty[q][c] # None =>
          /\ dirty[q][c] \in Row /\ Sound(dirty[q][c])
          /\ cred[c] # None => dirty[q][c].ver = cred[c].ver
  <2> SUFFICES ASSUME NEW q \in Procs, NEW c \in Creds, dirty[q][c] # None
               PROVE  /\ dirty[q][c] \in Row /\ Sound(dirty[q][c])
                      /\ cred[c] # None => dirty[q][c].ver = cred[c].ver
    OBVIOUS
  <2>1. dirty[q] \in [Creds -> Row \cup {None}] BY <1>r
  <2> QED BY <2>1, Zenon DEF SoundInv
<1>4. \A c \in Creds : cred[c] # None => cred[c] \in Row /\ Sound(cred[c])
  BY <1>r, Zenon DEF SoundInv
<1>5. ASSUME NEW c \in Creds, cred[c] # None PROVE cred'[c].ver = cred[c].ver
  BY <1>2, <1>3, <1>5, Zenon
<1>6. ASSUME NEW q \in Procs PROVE pc'[q] \notin KeyPhases
  <2>1. CASE q = p BY <1>1, <2>1 DEF KeyPhases
  <2>2. CASE q # p
    <3>1. pc'[q] = pc[q] BY <1>1, <2>2
    <3> QED BY <3>1, Zenon DEF SoundInv
  <2> QED BY <2>1, <2>2
<1>7. ASSUME NEW c \in Creds, cred'[c] # None PROVE Sound(cred[c])'
  <2>1. cred'[c] \in Row /\ Sound(cred'[c]) BY <1>2, <1>3, <1>4, <1>7, Zenon
  <2>2. PICK row \in Row : row = cred'[c] /\ Sound(row) BY <2>1
  <2>3. Exists(row.ver)' /\ Opens(row) BY <2>2, StaysSound
  <2> QED BY <2>2, <2>3, Zenon DEF Sound, Opens, Exists
<1>8. ASSUME NEW q \in Procs, NEW c \in Creds, dirty'[q][c] # None
      PROVE  Sound(dirty[q][c])' /\ (cred'[c] # None => dirty'[q][c].ver = cred'[c].ver)
  <2>1. q # p BY <1>1, <1>8
  <2>2. dirty'[q] = dirty[q] BY <1>1, <2>1
  <2>3. dirty[q][c] # None BY <1>8, <2>2
  <2>4. /\ dirty[q][c] \in Row /\ Sound(dirty[q][c])
        /\ cred[c] # None => dirty[q][c].ver = cred[c].ver
    BY <1>3, <2>3
  <2>5. PICK row \in Row : row = dirty[q][c] /\ Sound(row) BY <2>4
  <2>6. Exists(row.ver)' /\ Opens(row) BY <2>5, StaysSound
  <2>7. row = dirty'[q][c] BY <2>2, <2>5
  <2>8. Sound(dirty[q][c])' BY <2>6, <2>7, Zenon DEF Sound, Opens, Exists
  <2>9. ASSUME cred'[c] # None PROVE dirty'[q][c].ver = cred'[c].ver
    <3>1. CASE cred[c] # None BY <1>5, <2>2, <2>4, <3>1
    <3>2. CASE cred[c] = None
      <4>1. dirty[p][c] # None BY <1>2, <2>9, <3>2
      <4>2. Creates(p, c) BY <3>2, <4>1, Zenon DEF StoreInv, Stores
      <4>3. Creates(q, c) BY <2>3, <3>2, Zenon DEF StoreInv, Stores
      <4> QED BY <2>1, <4>2, <4>3, Zenon DEF StoreInv
    <3> QED BY <3>1, <3>2
  <2> QED BY <2>8, <2>9
<1>9. ASSUME NEW q \in Procs, InRotation(q)' PROVE cred'[job'[q].cred].ver = job'[q].ver
  <2>1. q # p BY <1>1, <1>9
  <2>2. job'[q] = job[q] BY <1>1, <2>1
  <2>3. InRotation(q) BY <1>9, <2>2, Zenon DEF InRotation
  <2>4. job[q].cred \in Creds /\ cred[job[q].cred] # None BY <2>3, Zenon DEF RotInv, Rotates
  <2>5. cred'[job[q].cred].ver = cred[job[q].cred].ver BY <1>5, <2>4
  <2>6. cred[job[q].cred].ver = job[q].ver BY <2>3, Zenon DEF SoundInv
  <2> QED BY <2>2, <2>5, <2>6
<1> QED BY <1>6, <1>7, <1>8, <1>9, Zenon DEF SoundInv

LEMMA SoundStep ==
    ASSUME "rekey" \notin Ops, IInv, StoreInv, RotInv, SoundInv, [Next]_vars
    PROVE  SoundInv'
<1>t. TypeOK /\ \A p \in Procs : Rotates(p) /\ ProcInv(p) /\ Stores(p)
  BY DEF IInv, RotInv, StoreInv
<1>j. job \in [Procs -> Job] /\ dirty \in [Procs -> [Creds -> Row \cup {None}]]
  BY <1>t, Zenon DEF TypeOK, Rows
<1>m. \A u \in Versions : Exists(u) => Exists(u)'
  BY Step, Zenon DEF Advance, Exists
<1>p. /\ KeyPhases = {"max", "insert", "mark", "select", "reseal", "write"}
      /\ {"active", "seal", "change", "verify", "update", "commit", "idle"} \cap KeyPhases = {}
  BY DEF KeyPhases, Elsewhere
<1>k. \A p \in Procs : pc[p] \notin KeyPhases BY Zenon DEF SoundInv
<1>a. ASSUME NEW p \in Procs, Abort(p) PROVE SoundInv'
  <2>1. End(p) /\ cred' = cred BY <1>a DEF Abort
  <2>2. /\ pc'[p] = "idle" /\ ~InRotation(p)'
        /\ \A c \in Creds : dirty'[p][c] = None
        /\ \A q \in Procs \ {p} :
               pc'[q] = pc[q] /\ job'[q] = job[q] /\ dirty'[q] = dirty[q]
    BY <1>t, <2>1, EndLeaves
  <2>3. pc'[p] \notin KeyPhases BY <1>p, <2>2
  <2> QED BY <1>m, <1>t, <2>1, <2>2, <2>3, SoundFrame, Zenon
<1>g. ASSUME NEW p \in Procs, NEW phase, NEW j \in Job, Goto(p, phase), phase \notin KeyPhases,
             job' = [job EXCEPT ![p] = j], cred' = cred, dirty' = dirty,
             j.op = "rotate" => cred[j.cred].ver = j.ver
      PROVE  SoundInv'
  <2>1. /\ pc'[p] = phase /\ job'[p] = j
        /\ \A q \in Procs \ {p} : pc'[q] = pc[q] /\ job'[q] = job[q] /\ dirty'[q] = dirty[q]
    BY <1>g, <1>t, Zenon DEF TypeOK, Goto
  <2>2. InRotation(p)' => cred[job'[p].cred].ver = job'[p].ver
    BY <1>g, <2>1, Zenon DEF InRotation
  <2>3. \A c \in Creds : dirty'[p][c] = dirty[p][c] BY <1>g
  <2> QED BY <1>g, <1>m, <1>t, <2>1, <2>2, <2>3, SoundFrame, Zenon
<1>w. ASSUME NEW p \in Procs, NEW c \in Creds, NEW row \in Row, NEW phase,
             WriteRow(p, c, row), Goto(p, phase), phase \notin KeyPhases,
             Sound(row), cred[c] # None => row.ver = cred[c].ver
      PROVE  SoundInv'
  <2>1. dirty' = [dirty EXCEPT ![p][c] = row] /\ cred' = cred /\ job' = job
    BY <1>w DEF WriteRow
  <2>2. /\ \A q \in Procs \ {p} : dirty'[q] = dirty[q]
        /\ \A d \in Creds : dirty'[p][d] = dirty[p][d] \/ (d = c /\ dirty'[p][d] = row)
    BY <1>j, <2>1, SMT
  <2>3. pc'[p] = phase /\ \A q \in Procs \ {p} : pc'[q] = pc[q]
    BY <1>w, <1>t, Zenon DEF TypeOK, Goto
  <2>4. InRotation(p)' => cred[job'[p].cred].ver = job'[p].ver
    BY <2>1, Zenon DEF SoundInv, InRotation
  <2>5. \A d \in Creds : dirty'[p][d] # None =>
            \/ dirty'[p][d] = dirty[p][d]
            \/ /\ dirty'[p][d] \in Row /\ Sound(dirty'[p][d])
               /\ cred[d] # None => dirty'[p][d].ver = cred[d].ver
    BY <1>w, <2>2, Zenon
  <2>6. \A q \in Procs \ {p} : pc'[q] = pc[q] /\ job'[q] = job[q] /\ dirty'[q] = dirty[q]
    BY <2>1, <2>2, <2>3
  <2> QED BY <1>m, <1>t, <1>w, <2>1, <2>3, <2>4, <2>5, <2>6, SoundFrame, Zenon
<1>1. ASSUME NEW p \in Procs, NEW c \in Creds, BeginCreate(p, c) PROVE SoundInv'
  <2> DEFINE j == NewJob("create", c, 1, None)
  <2>1. j \in Job /\ j.op # "rotate" BY JobTypes, SMT DEF NewJob
  <2>2. Begin(p, "active", j) /\ cred' = cred /\ dirty' = dirty
    BY <1>1, Zenon DEF BeginCreate
  <2>3. "active" \notin KeyPhases BY <1>p
  <2> HIDE DEF j
  <2> QED BY <1>g, <2>1, <2>2, <2>3, Zenon DEF Begin
<1>2. ASSUME NEW p \in Procs, BeginRekey(p) PROVE FALSE
  <2>1. NewJob("rekey", None, 1, None).op = "rekey" BY SMT DEF NewJob
  <2> QED BY <1>2, <2>1, Zenon DEF BeginRekey, Begin
<1>3. ASSUME NEW p \in Procs, NEW c \in Creds, NEW s \in Secrets, BeginRotate(p, c, s)
      PROVE  SoundInv'
  <2> DEFINE j == NewJob("rotate", c, cred[c].ver, s)
  <2>1. Begin(p, "change", j) /\ cred[c] # None /\ cred' = cred /\ dirty' = dirty
    BY <1>3, Zenon DEF BeginRotate
  <2>2. cred[c].ver \in Versions
    <3>1. cred[c] \in Row BY <1>t, <2>1, Zenon DEF TypeOK, Rows
    <3> QED BY <3>1, SMT DEF Row
  <2>3. j \in Job BY <2>2, JobTypes, Zenon
  <2>4. j.cred = c /\ j.ver = cred[c].ver BY SMT DEF NewJob
  <2>5. "change" \notin KeyPhases BY <1>p
  <2> HIDE DEF j
  <2> QED BY <1>g, <2>1, <2>3, <2>4, <2>5, Zenon DEF Begin
<1>4. ASSUME NEW p \in Procs, ReadActive(p) PROVE SoundInv'
  <2>1. PICK v \in Versions : job' = [job EXCEPT ![p].ver = v]
    BY <1>4, Zenon DEF ReadActive
  <2>2. job' = [job EXCEPT ![p] = [job[p] EXCEPT !.ver = v]] BY <2>1, Zenon
  <2>3. pc[p] = "active" /\ Goto(p, "seal") /\ cred' = cred /\ dirty' = dirty
    BY <1>4, Zenon DEF ReadActive
  <2>4. job[p] \in Job /\ job[p].op = "create" BY <1>j, <1>t, <2>3, SMT DEF ProcInv
  <2>5. [job[p] EXCEPT !.ver = v] \in Job BY <2>4, JobTypes
  <2>6. [job[p] EXCEPT !.ver = v].op # "rotate" BY <2>4, SMT DEF Job
  <2>7. "seal" \notin KeyPhases BY <1>p
  <2> QED BY <1>g, <2>2, <2>3, <2>5, <2>6, <2>7, Zenon
<1>5. ASSUME NEW p \in Procs, SealNew(p) PROVE SoundInv'
  <2> DEFINE c == job[p].cred
             v == job[p].ver
  <2>1. CASE Abort(p) BY <1>a, <2>1
  <2>2. CASE ~Abort(p)
    <3>1. pc[p] = "seal" /\ Exists(v) /\ WriteRow(p, c, NewRow(c, v)) /\ Goto(p, "commit")
      BY <1>5, <2>2, SMT DEF SealNew
    <3>2. c \in Creds /\ Creates(p, c) BY <1>t, <3>1, SMT DEF ProcInv, Creates
    <3>3. v \in Versions /\ target[c] \in Secrets
      BY <1>t, <1>j, <3>2, SMT DEF TypeOK, Job
    <3>4. cred[c] = None BY <1>t, <3>2, Zenon DEF Stores
    <3>5. "commit" \notin KeyPhases BY <1>p
    <3> HIDE DEF c, v
    <3>6. NewRow(c, v) \in Row BY <3>3, RowTypes, Zenon DEF NewRow
    <3>7. Sound(NewRow(c, v)) BY <3>1, SMT DEF Sound, Opens, NewRow
    <3> QED BY <1>w, <3>1, <3>2, <3>4, <3>5, <3>6, <3>7, Zenon
  <2> QED BY <2>1, <2>2
<1>6. ASSUME NEW p \in Procs, ChangeTarget(p) \/ Verify(p) PROVE SoundInv'
  <2>1. CASE Abort(p) BY <1>a, <2>1
  <2>2. CASE ~Abort(p)
    <3>1. cred' = cred /\ dirty' = dirty /\ job' = job
      BY <1>6, <2>2, Zenon DEF ChangeTarget, Verify
    <3>2. PICK phase \in {"update", "verify"} : Goto(p, phase)
      BY <1>6, <2>2, Zenon DEF ChangeTarget, Verify
    <3>3. phase \notin KeyPhases BY <1>p, <3>2
    <3>4. job[p] \in Job /\ job' = [job EXCEPT ![p] = job[p]] BY <1>j, <3>1, Zenon
    <3>5. job[p].op = "rotate" => cred[job[p].cred].ver = job[p].ver
      BY Zenon DEF SoundInv, InRotation
    <3> QED BY <1>g, <3>1, <3>2, <3>3, <3>4, <3>5, Zenon
  <2> QED BY <2>1, <2>2
<1>7. ASSUME NEW p \in Procs, UpdateSecret(p) PROVE SoundInv'
  <2> DEFINE c == job[p].cred
             row == [cred[c] EXCEPT !.key = job[p].ver, !.secret = job[p].new]
  <2>1. pc[p] = "update" /\ WriteRow(p, c, row) /\ Goto(p, "commit")
    BY <1>7, Zenon DEF UpdateSecret
  <2>2. c \in Creds /\ cred[c] # None /\ job[p].new \in Secrets /\ InRotation(p)
    BY <1>t, <2>1, SMT DEF ProcInv, InRotation
  <2>3. job[p].ver \in Versions /\ cred[c].ver = job[p].ver /\ Sound(cred[c])
    <3>1. job[p].ver \in Versions BY <1>j, SMT DEF Job
    <3>2. cred[c].ver = job[p].ver /\ Sound(cred[c]) BY <2>2, Zenon DEF SoundInv
    <3> QED BY <3>1, <3>2
  <2>4. cred[c] \in Row
    <3>1. cred \in Rows BY <1>t DEF TypeOK
    <3> QED BY <2>2, <3>1, Zenon DEF Rows
  <2>5. row \in Row BY <2>2, <2>3, <2>4, RowTypes, Zenon
  <2>6. row.ver = cred[c].ver /\ row.key = job[p].ver BY <2>4, SMT DEF Row
  <2>7. "commit" \notin KeyPhases BY <1>p
  <2> HIDE DEF c, row
  <2>8. Sound(row) BY <2>3, <2>6, Zenon DEF Sound, Opens
  <2> QED BY <1>w, <2>1, <2>2, <2>5, <2>6, <2>7, <2>8, Zenon
<1>8. ASSUME NEW p \in Procs,
             \/ ReadMax(p) \/ InsertKey(p) \/ MarkRotating(p) \/ SelectCreds(p)
             \/ Unseal(p) \/ AllResealed(p) \/ WriteResealed(p)
      PROVE  FALSE
  <2>1. pc[p] \in {"max", "insert", "mark", "select", "reseal", "write"}
    BY <1>8, SMT DEF ReadMax, InsertKey, MarkRotating, SelectCreds, Unseal, AllResealed,
                     WriteResealed
  <2> QED BY <1>k, <1>p, <2>1
<1>9. ASSUME NEW p \in Procs, Commit(p) PROVE SoundInv'
  BY <1>9, <1>m, SoundCommit
<1>10. ASSUME UNCHANGED <<keys, cred, pc, job, dirty>> PROVE SoundInv'
  BY <1>10, Zenon DEF SoundInv, Sound, Opens, Exists, InRotation
<1>11. ASSUME NEW c \in Creds, DeleteCredential(c) PROVE SoundInv'
  BY <1>10, <1>11, Zenon DEF DeleteCredential
<1>12. ASSUME UNCHANGED vars PROVE SoundInv'
  BY <1>10, <1>12, Zenon DEF vars
<1>13. ASSUME NEW p \in Procs, Arrive(p) PROVE SoundInv'
  BY <1>1, <1>2, <1>3, <1>13, Zenon DEF Arrive
<1>14. ASSUME NEW p \in Procs, Work(p) \/ Write(p) \/ Fail(p) PROVE SoundInv'
  BY <1>a, <1>4, <1>5, <1>6, <1>7, <1>8, <1>9, <1>14, Zenon DEF Work, Write, Fail, DeadlockAbort
<1> QED BY <1>11, <1>12, <1>13, <1>14, Zenon DEF Next

LEMMA SoundStart == Init => SoundInv
<1> SUFFICES ASSUME Init PROVE SoundInv OBVIOUS
<1>1. NoJob.op # "rotate" BY SMT DEF NoJob, NewJob
<1>2. \A p \in Procs : pc[p] = "idle" /\ job[p] = NoJob /\ dirty[p] = NoRows
  BY Zenon DEF Init
<1>3. \A p \in Procs : ~InRotation(p) BY <1>1, <1>2, Zenon DEF InRotation
<1>4. /\ \A c \in Creds : cred[c] = None
      /\ \A p \in Procs, c \in Creds : dirty[p][c] = None
  BY <1>2, Zenon DEF Init, NoRows
<1>5. \A p \in Procs : pc[p] \notin KeyPhases
  <2>1. "idle" \notin KeyPhases BY DEF KeyPhases
  <2> QED BY <1>2, <2>1
<1> QED BY <1>3, <1>4, <1>5, Zenon DEF SoundInv

LEMMA OpenWithoutRotate == ASSUME "rotate" \notin Ops PROVE Spec => []Readable
<1>1. IInv /\ GoodInv /\ [Next]_vars => IInv' /\ GoodInv' BY Step, GoodStep
<1>2. GoodInv => Readable BY Zenon DEF GoodInv, Good, Readable
<1> QED BY Initial, GoodInit, <1>1, <1>2, PTL DEF Spec

LEMMA OpenWithoutRekey == ASSUME "rekey" \notin Ops PROVE Spec => []Readable
<1>1. /\ IInv /\ StoreInv /\ RotInv /\ SoundInv /\ [Next]_vars
            => IInv' /\ StoreInv' /\ RotInv' /\ SoundInv'
  BY Step, StoreStep, RotStep, SoundStep
<1>2. SoundInv => Readable BY Zenon DEF SoundInv, Sound, Readable
<1> QED BY <1>1, <1>2, Initial, StoreStart, RotStart, SoundStart, PTL DEF Spec

(* What rotateCredential stores opens under the key_version of its row     *)
(* (vault.ts:303-306) unless a rotation of all keys may come in between,   *)
(* and such rotations by themselves lose nothing: it takes both of them.   *)
THEOREM ReadableApart ==
    ASSUME "rotate" \notin Ops \/ "rekey" \notin Ops
    PROVE  Spec => []Readable
BY OpenWithoutRotate, OpenWithoutRekey

-----------------------------------------------------------------------------
(* How the vault falls out of step with a target *)

(* Only a rotation of keys passes through its phases, and only where the   *)
(* adapter reaches a target is there something to verify.                  *)
Stage(p) ==
    /\ pc[p] = "idle" => job[p].op = "none"
    /\ pc[p] \in KeyPhases => job[p].op = "rekey"
    /\ pc[p] = "verify" => job[p].cred \in Live

(* A request that does not rotate the keys has written one row, its own,   *)
(* and goes on to commit it: a new one holds what its target accepts, a    *)
(* rotated one what was drawn for it.                                      *)
Wrote(p) ==
    /\ \A c \in Creds : dirty[p][c] # None /\ job[p].op # "rekey" =>
           /\ pc[p] = "commit" /\ job[p].cred = c
           /\ InRotation(p) \/ Creates(p, c)
           /\ Creates(p, c) => dirty[p][c].secret = target[c]
    /\ InRotation(p) /\ pc[p] = "commit" =>
           /\ dirty[p][job[p].cred] # None
           /\ dirty[p][job[p].cred].secret = job[p].new

StepInv == \A p \in Procs : Stage(p) /\ Wrote(p)

(* No credential falls out of step.                                        *)
Kept == \A c \in Live : InStep(c) => InStep(c)'

(* Or one does in a way that OutOfStepOnlyBy allows.                       *)
Fallen ==
    \A c \in Live : InStep(c) /\ ~InStep(c)' =>
        \E p \in Procs :
            \/ Changing(p) /\ job[p].cred = c /\ Abort(p)
            \/ job[p].op = "rekey" /\ dirty[p][c] # None /\ Commit(p)

(* A step of one request keeps what is known of the others, as nobody      *)
(* changes the target of a credential that is being created.               *)
LEMMA StepOthers ==
    ASSUME StepInv, NEW p \in Procs,
           \A q \in Procs \ {p} : pc'[q] = pc[q] /\ job'[q] = job[q] /\ dirty'[q] = dirty[q],
           \A c \in Creds : target'[c] = target[c] \/ \A q \in Procs : ~Creates(q, c),
           Stage(p)', Wrote(p)'
    PROVE  StepInv'
<1>1. \A q \in Procs \ {p} : /\ InRotation(q)' <=> InRotation(q)
                             /\ \A c \in Creds : Creates(q, c)' <=> Creates(q, c)
  BY Zenon DEF InRotation, Creates
<1>2. ASSUME NEW q \in Procs PROVE Stage(q)' /\ Wrote(q)'
  <2>1. CASE q = p BY <2>1
  <2>2. CASE q # p
    <3>1. /\ pc'[q] = pc[q] /\ job'[q] = job[q] /\ dirty'[q] = dirty[q]
          /\ Stage(q) /\ Wrote(q)
      BY <2>2 DEF StepInv
    <3>2. /\ InRotation(q)' <=> InRotation(q)
          /\ \A c \in Creds : Creates(q, c)' <=> Creates(q, c)
      BY <1>1, <2>2
    <3>3. Stage(q)' BY <3>1, Zenon DEF Stage
    <3>4. ASSUME NEW c \in Creds, Creates(q, c)' PROVE target'[c] = target[c]
      <4>1. Creates(q, c) BY <3>2, <3>4
      <4> QED BY <4>1
    <3>5. ASSUME NEW c \in Creds, dirty'[q][c] # None, job'[q].op # "rekey"
          PROVE  /\ pc'[q] = "commit" /\ job'[q].cred = c
                 /\ InRotation(q)' \/ Creates(q, c)'
                 /\ Creates(q, c)' => dirty'[q][c].secret = target'[c]
      <4>1. dirty[q][c] # None /\ job[q].op # "rekey" BY <3>1, <3>5
      <4>2. /\ pc[q] = "commit" /\ job[q].cred = c
            /\ InRotation(q) \/ Creates(q, c)
            /\ Creates(q, c) => dirty[q][c].secret = target[c]
        BY <3>1, <4>1, Zenon DEF Wrote
      <4>3. Creates(q, c)' => dirty'[q][c].secret = target'[c]
        BY <3>1, <3>2, <3>4, <4>2
      <4> QED BY <3>1, <3>2, <4>2, <4>3
    <3>6. InRotation(q)' /\ pc'[q] = "commit" =>
              dirty'[q][job'[q].cred] # None /\ dirty'[q][job'[q].cred].secret = job'[q].new
      BY <3>1, <3>2, Zenon DEF Wrote
    <3>7. Wrote(q)' BY <3>5, <3>6, Zenon DEF Wrote
    <3> QED BY <3>3, <3>7
  <2> QED BY <2>1, <2>2
<1> QED BY <1>2, Zenon DEF StepInv

(* A credential whose row and target stay as they are falls out of step    *)
(* only if a rotation lets go of it; one whose target changes does not     *)
(* while a rotation has it in its hands.                                   *)
LEMMA StepFrame ==
    ASSUME NEW p \in Procs, NEW c \in Creds, cred'[c] = cred[c],
           \A q \in Procs \ {p} : pc'[q] = pc[q] /\ job'[q] = job[q],
           target'[c] = target[c] \/ (Changing(p)' /\ job'[p].cred = c),
           Changing(p) /\ job[p].cred = c => Changing(p)' /\ job'[p].cred = c,
           InStep(c)
    PROVE  InStep(c)'
<1>1. \A q \in Procs \ {p} : Changing(q)' <=> Changing(q)
  BY Zenon DEF Changing, HoldsTarget
<1> SUFFICES ASSUME cred'[c] # None, \A q \in Procs : Changing(q)' => job'[q].cred # c
             PROVE  cred'[c].secret = target'[c]
  BY Zenon DEF InStep
<1>2. target'[c] = target[c] OBVIOUS
<1>3. ASSUME NEW q \in Procs, Changing(q) PROVE job[q].cred # c
  <2>1. CASE q = p BY <1>3, <2>1
  <2>2. CASE q # p
    <3>1. Changing(q)' /\ job'[q] = job[q] BY <1>1, <1>3, <2>2
    <3> QED BY <3>1
  <2> QED BY <2>1, <2>2
<1>4. cred[c].secret = target[c] BY <1>3, Zenon DEF InStep
<1> QED BY <1>2, <1>4

(* A step of one request that commits nothing, and changes a target only   *)
(* to have it in its hands.                                                *)
LEMMA StepKeeps ==
    ASSUME StepInv, NEW p \in Procs, cred' = cred,
           \A q \in Procs \ {p} : pc'[q] = pc[q] /\ job'[q] = job[q] /\ dirty'[q] = dirty[q],
           \A c \in Creds :
               \/ target'[c] = target[c]
               \/ /\ Changing(p)' /\ job'[p].cred = c
                  /\ \A q \in Procs : ~Creates(q, c),
           Changing(p) => Changing(p)' /\ job'[p].cred = job[p].cred,
           Stage(p)', Wrote(p)'
    PROVE  StepInv' /\ Kept
<1>1. StepInv' BY StepOthers, Zenon
<1>2. ASSUME NEW c \in Live, InStep(c) PROVE InStep(c)'
  <2>1. c \in Creds BY VaultAssumption
  <2> QED BY <1>2, <2>1, StepFrame, Zenon
<1> QED BY <1>1, <1>2, Zenon DEF Kept

(* A request that ends without a commit leaves behind only the credential  *)
(* it had in its hands.                                                    *)
LEMMA StepAbort ==
    ASSUME TypeOK, StepInv, NEW p \in Procs, Abort(p)
    PROVE  StepInv' /\ Fallen
<1>1. End(p) /\ cred' = cred /\ target' = target BY DEF Abort
<1>2. /\ pc'[p] = "idle" /\ ~InRotation(p)'
      /\ \A c \in Creds : dirty'[p][c] = None
      /\ \A q \in Procs \ {p} :
             pc'[q] = pc[q] /\ job'[q] = job[q] /\ dirty'[q] = dirty[q]
  BY <1>1, EndLeaves
<1>3. job'[p].op = "none" BY <1>1, JobEnds
<1>4. Wrote(p)' BY <1>2, Zenon DEF Wrote
<1>5. Stage(p)' BY <1>2, <1>3, SMT DEF Stage, KeyPhases
<1>6. StepInv' BY <1>1, <1>2, <1>4, <1>5, StepOthers, Zenon
<1>7. ASSUME NEW c \in Live, InStep(c), ~InStep(c)'
      PROVE  Changing(p) /\ job[p].cred = c
  <2>1. c \in Creds BY VaultAssumption
  <2>2. \A q \in Procs \ {p} : pc'[q] = pc[q] /\ job'[q] = job[q] BY <1>2
  <2> QED BY <1>1, <1>7, <2>1, <2>2, StepFrame, Zenon
<1>8. Fallen BY <1>7, Zenon DEF Fallen
<1> QED BY <1>6, <1>8

(* What is committed is the target's: a rotation's, as it still has the    *)
(* target in its hands, and a creation's, as nobody could rotate it yet.   *)
(* Only a rotation of keys commits a secret that it has merely read.       *)
LEMMA StepCommit ==
    ASSUME TypeOK, RotInv, StepInv, NEW p \in Procs, Commit(p)
    PROVE  StepInv' /\ Fallen
<1>0. /\ cred' = [c \in Creds |-> IF dirty[p][c] # None THEN dirty[p][c] ELSE cred[c]]
      /\ End(p) /\ target' = target /\ pc[p] = "commit"
  BY Zenon DEF Commit
<1>1. /\ pc'[p] = "idle" /\ ~InRotation(p)'
      /\ \A c \in Creds : dirty'[p][c] = None
      /\ \A q \in Procs \ {p} :
             pc'[q] = pc[q] /\ job'[q] = job[q] /\ dirty'[q] = dirty[q]
  BY <1>0, EndLeaves
<1>2. job'[p].op = "none" BY <1>0, JobEnds
<1>3. Wrote(p)' BY <1>1, Zenon DEF Wrote
<1>4. Stage(p)' BY <1>1, <1>2, SMT DEF Stage, KeyPhases
<1>5. StepInv' BY <1>0, <1>1, <1>3, <1>4, StepOthers, Zenon
<1>6. ASSUME NEW c \in Live, InStep(c), ~InStep(c)'
      PROVE  job[p].op = "rekey" /\ dirty[p][c] # None
  <2>0. c \in Creds BY VaultAssumption
  <2>1. Wrote(p) /\ Rotates(p) BY DEF StepInv, RotInv
  <2>2. ASSUME dirty[p][c] = None PROVE FALSE
    <3>1. cred'[c] = cred[c] BY <1>0, <2>0, <2>2, Zenon
    <3>2. ASSUME Changing(p), job[p].cred = c PROVE FALSE
      <4>1. InRotation(p) BY <1>0, <3>2, SMT DEF Changing, HoldsTarget, InRotation
      <4>2. dirty[p][c] # None BY <1>0, <2>1, <3>2, <4>1, Zenon DEF Wrote
      <4> QED BY <2>2, <4>2
    <3>3. \A q \in Procs \ {p} : pc'[q] = pc[q] /\ job'[q] = job[q] BY <1>1
    <3> QED BY <1>0, <1>6, <2>0, <3>1, <3>2, <3>3, StepFrame, Zenon
  <2>3. ASSUME dirty[p][c] # None, job[p].op # "rekey" PROVE FALSE
    <3>1. cred'[c] = dirty[p][c] BY <1>0, <2>0, <2>3, Zenon
    <3>2. /\ job[p].cred = c
          /\ InRotation(p) \/ Creates(p, c)
          /\ Creates(p, c) => dirty[p][c].secret = target[c]
      BY <2>0, <2>1, <2>3, Zenon DEF Wrote
    <3>3. dirty[p][c].secret = target[c]
      <4>1. CASE Creates(p, c) BY <3>2, <4>1
      <4>2. CASE InRotation(p)
        <5>1. HoldsTarget(p) BY <1>0, <3>2, <4>2, SMT DEF HoldsTarget, InRotation
        <5>2. target[c] = job[p].new BY <2>1, <3>2, <4>2, <5>1, Zenon DEF Rotates
        <5>3. dirty[p][c].secret = job[p].new BY <1>0, <2>1, <3>2, <4>2, Zenon DEF Wrote
        <5> QED BY <5>2, <5>3
      <4> QED BY <3>2, <4>1, <4>2
    <3>4. InStep(c)' BY <1>0, <3>1, <3>3, Zenon DEF InStep
    <3> QED BY <1>6, <3>4
  <2> QED BY <2>2, <2>3
<1>7. Fallen BY <1>6, Zenon DEF Fallen
<1> QED BY <1>5, <1>7

(* Before p has asked for a change, and outside the rotations of keys.     *)
Quiet(p, phase) ==
    /\ pc[p] \notin {"verify", "update", "commit"} /\ job[p].op # "rekey"
    /\ phase \notin {"idle", "verify", "commit"} /\ phase \notin KeyPhases

(* Every step keeps what is known of the requests, and lets a credential   *)
(* fall out of step in those ways only.                                    *)
LEMMA StepStep ==
    ASSUME IInv, StoreInv, RotInv, StepInv, [Next]_vars
    PROVE  StepInv' /\ Fallen
<1>t. TypeOK /\ \A p \in Procs : Rotates(p) /\ ProcInv(p) /\ Stores(p) /\ Stage(p) /\ Wrote(p)
  BY DEF IInv, RotInv, StoreInv, StepInv
<1>j. job \in [Procs -> Job] /\ dirty \in [Procs -> [Creds -> Row \cup {None}]]
  BY <1>t, Zenon DEF TypeOK, Rows
<1>k. /\ KeyPhases = {"max", "insert", "mark", "select", "reseal", "write"}
      /\ Kept => Fallen
  <2>1. KeyPhases = {"max", "insert", "mark", "select", "reseal", "write"}
    BY DEF KeyPhases, Elsewhere
  <2>2. Kept => Fallen BY Zenon DEF Kept, Fallen
  <2> QED BY <2>1, <2>2
<1>u. ASSUME NEW p \in Procs, pc[p] # "commit", job[p].op # "rekey"
      PROVE  \A c \in Creds : dirty[p][c] = None
  BY <1>t, <1>u, Zenon DEF Wrote
<1>h. ASSUME NEW p \in Procs, pc[p] \notin {"verify", "update", "commit"}
      PROVE  ~Changing(p)
  BY <1>h, SMT DEF Changing, HoldsTarget
<1>o. ASSUME NEW p \in Procs, pc[p] \in {"idle", "active", "seal", "change", "verify", "update"}
      PROVE  job[p].op # "rekey"
  BY <1>o, <1>t, SMT DEF ProcInv, Stage
<1>a. ASSUME NEW p \in Procs, Abort(p) PROVE StepInv' /\ Fallen
  BY <1>a, <1>t, StepAbort
<1>g. ASSUME NEW p \in Procs, NEW phase, NEW j, Goto(p, phase),
             pc[p] \notin {"verify", "update", "commit"}, phase \notin {"idle", "verify", "commit"},
             job[p].op # "rekey", phase \in KeyPhases => j.op = "rekey",
             job' = [job EXCEPT ![p] = j], cred' = cred, dirty' = dirty, target' = target
      PROVE  StepInv' /\ Fallen
  <2>1. /\ pc'[p] = phase /\ job'[p] = j
        /\ \A q \in Procs \ {p} : pc'[q] = pc[q] /\ job'[q] = job[q] /\ dirty'[q] = dirty[q]
    BY <1>g, <1>t, Zenon DEF TypeOK, Goto
  <2>2. pc[p] # "commit" BY <1>g
  <2>3. \A c \in Creds : dirty'[p][c] = None BY <1>g, <1>u, <2>2
  <2>4. pc'[p] # "commit" BY <1>g, <2>1
  <2>5. Wrote(p)' BY <2>3, <2>4, Zenon DEF Wrote
  <2>6. Stage(p)' BY <1>g, <2>1, SMT DEF Stage
  <2>7. ~Changing(p) BY <1>g, <1>h
  <2> QED BY <1>g, <1>k, <2>1, <2>5, <2>6, <2>7, StepKeeps, Zenon
<1>r. ASSUME NEW p \in Procs, NEW phase, Goto(p, phase),
             pc[p] \in KeyPhases, phase \in KeyPhases \cup {"commit"},
             job'[p].op = job[p].op, \A q \in Procs \ {p} : job'[q] = job[q],
             \A q \in Procs \ {p} : dirty'[q] = dirty[q], cred' = cred, target' = target
      PROVE  StepInv' /\ Fallen
  <2>1. pc'[p] = phase /\ \A q \in Procs \ {p} : pc'[q] = pc[q]
    BY <1>r, <1>t, Zenon DEF TypeOK, Goto
  <2>2. job'[p].op = "rekey" BY <1>r, <1>t, Zenon DEF Stage
  <2>3. Stage(p)' BY <1>r, <1>k, <2>1, <2>2, SMT DEF Stage
  <2>4. ~InRotation(p)' BY <2>2, SMT DEF InRotation
  <2>5. Wrote(p)' BY <2>2, <2>4, Zenon DEF Wrote
  <2>6. ~Changing(p) BY <1>r, <1>k, <1>h, SMT
  <2>7. \A q \in Procs \ {p} : pc'[q] = pc[q] /\ job'[q] = job[q] /\ dirty'[q] = dirty[q]
    BY <1>r, <2>1
  <2> QED BY <1>r, <1>k, <2>3, <2>5, <2>6, <2>7, StepKeeps, Zenon
<1>1. ASSUME NEW p \in Procs, NEW c \in Creds, BeginCreate(p, c) PROVE StepInv' /\ Fallen
  <2> DEFINE j == NewJob("create", c, 1, None)
  <2>1. Begin(p, "active", j) /\ cred' = cred /\ dirty' = dirty /\ target' = target
    BY <1>1, Zenon DEF BeginCreate
  <2> HIDE DEF j
  <2>2. pc[p] = "idle" /\ Goto(p, "active") /\ job' = [job EXCEPT ![p] = j]
    BY <2>1, Zenon DEF Begin
  <2>3. Quiet(p, "active") BY <1>k, <1>o, <2>2, SMT DEF Quiet
  <2> QED BY <1>g, <2>1, <2>2, <2>3, Zenon DEF Quiet
<1>2. ASSUME NEW p \in Procs, BeginRekey(p) PROVE StepInv' /\ Fallen
  <2> DEFINE j == NewJob("rekey", None, 1, None)
  <2>1. Begin(p, "max", j) /\ cred' = cred /\ dirty' = dirty /\ target' = target
    BY <1>2, Zenon DEF BeginRekey
  <2>2. j.op = "rekey" BY SMT DEF NewJob
  <2> HIDE DEF j
  <2>3. pc[p] = "idle" /\ Goto(p, "max") /\ job' = [job EXCEPT ![p] = j]
    BY <2>1, Zenon DEF Begin
  <2>4. /\ pc[p] \notin {"verify", "update", "commit"} /\ job[p].op # "rekey"
        /\ "max" \notin {"idle", "verify", "commit"}
    BY <1>o, <2>3, SMT
  <2> QED BY <1>g, <2>1, <2>2, <2>3, <2>4, Zenon
<1>3. ASSUME NEW p \in Procs, NEW c \in Creds, NEW s \in Secrets, BeginRotate(p, c, s)
      PROVE  StepInv' /\ Fallen
  <2> DEFINE j == NewJob("rotate", c, cred[c].ver, s)
  <2>1. Begin(p, "change", j) /\ cred' = cred /\ dirty' = dirty /\ target' = target
    BY <1>3, Zenon DEF BeginRotate
  <2> HIDE DEF j
  <2>2. pc[p] = "idle" /\ Goto(p, "change") /\ job' = [job EXCEPT ![p] = j]
    BY <2>1, Zenon DEF Begin
  <2>3. Quiet(p, "change") BY <1>k, <1>o, <2>2, SMT DEF Quiet
  <2> QED BY <1>g, <2>1, <2>2, <2>3, Zenon DEF Quiet
<1>4. ASSUME NEW p \in Procs, ReadActive(p) PROVE StepInv' /\ Fallen
  <2>1. PICK v \in Versions : job' = [job EXCEPT ![p].ver = v]
    BY <1>4, Zenon DEF ReadActive
  <2>2. job' = [job EXCEPT ![p] = [job[p] EXCEPT !.ver = v]] BY <2>1, Zenon
  <2>3. /\ pc[p] = "active" /\ Goto(p, "seal")
        /\ cred' = cred /\ dirty' = dirty /\ target' = target
    BY <1>4, Zenon DEF ReadActive
  <2>4. Quiet(p, "seal") BY <1>k, <1>o, <2>3, SMT DEF Quiet
  <2> QED BY <1>g, <2>2, <2>3, <2>4, Zenon DEF Quiet
<1>w. ASSUME NEW p \in Procs, NEW c \in Creds, NEW row \in Row,
             WriteRow(p, c, row), Goto(p, "commit"), pc[p] \in {"seal", "update"},
             job[p].cred = c,
             InRotation(p) \/ Creates(p, c),
             Creates(p, c) => row.secret = target[c],
             InRotation(p) => row.secret = job[p].new
      PROVE  StepInv' /\ Fallen
  <2>1. /\ dirty' = [dirty EXCEPT ![p][c] = row]
        /\ cred' = cred /\ job' = job /\ target' = target
    BY <1>w DEF WriteRow
  <2>2. /\ \A q \in Procs \ {p} : dirty'[q] = dirty[q]
        /\ dirty'[p][c] = row
        /\ \A d \in Creds \ {c} : dirty'[p][d] = dirty[p][d]
    BY <1>j, <2>1, SMT
  <2>3. pc'[p] = "commit" /\ \A q \in Procs \ {p} : pc'[q] = pc[q]
    BY <1>w, <1>t, Zenon DEF TypeOK, Goto
  <2>4. \A q \in Procs \ {p} : pc'[q] = pc[q] /\ job'[q] = job[q] /\ dirty'[q] = dirty[q]
    BY <2>1, <2>2, <2>3
  <2>5. pc[p] # "commit" /\ job[p].op # "rekey" BY <1>w, <1>o, SMT
  <2>6. \A d \in Creds : dirty'[p][d] # None => d = c BY <1>u, <2>2, <2>5
  <2>7. /\ InRotation(p)' <=> InRotation(p)
        /\ \A d \in Creds : Creates(p, d)' <=> Creates(p, d)
    BY <2>1, Zenon DEF InRotation, Creates
  <2>8. row # None BY VaultRowAssumption
  <2>9. Wrote(p)'
    <3>1. ASSUME NEW d \in Creds, dirty'[p][d] # None
          PROVE  /\ pc'[p] = "commit" /\ job'[p].cred = d
                 /\ InRotation(p)' \/ Creates(p, d)'
                 /\ Creates(p, d)' => dirty'[p][d].secret = target'[d]
      <4>1. d = c BY <2>6, <3>1
      <4> QED BY <1>w, <2>1, <2>2, <2>3, <2>7, <4>1
    <3>2. InRotation(p)' => /\ dirty'[p][job'[p].cred] # None
                            /\ dirty'[p][job'[p].cred].secret = job'[p].new
      BY <1>w, <2>1, <2>2, <2>7, <2>8
    <3> QED BY <3>1, <3>2, Zenon DEF Wrote
  <2>10. Stage(p)' BY <1>k, <2>3, SMT DEF Stage
  <2>11. Changing(p) => Changing(p)' /\ job'[p].cred = job[p].cred
    <3>1. HoldsTarget(p) => HoldsTarget(p)'
      BY <2>1, <2>3, Zenon DEF HoldsTarget
    <3>2. pc[p] # "verify" BY <1>w
    <3> QED BY <2>1, <3>1, <3>2, Zenon DEF Changing
  <2>12. \A d \in Creds : target'[d] = target[d] BY <2>1
  <2>13. cred' = cred BY <2>1
  <2> QED BY <1>k, <2>4, <2>9, <2>10, <2>11, <2>12, <2>13, StepKeeps, Zenon
<1>5. ASSUME NEW p \in Procs, SealNew(p) PROVE StepInv' /\ Fallen
  <2> DEFINE c == job[p].cred
             v == job[p].ver
  <2>1. pc[p] = "seal" BY <1>5 DEF SealNew
  <2>2. CASE Abort(p) BY <1>a, <2>2
  <2>3. CASE ~Abort(p)
    <3>1. WriteRow(p, c, NewRow(c, v)) /\ Goto(p, "commit") BY <1>5, <2>3, SMT DEF SealNew
    <3>2. c \in Creds /\ Creates(p, c) /\ ~InRotation(p)
      BY <1>t, <2>1, SMT DEF ProcInv, Creates, InRotation
    <3>3. v \in Versions /\ target[c] \in Secrets
      BY <1>t, <1>j, <3>2, SMT DEF TypeOK, Job
    <3>4. pc[p] \in {"seal", "update"} /\ job[p].cred = c BY <2>1
    <3> HIDE DEF c, v
    <3>5. NewRow(c, v) \in Row BY <3>3, RowTypes, Zenon DEF NewRow
    <3>6. NewRow(c, v).secret = target[c] BY SMT DEF NewRow
    <3> QED BY <1>w, <3>1, <3>2, <3>4, <3>5, <3>6, Zenon
  <2> QED BY <2>2, <2>3
<1>6. ASSUME NEW p \in Procs, UpdateSecret(p) PROVE StepInv' /\ Fallen
  <2> DEFINE c == job[p].cred
             row == [cred[c] EXCEPT !.key = job[p].ver, !.secret = job[p].new]
  <2>1. pc[p] = "update" /\ WriteRow(p, c, row) /\ Goto(p, "commit")
    BY <1>6, Zenon DEF UpdateSecret
  <2>2. c \in Creds /\ cred[c] # None /\ job[p].new \in Secrets /\ InRotation(p) /\ ~Creates(p, c)
    BY <1>t, <2>1, SMT DEF ProcInv, InRotation, Creates
  <2>3. job[p].ver \in Versions BY <1>j, SMT DEF Job
  <2>4. cred[c] \in Row
    <3>1. cred \in Rows BY <1>t DEF TypeOK
    <3> QED BY <2>2, <3>1, Zenon DEF Rows
  <2>5. row \in Row BY <2>2, <2>3, <2>4, RowTypes, Zenon
  <2>6. row.secret = job[p].new BY <2>4, SMT DEF Row
  <2>7. pc[p] \in {"seal", "update"} /\ job[p].cred = c BY <2>1
  <2> HIDE DEF c, row
  <2> QED BY <1>w, <2>1, <2>2, <2>5, <2>6, <2>7, Zenon
<1>7. ASSUME NEW p \in Procs, ChangeTarget(p) PROVE StepInv' /\ Fallen
  <2> DEFINE c == job[p].cred
  <2>1. pc[p] = "change" /\ job[p].op # "rekey" BY <1>7, <1>o, SMT DEF ChangeTarget
  <2>2. ~Changing(p) BY <1>h, <2>1
  <2>3. CASE Abort(p) BY <1>a, <2>3
  <2>4. CASE Goto(p, "update") /\ UNCHANGED <<cred, target, job, dirty>>
    <3>1. job' = [job EXCEPT ![p] = job[p]] BY <1>j, <2>4, Zenon
    <3>2. Quiet(p, "update") BY <1>k, <2>1, SMT DEF Quiet
    <3> QED BY <1>g, <2>4, <3>1, <3>2, Zenon DEF Quiet
  <2>5. CASE /\ c \in Live /\ Goto(p, "verify") /\ UNCHANGED <<cred, job, dirty>>
             /\ target' = [target EXCEPT ![c] = job[p].new] \/ target' = target
    <3>1. c \in Creds /\ cred[c] # None /\ job'[p].cred = c
      BY <1>t, <2>1, <2>5, SMT DEF ProcInv, Rotates, InRotation
    <3> HIDE DEF c
    <3>2. /\ pc'[p] = "verify"
          /\ \A q \in Procs \ {p} :
                 pc'[q] = pc[q] /\ job'[q] = job[q] /\ dirty'[q] = dirty[q]
      BY <1>t, <2>5, Zenon DEF TypeOK, Goto
    <3>3. Changing(p)' BY <3>2, Zenon DEF Changing
    <3>4. \A q \in Procs : ~Creates(q, c) BY <1>t, <3>1, Zenon DEF Stores
    <3>5. \A d \in Creds \ {c} : target'[d] = target[d]
      BY <1>t, <2>5, SMT DEF TypeOK
    <3>6. \A d \in Creds :
              \/ target'[d] = target[d]
              \/ Changing(p)' /\ job'[p].cred = d /\ \A q \in Procs : ~Creates(q, d)
      <4> SUFFICES ASSUME NEW d \in Creds, target'[d] # target[d]
                   PROVE  Changing(p)' /\ job'[p].cred = d /\ \A q \in Procs : ~Creates(q, d)
        OBVIOUS
      <4>1. d = c BY <3>5
      <4> QED BY <3>1, <3>3, <3>4, <4>1
    <3>7. \A d \in Creds : dirty'[p][d] = None BY <1>u, <2>1, <2>5
    <3>8. Wrote(p)' BY <3>2, <3>7, Zenon DEF Wrote
    <3>9. Stage(p)' BY <1>k, <2>5, <3>1, <3>2, SMT DEF Stage
    <3>10. cred' = cred BY <2>5
    <3> QED BY <1>k, <2>2, <3>2, <3>6, <3>8, <3>9, <3>10, StepKeeps, Zenon
  <2> HIDE DEF c
  <2> QED BY <1>7, <2>3, <2>4, <2>5, Zenon DEF ChangeTarget, c
<1>8. ASSUME NEW p \in Procs, Verify(p) PROVE StepInv' /\ Fallen
  <2>1. pc[p] = "verify" /\ job[p].op # "rekey" BY <1>8, <1>o, SMT DEF Verify
  <2>2. CASE Abort(p) BY <1>a, <2>2
  <2>3. CASE ~Abort(p)
    <3>1. Goto(p, "update") /\ cred' = cred /\ job' = job /\ dirty' = dirty /\ target' = target
      BY <1>8, <2>3, Zenon DEF Verify
    <3>2. job[p].op = "rotate" /\ job[p].cred \in Live
      BY <1>t, <2>1, SMT DEF ProcInv, Stage
    <3>3. /\ pc'[p] = "update"
          /\ \A q \in Procs \ {p} :
                 pc'[q] = pc[q] /\ job'[q] = job[q] /\ dirty'[q] = dirty[q]
      BY <1>t, <3>1, Zenon DEF TypeOK, Goto
    <3>4. Changing(p)' /\ job'[p].cred = job[p].cred
      BY <3>1, <3>2, <3>3, SMT DEF Changing, HoldsTarget
    <3>5. \A d \in Creds : dirty'[p][d] = None BY <1>u, <2>1, <3>1
    <3>6. Wrote(p)' BY <3>3, <3>5, Zenon DEF Wrote
    <3>7. Stage(p)' BY <1>k, <3>3, SMT DEF Stage
    <3>8. cred' = cred /\ target' = target BY <3>1
    <3> QED BY <1>k, <3>3, <3>4, <3>6, <3>7, <3>8, StepKeeps, Zenon
  <2> QED BY <2>2, <2>3
<1>9. ASSUME NEW p \in Procs, InsertKey(p) \/ MarkRotating(p) \/ SelectCreds(p) \/ AllResealed(p)
      PROVE  StepInv' /\ Fallen
  <2>1. CASE Abort(p) BY <1>a, <2>1
  <2>2. CASE ~Abort(p)
    <3>1. pc[p] \in {"insert", "mark", "select", "reseal"}
      BY <1>9, SMT DEF InsertKey, MarkRotating, SelectCreds, AllResealed
    <3>2. \E phase \in {"mark", "select", "reseal", "commit"} : Goto(p, phase)
      BY <1>9, <2>2, Zenon DEF InsertKey, MarkRotating, SelectCreds, AllResealed
    <3>3. cred' = cred /\ job' = job /\ dirty' = dirty /\ target' = target
      BY <1>9, <2>2, Zenon DEF InsertKey, MarkRotating, SelectCreds, AllResealed
    <3> QED BY <1>r, <1>k, <3>1, <3>2, <3>3, SMT
  <2> QED BY <2>1, <2>2
<1>10. ASSUME NEW p \in Procs, ReadMax(p) PROVE StepInv' /\ Fallen
  <2>1. CASE Abort(p) BY <1>a, <2>1
  <2>2. CASE ~Abort(p)
    <3>1. /\ pc[p] = "max" /\ Goto(p, "insert") /\ job' = [job EXCEPT ![p].ver = Newest + 1]
          /\ cred' = cred /\ dirty' = dirty /\ target' = target
      BY <1>10, <2>2, Zenon DEF ReadMax
    <3>2. job'[p].op = job[p].op /\ \A q \in Procs \ {p} : job'[q] = job[q]
      BY <1>j, <3>1, SMT DEF Job
    <3> QED BY <1>r, <1>k, <3>1, <3>2, SMT
  <2> QED BY <2>1, <2>2
<1>11. ASSUME NEW p \in Procs, Unseal(p) PROVE StepInv' /\ Fallen
  <2>1. CASE Abort(p) BY <1>a, <2>1
  <2>2. CASE ~Abort(p)
    <3>1. PICK c \in ToDo(p) : Goto(p, "write") /\ job' = [job EXCEPT ![p].cred = c]
      BY <1>11, <2>2, Zenon DEF Unseal
    <3>2. pc[p] = "reseal" /\ cred' = cred /\ dirty' = dirty /\ target' = target
      BY <1>11, <2>2, Zenon DEF Unseal
    <3>3. job'[p].op = job[p].op /\ \A q \in Procs \ {p} : job'[q] = job[q]
      BY <1>j, <3>1, SMT DEF Job
    <3> QED BY <1>r, <1>k, <3>1, <3>2, <3>3, SMT
  <2> QED BY <2>1, <2>2
<1>12. ASSUME NEW p \in Procs, WriteResealed(p) PROVE StepInv' /\ Fallen
  <2>1. /\ pc[p] = "write" /\ Goto(p, "reseal")
        /\ WriteRow(p, job[p].cred, Resealed(p, job[p].cred))
    BY <1>12, Zenon DEF WriteResealed
  <2>2. /\ \A q \in Procs \ {p} : dirty'[q] = dirty[q]
        /\ cred' = cred /\ job' = job /\ target' = target
    BY <1>j, <2>1, SMT DEF WriteRow
  <2> QED BY <1>r, <1>k, <2>1, <2>2, SMT
<1>13. ASSUME NEW p \in Procs, Commit(p) PROVE StepInv' /\ Fallen
  BY <1>13, <1>t, StepCommit
<1>14. ASSUME UNCHANGED <<cred, target, pc, job, dirty>> PROVE StepInv' /\ Fallen
  <2>1. StepInv' BY <1>14, Zenon DEF StepInv, Stage, Wrote, InRotation, Creates
  <2>2. Kept BY <1>14, Zenon DEF Kept, InStep, Changing, HoldsTarget
  <2> QED BY <1>k, <2>1, <2>2
<1>15. ASSUME NEW c \in Creds, DeleteCredential(c) PROVE StepInv' /\ Fallen
  BY <1>14, <1>15, Zenon DEF DeleteCredential
<1>16. ASSUME UNCHANGED vars PROVE StepInv' /\ Fallen
  BY <1>14, <1>16, Zenon DEF vars
<1>17. ASSUME NEW p \in Procs, Arrive(p) PROVE StepInv' /\ Fallen
  BY <1>1, <1>2, <1>3, <1>17, Zenon DEF Arrive
<1>18. ASSUME NEW p \in Procs, Work(p) \/ Write(p) \/ Fail(p) PROVE StepInv' /\ Fallen
  BY <1>a, <1>4, <1>5, <1>6, <1>7, <1>8, <1>9, <1>10, <1>11, <1>12, <1>13, <1>18, Zenon
  DEF Work, Write, Fail, DeadlockAbort
<1> QED BY <1>15, <1>16, <1>17, <1>18, Zenon DEF Next

LEMMA StepStart == Init => StepInv
<1> SUFFICES ASSUME Init PROVE StepInv OBVIOUS
<1>1. NoJob.op = "none" BY SMT DEF NoJob, NewJob
<1>2. \A p \in Procs : pc[p] = "idle" /\ job[p] = NoJob /\ dirty[p] = NoRows
  BY Zenon DEF Init
<1>3. \A p \in Procs : Stage(p) BY <1>1, <1>2, SMT DEF Stage, KeyPhases
<1>4. \A p \in Procs, c \in Creds : dirty[p][c] = None BY <1>2, Zenon DEF NoRows
<1>5. \A p \in Procs : pc[p] # "commit" BY <1>2
<1>6. \A p \in Procs : Wrote(p) BY <1>4, <1>5, Zenon DEF Wrote
<1> QED BY <1>3, <1>6, Zenon DEF StepInv

(* However creations and rotations of credentials, rotations of all keys   *)
(* and deletions overlap, fail and deadlock (vault.ts:260-338), and        *)
(* whatever adapters make of changePassword(), the vault falls out of step *)
(* with a target in two ways only: a rotation of the credential fails      *)
(* after it has asked for the change and before its commit, or a rotation  *)
(* of all keys commits the secret that it had read.                        *)
THEOREM FallsOutOnlyBy == Spec => OutOfStepOnlyBy
<1>1. /\ IInv /\ StoreInv /\ RotInv /\ StepInv /\ [Next]_vars
            => IInv' /\ StoreInv' /\ RotInv' /\ StepInv' /\ Fallen
  BY Step, StoreStep, RotStep, StepStep
<1>2. Fallen <=> \A c \in Live : InStep(c) /\ ~InStep(c)' =>
          \E p \in Procs :
              \/ Changing(p) /\ job[p].cred = c /\ Abort(p)
              \/ job[p].op = "rekey" /\ dirty[p][c] # None /\ Commit(p)
  BY Zenon DEF Fallen
<1> QED BY Initial, StoreStart, RotStart, StepStart, <1>1, <1>2, PTL DEF Spec, OutOfStepOnlyBy
=============================================================================
