--------------------------- MODULE DirectoryProofs ---------------------------
(***************************************************************************)
(* Proofs about Directory, for any tables and any number of requests.      *)
(*                                                                         *)
(* The checks that the handlers make before they write lock nothing, so    *)
(* what is proved rests on raced: as long as nobody else has committed a   *)
(* change to a row, what a request found of it still holds (FoundInv), and *)
(* its caller is still active (ActiveInv).  What locks do protect is the    *)
(* subject of LinkInv, further down: rows and the links that refer to them.*)
(***************************************************************************)
EXTENDS Directory, TLAPS, FiniteSetTheorems

Asking == [verb : Verbs, on : Things, must : Wants, hits : Wants,
           next : Status \cup {"same", "untouched"}, relink : BOOLEAN, asked : SUBSET Links]

(* What the requests have in common. *)
Sound(q) ==
    /\ q \in Asking
    /\ q.verb = "POST" => q.next \in {"ACTIVE", "PENDING"}
    /\ q.on \in Users => q.must \in {"absent", "live"}
    /\ q.verb \in {"DECIDE", "MISDECIDE"} => q.on \in Requests
    /\ q.on \in Requests =>
          \/ q.verb = "POST" /\ q.next = "PENDING"
          \/ /\ q.verb \in {"DECIDE", "MISDECIDE"} /\ q.must = "PENDING" /\ q.next = "DENIED"

(* The links that a request names are links of its row. *)
Shaped(q) ==
    /\ q.relink => /\ q.verb \in {"POST", "PATCH"} /\ q.next # "none"
                  /\ \A l \in q.asked : q.on \in {l[1], l[2]}
    /\ q.verb = "POST" => q.hits = "absent"
    /\ q.next = "none" => q.verb = "DELETE"

LEMMA ReqAsks ==
    ASSUME NEW verb \in Verbs, NEW on \in Things, NEW must \in Wants, NEW hits \in Wants,
           NEW next \in Status \cup {"same", "untouched"}
    PROVE  LET q == Req(verb, on, must, hits, next) IN
           /\ q \in Asking /\ q.verb = verb /\ q.on = on /\ q.must = must /\ q.hits = hits
           /\ q.next = next /\ ~q.relink
BY DEF Req, Asking

LEMMA RelinkAsks ==
    ASSUME NEW q \in Asking, NEW S \in SUBSET Links
    PROVE  LET p == Relink(q, S) IN
           /\ p \in Asking /\ p.verb = q.verb /\ p.on = q.on /\ p.must = q.must
           /\ p.hits = q.hits /\ p.next = q.next /\ p.relink /\ p.asked = S
BY DEF Relink, Asking

LEMMA PostAsks ==
    ASSUME NEW on \in Things, NEW must \in Wants, NEW next \in Status \cup {"same", "untouched"},
           NEW S \in SUBSET Links
    PROVE  LET q == Post(on, must, next, S) IN
           /\ q \in Asking /\ q.verb = "POST" /\ q.on = on /\ q.must = must /\ q.next = next
           /\ q.hits = "absent" /\ q.relink /\ q.asked = S
<1>1. "POST" \in Verbs /\ "absent" \in Wants  BY DEF Verbs, Wants
<1> DEFINE p == Req("POST", on, must, "absent", next)
<1>2. /\ p \in Asking /\ p.verb = "POST" /\ p.on = on /\ p.must = must /\ p.next = next
      /\ p.hits = "absent"
  BY <1>1, ReqAsks
<1> HIDE DEF p
<1> QED  BY <1>2, RelinkAsks DEF Post, p

LEMMA LinksTouch ==
    /\ \A t, S : S \in SUBSET (Collections \X {t}) => \A l \in S : l[2] = t
    /\ \A t, S, T : S \in SUBSET ({t} \X T) => \A l \in S : l[1] = t
OBVIOUS

LEMMA AskedSound == ASSUME NEW q \in Asked PROVE Sound(q) /\ Shaped(q)
<1>K. /\ "POST" \in Verbs /\ "PATCH" \in Verbs /\ "DELETE" \in Verbs /\ "DECIDE" \in Verbs
      /\ "MISDECIDE" \in Verbs /\ "REVEAL" \in Verbs /\ "REFUSE" \in Verbs
      /\ "any" \in Wants /\ "absent" \in Wants /\ "exists" \in Wants /\ "live" \in Wants
      /\ "PENDING" \in Wants
      /\ {"none", "same", "untouched", "ACTIVE", "DISABLED", "REVOKED", "PENDING", "DENIED"}
            \subseteq Status \cup {"same", "untouched"}
  BY DEF Verbs, Wants, Status
<1>0. /\ \A t \in Users : t \in Things /\ t \notin Requests
      /\ \A t \in Collections \cup Credentials \cup Applications \cup Connectors :
            t \in Things /\ t \notin Requests /\ t \notin Users
      /\ \A t \in Requests : t \in Things /\ t \notin Users
  BY SetsAssumption DEF Things
<1>1. CASE \E u \in Users : q \in PostUser(u)
  <2>0. PICK u \in Users : \E S \in SUBSET (Collections \X {u}) :
          q = Post(u, "absent", "ACTIVE", S)
    BY <1>1 DEF PostUser
  <2>1. PICK S \in SUBSET (Collections \X {u}) : q = Post(u, "absent", "ACTIVE", S)  BY <2>0
  <2>2. S \in SUBSET Links  BY <2>1 DEF Links
  <2>3. \A l \in S : u \in {l[1], l[2]}  BY <2>1, LinksTouch
  <2> QED  BY <1>0, <1>K, <2>1, <2>2, <2>3, PostAsks DEF Sound, Shaped
<1>2. CASE \E u \in Users : q \in PatchUser(u)
  <2>1. PICK u \in Users, s \in {"untouched", "same", "ACTIVE", "DISABLED"} :
          \/ q = Req("PATCH", u, "live", "any", s)
          \/ \E S \in SUBSET (Collections \X {u}) : q = Relink(Req("PATCH", u, "live", "any", s), S)
    BY <1>2 DEF PatchUser
  <2> DEFINE p == Req("PATCH", u, "live", "any", s)
  <2>0. u \in Things /\ s \in Status \cup {"same", "untouched"} /\ s # "none"  BY <1>0, <1>K
  <2>2. p \in Asking /\ p.verb = "PATCH" /\ p.on = u /\ p.must = "live" /\ p.next = s /\ ~p.relink
    BY <2>0 DEF Req, Asking, Verbs, Wants, Status
  <2>3. \A S \in SUBSET (Collections \X {u}) : S \in SUBSET Links /\ \A l \in S : u \in {l[1], l[2]}
    BY LinksTouch DEF Links
  <2> HIDE DEF p
  <2>4. /\ q \in Asking /\ q.verb = "PATCH" /\ q.on = u /\ q.must = "live" /\ q.next = s
        /\ q.relink => \A l \in q.asked : u \in {l[1], l[2]}
    BY <2>1, <2>2, <2>3, RelinkAsks DEF p
  <2> QED  BY <1>0, <2>0, <2>4 DEF Sound, Shaped
<1>3. CASE \E u \in Users : q \in DeleteUser(u)
  <2>1. PICK u \in Users : q = Req("DELETE", u, "live", "any", "DISABLED")  BY <1>3 DEF DeleteUser
  <2>2. q \in Asking /\ q.verb = "DELETE" /\ q.on = u /\ q.must = "live" /\ ~q.relink
    BY <1>0, <2>1 DEF Req, Asking, Verbs, Wants, Status
  <2> QED  BY <1>0, <2>2 DEF Sound, Shaped
<1>4. CASE \E c \in Collections : q \in PostCollection(c)
  <2>0. PICK c \in Collections : \E S \in SUBSET ({c} \X Users) :
          q = Post(c, "absent", "ACTIVE", S)
    BY <1>4 DEF PostCollection
  <2>1. PICK S \in SUBSET ({c} \X Users) : q = Post(c, "absent", "ACTIVE", S)  BY <2>0
  <2>2. S \in SUBSET Links  BY <2>1 DEF Links
  <2>3. \A l \in S : c \in {l[1], l[2]}  BY <2>1, LinksTouch
  <2> QED  BY <1>0, <1>K, <2>1, <2>2, <2>3, PostAsks DEF Sound, Shaped
<1>5. CASE \E c \in Collections : q \in PatchCollection(c)
  <2>1. PICK c \in Collections, s \in {"untouched", "same"} :
          \/ q = Req("PATCH", c, "exists", "any", s)
          \/ \E S \in SUBSET ({c} \X Users) : q = Relink(Req("PATCH", c, "exists", "any", s), S)
    BY <1>5 DEF PatchCollection
  <2> DEFINE p == Req("PATCH", c, "exists", "any", s)
  <2>0. c \in Things /\ s \in Status \cup {"same", "untouched"} /\ s # "none"  BY <1>0, <1>K
  <2>2. p \in Asking /\ p.verb = "PATCH" /\ p.on = c /\ p.next = s /\ ~p.relink
    BY <2>0 DEF Req, Asking, Verbs, Wants, Status
  <2>3. \A S \in SUBSET ({c} \X Users) : S \in SUBSET Links /\ \A l \in S : c \in {l[1], l[2]}
    BY LinksTouch DEF Links
  <2> HIDE DEF p
  <2>4. /\ q \in Asking /\ q.verb = "PATCH" /\ q.on = c /\ q.next = s
        /\ q.relink => \A l \in q.asked : c \in {l[1], l[2]}
    BY <2>1, <2>2, <2>3, RelinkAsks DEF p
  <2> QED  BY <1>0, <2>0, <2>4 DEF Sound, Shaped
<1>6. CASE \E a \in Applications : q \in PostApplication(a)
  <2>0. PICK a \in Applications : \E S \in SUBSET ({a} \X Credentials) :
          q = Post(a, "any", "ACTIVE", S)
    BY <1>6 DEF PostApplication
  <2>1. PICK S \in SUBSET ({a} \X Credentials) : q = Post(a, "any", "ACTIVE", S)  BY <2>0
  <2>2. S \in SUBSET Links  BY <2>1 DEF Links
  <2>3. \A l \in S : a \in {l[1], l[2]}  BY <2>1, LinksTouch
  <2> QED  BY <1>0, <1>K, <2>1, <2>2, <2>3, PostAsks DEF Sound, Shaped
<1>7. CASE \E k \in Credentials : q \in PostCredential(k)
  <2>0. PICK k \in Credentials : \E S \in SUBSET (Collections \X {k}) :
          q = Post(k, "any", "ACTIVE", S)
    BY <1>7 DEF PostCredential
  <2>1. PICK S \in SUBSET (Collections \X {k}) : q = Post(k, "any", "ACTIVE", S)  BY <2>0
  <2>2. S \in SUBSET Links  BY <2>1 DEF Links
  <2>3. \A l \in S : k \in {l[1], l[2]}  BY <2>1, LinksTouch
  <2> QED  BY <1>0, <1>K, <2>1, <2>2, <2>3, PostAsks DEF Sound, Shaped
<1>8. CASE \E t \in Collections \cup Applications \cup Credentials \cup Connectors :
              \/ q \in DeleteCollection(t) \/ q \in PatchApplication(t) \/ q \in DeleteApplication(t)
              \/ q \in PatchCredential(t) \/ q \in DeleteCredential(t) \/ q \in BreakGlass(t)
              \/ q \in Refused(t) \/ q \in RegisterConnector(t) \/ q \in RevokeConnector(t)
  <2>1. PICK t \in Collections \cup Applications \cup Credentials \cup Connectors,
             v \in Verbs, m \in Wants, w \in Wants, s \in Status \cup {"same", "untouched"} :
          /\ q = Req(v, t, m, w, s) /\ v \notin {"DECIDE", "MISDECIDE"} /\ (v = "POST" => s = "ACTIVE" /\ w = "absent")
          /\ s = "none" => v = "DELETE"
    BY <1>8, <1>K DEF DeleteCollection, PatchApplication, DeleteApplication, PatchCredential,
                DeleteCredential, BreakGlass, Refused, RegisterConnector, RevokeConnector
  <2>2. t \in Things /\ t \notin Requests /\ t \notin Users  BY <1>0
  <2>3. q \in Asking /\ q.verb = v /\ q.on = t /\ q.hits = w /\ q.next = s /\ ~q.relink
    BY <2>1, <2>2, ReqAsks
  <2> QED  BY <2>1, <2>2, <2>3 DEF Sound, Shaped
<1>9. CASE \E r \in Requests : q \in RequestAccess(r)
  <2>1. PICK r \in Requests : q = Req("POST", r, "any", "absent", "PENDING")
    BY <1>9 DEF RequestAccess
  <2>2. /\ q \in Asking /\ q.verb = "POST" /\ q.on = r /\ q.next = "PENDING"
        /\ q.hits = "absent" /\ ~q.relink
    BY <1>0, <2>1 DEF Req, Asking, Verbs, Wants, Status
  <2> QED  BY <1>0, <2>1, <2>2 DEF Sound, Shaped
<1>10. CASE \E r \in Requests : q \in Decide(r)
  <2>1. PICK r \in Requests, v \in {"DECIDE", "MISDECIDE"} : q = Req(v, r, "PENDING", "any", "DENIED")
    BY <1>10 DEF Decide
  <2>2. /\ q \in Asking /\ q.verb = v /\ q.on = r /\ q.must = "PENDING" /\ q.next = "DENIED"
        /\ ~q.relink
    BY <1>0, <2>1 DEF Req, Asking, Verbs, Wants, Status
  <2> QED  BY <1>0, <2>1, <2>2 DEF Sound, Shaped
<1>11. \/ \E u \in Users : q \in PostUser(u) \/ q \in PatchUser(u) \/ q \in DeleteUser(u)
       \/ \E c \in Collections :
             q \in PostCollection(c) \/ q \in PatchCollection(c) \/ q \in DeleteCollection(c)
       \/ \E a \in Applications :
             q \in PostApplication(a) \/ q \in PatchApplication(a) \/ q \in DeleteApplication(a)
       \/ \E k \in Credentials : \/ q \in PostCredential(k) \/ q \in PatchCredential(k)
                                 \/ q \in DeleteCredential(k) \/ q \in BreakGlass(k) \/ q \in Refused(k)
       \/ \E n \in Connectors : q \in RegisterConnector(n) \/ q \in RevokeConnector(n)
       \/ \E r \in Requests : q \in RequestAccess(r) \/ q \in Decide(r)
  <2>1. CASE q \in UNION {PostUser(u) \cup PatchUser(u) \cup DeleteUser(u) : u \in Users}
    BY <2>1
  <2>2. CASE q \in UNION {PostCollection(c) \cup PatchCollection(c) \cup DeleteCollection(c) :
                             c \in Collections}
    BY <2>2
  <2>3. CASE q \in UNION {PostApplication(a) \cup PatchApplication(a) \cup DeleteApplication(a) :
                             a \in Applications}
    BY <2>3
  <2>4. CASE q \in UNION {PostCredential(k) \cup PatchCredential(k) \cup DeleteCredential(k)
                             \cup BreakGlass(k) \cup Refused(k) : k \in Credentials}
    BY <2>4
  <2>5. CASE q \in UNION {RegisterConnector(n) \cup RevokeConnector(n) : n \in Connectors}
    BY <2>5
  <2>6. CASE q \in UNION {RequestAccess(r) \cup Decide(r) : r \in Requests}
    BY <2>6
  <2> QED  BY <2>1, <2>2, <2>3, <2>4, <2>5, <2>6 DEF Asked
<1>12. CASE \E u \in Users : q \in PostUser(u) \/ q \in PatchUser(u) \/ q \in DeleteUser(u)
  BY <1>1, <1>2, <1>3, <1>12
<1>13. CASE \E c \in Collections :
               q \in PostCollection(c) \/ q \in PatchCollection(c) \/ q \in DeleteCollection(c)
  BY <1>4, <1>5, <1>8, <1>13
<1>14. CASE \E a \in Applications :
               q \in PostApplication(a) \/ q \in PatchApplication(a) \/ q \in DeleteApplication(a)
  BY <1>6, <1>8, <1>14
<1>15. CASE \E k \in Credentials : \/ q \in PostCredential(k) \/ q \in PatchCredential(k)
                                   \/ q \in DeleteCredential(k) \/ q \in BreakGlass(k) \/ q \in Refused(k)
  BY <1>7, <1>8, <1>15
<1>16. CASE \E n \in Connectors : q \in RegisterConnector(n) \/ q \in RevokeConnector(n)
  BY <1>8, <1>16
<1>17. CASE \E r \in Requests : q \in RequestAccess(r) \/ q \in Decide(r)
  BY <1>9, <1>10, <1>17
<1> QED  BY <1>11, <1>12, <1>13, <1>14, <1>15, <1>16, <1>17

-----------------------------------------------------------------------------
(* The inductive invariant. *)

Working == {"found", "written", "linking", "revealed", "recorded"}

(* Whatever is deleted softly has its row. *)
RowInv == \A t \in Things : row[t].deleted => row[t].status # "none"

(* An audit row for each change, and one ahead for each that will commit. *)
Pending(t) == {h \in Slots : pc[h] = "recorded" /\ job[h].q.on = t}
CountInv == \A t \in Things : changes[t] + Cardinality(Pending(t)) <= records[t]

DecideInv == \A r \in Requests : approvals[r] > 0 => row[r].status = "DENIED"

FoundInv(h) ==
    pc[h] \in Working /\ job[h].q.on \notin raced[h] => Meets(row[job[h].q.on], job[h].q.must)
ActiveInv(h) ==
    pc[h] \in {"resolved"} \cup Working => row[job[h].by].status = "ACTIVE" \/ job[h].by \in raced[h]
(* An access request is created once, and decided after that. *)
RequestInv(h) ==
    pc[h] # "idle" /\ job[h].q.on \in Requests =>
        IF job[h].q.verb = "POST"
        THEN /\ row[job[h].q.on] = Absent
             /\ \A g \in Slots \ {h} : ~(pc[g] # "idle" /\ job[g].q.on = job[h].q.on
                                         /\ job[g].q.verb = "POST")
        ELSE pc[h] \in Working => row[job[h].q.on].status # "none"
SlotInv(h) == FoundInv(h) /\ ActiveInv(h) /\ RequestInv(h)

IInv == /\ TypeOK /\ RowInv /\ CountInv /\ DecideInv
        /\ \A h \in Slots : SlotInv(h)

-----------------------------------------------------------------------------
LEMMA JobSound ==
    ASSUME TypeOK, NEW h \in Slots, pc[h] # "idle"
    PROVE  /\ Sound(job[h].q) /\ job[h].q \in Asking /\ job[h].by \in Users /\ job[h].q.on \in Things
           /\ Shaped(job[h].q)
BY AskedSound DEF TypeOK, Job, Sound, Asking

LEMMA PendingFinite == ASSUME NEW t PROVE IsFiniteSet(Pending(t)) /\ Cardinality(Pending(t)) \in Nat
<1>1. Pending(t) \subseteq Slots /\ IsFiniteSet(Slots)  BY SetsAssumption DEF Pending
<1> QED  BY <1>1, FS_Subset, FS_CardinalityType

(* Nothing committed: the others find what they found. *)
LEMMA QuietSlots ==
    ASSUME IInv, NEW h \in Slots, UNCHANGED tables,
           \A g \in Slots \ {h} : pc'[g] = pc[g] /\ job'[g] = job[g] /\ raced'[g] = raced[g],
           pc'[h] # "idle" => job'[h] = job[h] /\ pc[h] # "idle"
    PROVE  \A g \in Slots \ {h} : SlotInv(g)'
<1> TAKE g \in Slots \ {h}
<1>1. SlotInv(g) /\ pc'[g] = pc[g] /\ job'[g] = job[g] /\ raced'[g] = raced[g] /\ row' = row
  BY DEF IInv, tables
<1>2. FoundInv(g)' /\ ActiveInv(g)'  BY <1>1 DEF SlotInv, FoundInv, ActiveInv, Meets
<1>3. RequestInv(g)'
  <2>1. ASSUME NEW f \in Slots \ {g}, pc'[f] # "idle"
        PROVE  pc[f] # "idle" /\ job'[f] = job[f]
    BY <2>1
  <2> QED  BY <1>1, <2>1 DEF SlotInv, RequestInv
<1> QED  BY <1>2, <1>3 DEF SlotInv

(* A slot that is given back, with nothing committed. *)
LEMMA ReleaseStep ==
    ASSUME IInv, NEW h \in Slots, Release(h), raced' = [raced EXCEPT ![h] = {}],
           UNCHANGED <<tables, arrivals>>,
           records' \in [Things -> Nat], \A t \in Things : records'[t] >= records[t]
    PROVE  IInv'
<1>1. TypeOK'  BY DEF IInv, TypeOK, Release, Goto, tables, Phases
<1>2. RowInv' /\ DecideInv'  BY DEF IInv, RowInv, DecideInv, tables
<1>3. CountInv'
  <2> SUFFICES ASSUME NEW t \in Things PROVE changes'[t] + Cardinality(Pending(t)') <= records'[t]
    BY DEF CountInv
  <2>1. Pending(t)' \subseteq Pending(t)  BY DEF IInv, TypeOK, Pending, Release, Goto
  <2>2. Cardinality(Pending(t)') <= Cardinality(Pending(t)) /\ Cardinality(Pending(t)') \in Nat
    BY <2>1, PendingFinite, FS_Subset, FS_CardinalityType
  <2> QED  BY <2>2, PendingFinite DEF IInv, CountInv, TypeOK, tables
<1>4. pc'[h] = "idle" /\ \A g \in Slots \ {h} : pc'[g] = pc[g] /\ job'[g] = job[g] /\ raced'[g] = raced[g]
  BY DEF IInv, TypeOK, Release, Goto
<1>5. \A g \in Slots \ {h} : SlotInv(g)'  BY <1>4, QuietSlots
<1>6. SlotInv(h)'  BY <1>4 DEF SlotInv, FoundInv, ActiveInv, RequestInv, Working
<1> QED  BY <1>1, <1>2, <1>3, <1>5, <1>6 DEF IInv

LEMMA AbortStep == ASSUME IInv, NEW h \in Slots, Abort(h) PROVE IInv'
<1>1. records' \in [Things -> Nat] /\ \A t \in Things : records'[t] >= records[t]
  BY DEF Abort, IInv, TypeOK
<1> QED  BY <1>1, ReleaseStep DEF Abort

LEMMA ArriveStep ==
    ASSUME IInv, NEW h \in Slots, NEW q \in Asked, NEW u \in Users, Arrive(h, q, u)
    PROVE  IInv'
<1>1. /\ pc' = [pc EXCEPT ![h] = "resolved"] /\ job' = [job EXCEPT ![h] = [q |-> q, by |-> u]]
      /\ raced' = raced /\ row' = row /\ pc[h] = "idle" /\ row[u].status = "ACTIVE"
  BY DEF Arrive, Goto, tables, MayAct
<1>2. TypeOK'
  <2>1. [q |-> q, by |-> u] \in Job  BY DEF Job
  <2>2. pc' \in [Slots -> Phases] /\ job' \in [Slots -> Job \cup {NoJob}]
    BY <1>1, <2>1 DEF IInv, TypeOK, Phases
  <2>3. ASSUME NEW g \in Slots, pc'[g] # "idle" PROVE job'[g] \in Job
    BY <1>1, <2>1, <2>3 DEF IInv, TypeOK
  <2>4. arrivals' \in 0..MaxArrivals  BY SetsAssumption DEF IInv, TypeOK, Arrive
  <2> QED  BY <2>2, <2>3, <2>4 DEF IInv, TypeOK, Arrive, tables
<1>3. pc'[h] = "resolved" /\ job'[h].q = q /\ job'[h].by = u
  BY <1>1 DEF IInv, TypeOK
<1>4. \A g \in Slots \ {h} : pc'[g] = pc[g] /\ job'[g] = job[g]
  BY <1>1 DEF IInv, TypeOK
<1>5. RowInv' /\ DecideInv'  BY DEF IInv, RowInv, DecideInv, Arrive, tables
<1>6. \A t : Pending(t)' = Pending(t)  BY <1>1, <1>3, <1>4 DEF Pending
<1>7. CountInv'  BY <1>6 DEF IInv, CountInv, Arrive, tables
<1>8. ASSUME NEW g \in Slots \ {h}, pc[g] # "idle", job[g].q.on = q.on, q.on \in Requests
      PROVE  q.verb # "POST"
  BY <1>8 DEF Arrive, Generated, Fresh
<1>9. ASSUME NEW g \in Slots \ {h} PROVE SlotInv(g)'
  <2>1. SlotInv(g)  BY DEF IInv
  <2>2. FoundInv(g)' /\ ActiveInv(g)'
    BY <1>1, <1>4, <2>1 DEF SlotInv, FoundInv, ActiveInv, Meets
  <2>3. RequestInv(g)'
    BY <1>1, <1>3, <1>4, <1>8, <2>1 DEF SlotInv, RequestInv
  <2> QED  BY <2>2, <2>3 DEF SlotInv
<1>10. SlotInv(h)'
  <2>1. FoundInv(h)' /\ ActiveInv(h)'  BY <1>1, <1>3 DEF FoundInv, ActiveInv, Working
  <2>2. ASSUME q.on \in Requests, q.verb = "POST"
        PROVE  row[q.on] = Absent /\ \A g \in Slots \ {h} : pc[g] # "idle" => job[g].q.on # q.on
    BY <2>2, <1>1 DEF Arrive, Generated, Fresh
  <2>3. RequestInv(h)'  BY <1>1, <1>3, <1>4, <2>2 DEF RequestInv, Working
  <2> QED  BY <2>1, <2>3 DEF SlotInv
<1> QED  BY <1>2, <1>5, <1>7, <1>9, <1>10 DEF IInv

(* A request goes on, and has committed nothing. *)
LEMMA MoveStep ==
    ASSUME IInv, NEW h \in Slots, NEW s \in Working, pc[h] # "idle", pc' = [pc EXCEPT ![h] = s],
           UNCHANGED <<tables, job, raced>>, TypeOK', CountInv',
           pc[h] \in Working \/ Meets(row[job[h].q.on], job[h].q.must),
           pc[h] \in Working \cup {"resolved"}
    PROVE  IInv'
<1>1. /\ pc'[h] = s /\ \A g \in Slots \ {h} : pc'[g] = pc[g]
      /\ job' = job /\ raced' = raced /\ row' = row
  BY DEF IInv, TypeOK, tables
<1>2. RowInv' /\ DecideInv'  BY DEF IInv, RowInv, DecideInv, tables
<1>3. \A g \in Slots \ {h} : SlotInv(g)'  BY <1>1, QuietSlots
<1>4. SlotInv(h)'
  <2>1. SlotInv(h) /\ Sound(job[h].q)  BY JobSound DEF IInv
  <2>2. FoundInv(h)' /\ ActiveInv(h)'
    BY <1>1, <2>1 DEF SlotInv, FoundInv, ActiveInv, Working, Meets
  <2>3. ASSUME job[h].q.on \in Requests, job[h].q.verb # "POST"
        PROVE  row[job[h].q.on].status # "none"
    <3>1. CASE pc[h] \in Working  BY <2>1, <2>3, <3>1 DEF SlotInv, RequestInv, Working
    <3>2. CASE Meets(row[job[h].q.on], job[h].q.must)
      <4>1. job[h].q.must = "PENDING"  BY <2>1, <2>3 DEF Sound
      <4> QED  BY <3>2, <4>1 DEF Meets
    <3> QED  BY <3>1, <3>2
  <2>4. RequestInv(h)'  BY <1>1, <2>1, <2>3 DEF SlotInv, RequestInv, Working
  <2> QED  BY <2>2, <2>4 DEF SlotInv
<1> QED  BY <1>2, <1>3, <1>4 DEF IInv

(* Before the audit row nothing is counted. *)
LEMMA NothingCounted ==
    ASSUME IInv, NEW h \in Slots, NEW s \in Working \ {"recorded"}, pc[h] # "recorded",
           pc' = [pc EXCEPT ![h] = s], UNCHANGED <<tables, records, job>>
    PROVE  CountInv'
<1>1. \A t : Pending(t)' = Pending(t)  BY DEF Pending, IInv, TypeOK
<1> QED  BY <1>1 DEF IInv, CountInv, tables

LEMMA FindStep == ASSUME IInv, NEW h \in Slots, Find(h) PROVE IInv'
<1>1. CASE Abort(h)  BY <1>1, AbortStep
<1>2. CASE /\ Meets(row[job[h].q.on], job[h].q.must) /\ Goto(h, "found")
           /\ UNCHANGED <<tables, records, arrivals, job, todo, drop, add, raced>>
  <2>1. TypeOK'
    <3>1. pc' \in [Slots -> Phases] /\ \A g \in Slots : pc'[g] # "idle" => pc[g] # "idle"
      BY <1>2 DEF IInv, TypeOK, Goto, Phases, Find
    <3> QED  BY <1>2, <3>1 DEF IInv, TypeOK, tables
  <2>2. "found" \in Working \ {"recorded"} /\ pc[h] = "resolved" /\ pc' = [pc EXCEPT ![h] = "found"]
    BY <1>2 DEF Find, Goto, Working
  <2>3. CountInv'  BY <1>2, <2>2, NothingCounted
  <2> QED  BY <1>2, <2>1, <2>2, <2>3, MoveStep
<1> QED  BY <1>1, <1>2 DEF Find

LEMMA WriteStep == ASSUME IInv, NEW h \in Slots, Write(h) PROVE IInv'
<1>1. CASE Abort(h)  BY <1>1, AbortStep
<1>2. CASE ~Abort(h)
  <2>1. PICK s \in {"written", "linking"} : pc' = [pc EXCEPT ![h] = s]
    BY <1>2 DEF Write, Goto
  <2>2. /\ UNCHANGED <<tables, records, arrivals, job, todo, add, raced>> /\ pc[h] = "found"
        /\ drop' = [drop EXCEPT ![h] = IF job[h].q.next = "none" THEN LinksOf(job[h].q.on) ELSE {}]
    BY <1>2 DEF Write
  <2>3. LinksOf(job[h].q.on) \subseteq Links  BY DEF LinksOf, IInv, TypeOK
  <2>4. TypeOK'  BY <2>1, <2>2, <2>3 DEF IInv, TypeOK, tables, Phases
  <2>5. CountInv'  BY <2>1, <2>2, NothingCounted DEF Working
  <2> QED  BY <2>1, <2>2, <2>4, <2>5, MoveStep DEF Working
<1> QED  BY <1>1, <1>2

LEMMA UnlinkStep == ASSUME IInv, NEW h \in Slots, Unlink(h) PROVE IInv'
<1>1. /\ pc' = [pc EXCEPT ![h] = "linking"] /\ pc[h] = "written"
      /\ UNCHANGED <<tables, records, arrivals, job, add, raced>>
  BY DEF Unlink, Goto
<1>2. PICK old \in SUBSET Links : drop' = [drop EXCEPT ![h] = old]
  <2>1. LinksOf(job[h].q.on) \subseteq Links  BY DEF LinksOf, IInv, TypeOK
  <2> QED  BY <2>1 DEF Unlink
<1>3. job[h].q.asked \subseteq Links  BY <1>1, JobSound DEF IInv, Asking
<1>4. TypeOK'  BY <1>1, <1>2, <1>3 DEF IInv, TypeOK, Unlink, tables, Phases
<1>5. CountInv'  BY <1>1, NothingCounted DEF Working
<1> QED  BY <1>1, <1>4, <1>5, MoveStep DEF Working

LEMMA LinkStep == ASSUME IInv, NEW h \in Slots, NEW l \in Links, Link(h, l) PROVE IInv'
<1>1. CASE Abort(h)  BY <1>1, AbortStep
<1>2. CASE ~Abort(h)
  <2>1. /\ UNCHANGED <<tables, records, arrivals, pc, job, drop, raced>> /\ pc[h] = "linking"
        /\ todo' = [todo EXCEPT ![h] = @ \ {l}]
        /\ add' = [add EXCEPT ![h] = @ \cup ({l} \ (links \ drop[h]))]
    BY <1>2 DEF Link
  <2>2. TypeOK'  BY <2>1 DEF IInv, TypeOK, tables
  <2>3. pc' = [pc EXCEPT ![h] = "linking"]  BY <2>1 DEF IInv, TypeOK
  <2>4. CountInv'  BY <2>1, <2>3, NothingCounted DEF Working
  <2> QED  BY <2>1, <2>2, <2>3, <2>4, MoveStep DEF Working
<1> QED  BY <1>1, <1>2

LEMMA RecordStep == ASSUME IInv, NEW h \in Slots, Record(h) PROVE IInv'
<1>1. job[h].q.on \in Things /\ pc[h] \in {"linking", "revealed"}
  BY JobSound DEF Record, Unrecorded, IInv
<1>2. records' = [records EXCEPT ![job[h].q.on] = @ + 1] /\ records \in [Things -> Nat]
  BY DEF Record, IInv, TypeOK
<1>3. records' \in [Things -> Nat] /\ \A t \in Things : records'[t] >= records[t]
  BY <1>1, <1>2
<1>4. CASE job[h].q.verb = "REFUSE"
  BY <1>3, <1>4, ReleaseStep DEF Record
<1>5. CASE job[h].q.verb # "REFUSE"
  <2>1. /\ pc' = [pc EXCEPT ![h] = "recorded"]
        /\ UNCHANGED <<tables, arrivals, job, todo, drop, add, raced>>
    BY <1>5 DEF Record, Goto
  <2>2. TypeOK'  BY <1>3, <2>1, <1>1 DEF IInv, TypeOK, tables, Phases
  <2>3. CountInv'
    <3> SUFFICES ASSUME NEW t \in Things PROVE changes'[t] + Cardinality(Pending(t)') <= records'[t]
      BY DEF CountInv
    <3>1. /\ IsFiniteSet(Pending(t)) /\ Cardinality(Pending(t)) \in Nat /\ changes[t] \in Nat
          /\ changes' = changes /\ changes[t] + Cardinality(Pending(t)) <= records[t]
          /\ records[t] \in Nat
      BY <2>1, PendingFinite DEF IInv, TypeOK, CountInv, tables
    <3>2. CASE t = job[h].q.on
      <4>1. Pending(t)' = Pending(t) \cup {h} /\ h \notin Pending(t)
        BY <1>1, <2>1, <3>2 DEF Pending, IInv, TypeOK
      <4>2. Cardinality(Pending(t)') = Cardinality(Pending(t)) + 1
        BY <3>1, <4>1, FS_AddElement
      <4> QED  BY <1>2, <3>1, <3>2, <4>2
    <3>3. CASE t # job[h].q.on
      <4>1. Pending(t)' = Pending(t)  BY <1>1, <2>1, <3>3 DEF Pending, IInv, TypeOK
      <4> QED  BY <1>2, <3>1, <3>3, <4>1
    <3> QED  BY <3>2, <3>3
  <2> QED  BY <1>1, <2>1, <2>2, <2>3, MoveStep DEF Working
<1> QED  BY <1>4, <1>5

LEMMA RecordRevealStep == ASSUME IInv, NEW h \in Slots, RecordReveal(h) PROVE IInv'
<1>1. /\ job[h].q.on \in Things /\ pc[h] = "linking" /\ pc' = [pc EXCEPT ![h] = "revealed"]
      /\ UNCHANGED <<tables, arrivals, job, todo, drop, add, raced>>
  BY JobSound DEF RecordReveal, Goto, IInv
<1>2. records' = [records EXCEPT ![job[h].q.on] = @ + 1] /\ records \in [Things -> Nat]
  BY DEF RecordReveal, IInv, TypeOK
<1>3. records' \in [Things -> Nat] /\ \A t \in Things : records'[t] >= records[t]
  BY <1>1, <1>2
<1>4. TypeOK'  BY <1>1, <1>3 DEF IInv, TypeOK, tables, Phases
<1>5. CountInv'
  <2> SUFFICES ASSUME NEW t \in Things PROVE changes'[t] + Cardinality(Pending(t)') <= records'[t]
    BY DEF CountInv
  <2>1. Pending(t)' = Pending(t)  BY <1>1 DEF Pending, IInv, TypeOK
  <2>2. /\ Cardinality(Pending(t)) \in Nat /\ changes[t] \in Nat /\ changes' = changes
        /\ changes[t] + Cardinality(Pending(t)) <= records[t] /\ records[t] \in Nat
    BY <1>1, PendingFinite DEF IInv, TypeOK, CountInv, tables
  <2> QED  BY <1>3, <2>1, <2>2
<1> QED  BY <1>1, <1>4, <1>5, MoveStep DEF Working

LEMMA NewRowSound ==
    ASSUME NEW q, Sound(q), NEW r \in Row, r.deleted => r.status # "none"
    PROVE  /\ NewRow(q, r) \in Row
           /\ NewRow(q, r).deleted => NewRow(q, r).status # "none"
           /\ q.on \in Requests /\ (q.verb # "POST" => r.status # "none") =>
                 NewRow(q, r).status = q.next
<1>1. /\ q.next \in Status \cup {"same", "untouched"} /\ q.verb \in Verbs
      /\ q.verb = "POST" => q.next \in {"ACTIVE", "PENDING"}
  BY DEF Sound, Asking
<1>2. r.status \in Status /\ r.deleted \in BOOLEAN /\ r = [status |-> r.status, deleted |-> r.deleted]
  BY DEF Row
<1>3. CASE q.next = "none"
  <2>1. q.on \notin Requests  BY <1>3 DEF Sound
  <2> QED  BY <1>3, <2>1 DEF NewRow, Absent, Row, Status
<1>4. CASE q.next # "none" /\ r = Absent /\ q.verb # "POST"
  BY <1>4 DEF NewRow, Absent, Row, Status
<1>5. CASE q.next # "none" /\ ~(r = Absent /\ q.verb # "POST")
  <2> DEFINE s == IF q.next \in {"same", "untouched"} THEN r.status ELSE q.next
  <2>1. NewRow(q, r) = [status |-> s, deleted |-> r.deleted \/ q.verb = "DELETE"]
    BY <1>5 DEF NewRow
  <2>2. s \in Status  BY <1>1, <1>2
  <2>3. s # "none"
    <3>1. CASE q.verb = "POST"  BY <1>1, <3>1
    <3>2. CASE q.verb # "POST"
      <4>1. r # Absent  BY <1>5, <3>2
      <4>2. r.status # "none"  BY <1>2, <4>1 DEF Absent
      <4> QED  BY <1>5, <4>2
    <3> QED  BY <3>1, <3>2
  <2>4. q.on \in Requests => s = q.next  BY DEF Sound
  <2> HIDE DEF s
  <2> QED  BY <1>2, <2>1, <2>2, <2>3, <2>4 DEF Row
<1> QED  BY <1>3, <1>4, <1>5

LEMMA CommitStep == ASSUME IInv, NEW h \in Slots, Commit(h) PROVE IInv'
<1> DEFINE q == job[h].q
           t == q.on
<1>0. /\ pc[h] = "recorded" /\ Sound(q) /\ q \in Asking /\ t \in Things /\ TypeOK /\ SlotInv(h)
      /\ row[t] \in Row /\ (row[t].deleted => row[t].status # "none")
  BY JobSound DEF Commit, IInv, RowInv, TypeOK
<1>1. /\ row' = [row EXCEPT ![t] = NewRow(q, @)]
      /\ links' = (links \ drop[h]) \cup add[h]
      /\ approvals' = [r \in Requests |-> approvals[r] + IF q.verb = "DECIDE" /\ r = t THEN 1 ELSE 0]
      /\ changes' = [changes EXCEPT ![t] = @ + 1]
      /\ raced' = [g \in Slots |-> IF g = h \/ pc[g] = "idle" THEN {} ELSE raced[g] \cup Touched(h)]
      /\ UNCHANGED <<records, arrivals>>
  BY DEF Commit
<1>2. /\ \A g \in Slots \ {h} : pc'[g] = pc[g] /\ job'[g] = job[g]
      /\ \/ pc'[h] = "idle"
         \/ pc'[h] = "outer" /\ t \in Credentials /\ job'[h] = job[h]
      /\ pc' \in [Slots -> Phases] /\ job' \in [Slots -> Job \cup {NoJob}]
      /\ drop' \in [Slots -> SUBSET Links] /\ add' \in [Slots -> SUBSET Links]
      /\ todo' \in [Slots -> SUBSET Links]
  <2>1. t \in Requests \/ t \notin Requests  OBVIOUS
  <2>2. CASE Generated(q) /\ t \in Credentials
    BY <1>0, <2>2 DEF Commit, TypeOK, Goto, Phases
  <2>3. CASE ~(Generated(q) /\ t \in Credentials)
    BY <1>0, <2>3 DEF Commit, TypeOK, Release, Goto, Phases
  <2> QED  BY <2>2, <2>3
<1>3. NewRow(q, row[t]) \in Row /\ (NewRow(q, row[t]).deleted => NewRow(q, row[t]).status # "none")
  BY <1>0, NewRowSound
<1>4. row'[t] = NewRow(q, row[t]) /\ \A x \in Things \ {t} : row'[x] = row[x]
  BY <1>0, <1>1 DEF TypeOK
<1>5. \A g \in Slots : raced'[g] \in SUBSET Things
  <2>1. \A l \in Links : l[1] \in Things /\ l[2] \in Things  BY DEF Links, Things
  <2>2. drop[h] \cup add[h] \subseteq Links  BY <1>0 DEF TypeOK
  <2>3. Touched(h) \subseteq Things  BY <1>0, <2>1, <2>2 DEF Touched
  <2> QED  BY <1>0, <1>1, <2>3 DEF TypeOK
<1>6. TypeOK'
  <2>1. row' \in [Things -> Row]  BY <1>0, <1>1, <1>3 DEF TypeOK
  <2>2. links' \subseteq Links  BY <1>0, <1>1 DEF TypeOK
  <2>3. approvals' \in [Requests -> Nat] /\ changes' \in [Things -> Nat]  BY <1>0, <1>1 DEF TypeOK
  <2>4. raced' \in [Slots -> SUBSET Things]  BY <1>1, <1>5
  <2>5. \A g \in Slots : pc'[g] # "idle" => job'[g] \in Job  BY <1>0, <1>2 DEF TypeOK
  <2> QED  BY <1>0, <1>1, <1>2, <2>1, <2>2, <2>3, <2>4, <2>5 DEF TypeOK
<1>7. RowInv'  BY <1>3, <1>4 DEF RowInv, IInv
<1>8. CountInv'
  <2> SUFFICES ASSUME NEW x \in Things PROVE changes'[x] + Cardinality(Pending(x)') <= records'[x]
    BY DEF CountInv
  <2>1. /\ IsFiniteSet(Pending(x)) /\ Cardinality(Pending(x)) \in Nat /\ changes[x] \in Nat
        /\ changes[x] + Cardinality(Pending(x)) <= records[x] /\ records[x] \in Nat
        /\ records' = records
    BY <1>1, PendingFinite DEF IInv, TypeOK, CountInv
  <2>2. CASE x = t
    <3>1. Pending(x)' = Pending(x) \ {h} /\ h \in Pending(x)
      BY <1>0, <1>2, <2>2 DEF Pending
    <3>2. Cardinality(Pending(x)') = Cardinality(Pending(x)) - 1
      BY <2>1, <3>1, FS_RemoveElement
    <3>3. changes'[x] = changes[x] + 1  BY <1>0, <1>1, <2>2 DEF TypeOK
    <3> QED  BY <2>1, <3>2, <3>3
  <2>3. CASE x # t
    <3>1. Pending(x)' = Pending(x)  BY <1>0, <1>2, <2>3 DEF Pending
    <3>2. changes'[x] = changes[x]  BY <1>0, <1>1, <2>3 DEF TypeOK
    <3> QED  BY <2>1, <3>1, <3>2
  <2> QED  BY <2>2, <2>3
<1>9. t \in Requests => \/ q.verb = "POST" /\ row[t] = Absent
                        \/ q.verb # "POST" /\ row[t].status # "none" /\ row'[t].status = "DENIED"
  <2> SUFFICES ASSUME t \in Requests PROVE \/ q.verb = "POST" /\ row[t] = Absent
                                           \/ /\ q.verb # "POST" /\ row[t].status # "none"
                                              /\ row'[t].status = "DENIED"
    OBVIOUS
  <2>1. CASE q.verb = "POST"  BY <1>0, <2>1 DEF SlotInv, RequestInv
  <2>2. CASE q.verb # "POST"
    <3>1. q.verb # "POST" /\ q.next = "DENIED"  BY <1>0, <2>2 DEF Sound
    <3>2. row[t].status # "none"  BY <1>0, <2>2 DEF SlotInv, RequestInv, Working
    <3> QED  BY <1>0, <1>4, <3>1, <3>2, NewRowSound
  <2> QED  BY <2>1, <2>2
<1>10. DecideInv'
  <2> SUFFICES ASSUME NEW r \in Requests, approvals'[r] > 0 PROVE row'[r].status = "DENIED"
    BY DEF DecideInv
  <2>1. r \in Things /\ approvals[r] \in Nat  BY <1>0 DEF Things, TypeOK
  <2>2. CASE r # t
    <3>1. approvals'[r] = approvals[r]  BY <1>1, <2>1, <2>2
    <3> QED  BY <1>4, <2>1, <2>2, <3>1 DEF IInv, DecideInv
  <2>3. CASE r = t /\ q.verb = "POST"
    <3>1. approvals'[r] = approvals[r]  BY <1>1, <2>1, <2>3
    <3>2. row[r].status = "none"  BY <1>9, <2>3 DEF Absent
    <3> QED  BY <3>1, <3>2 DEF IInv, DecideInv
  <2> QED  BY <1>9, <2>2, <2>3
<1>11. ASSUME NEW g \in Slots \ {h} PROVE SlotInv(g)'
  <2>1. SlotInv(g) /\ pc'[g] = pc[g] /\ job'[g] = job[g]  BY <1>2 DEF IInv
  <2>2. CASE pc[g] = "idle"  BY <2>1, <2>2 DEF SlotInv, FoundInv, ActiveInv, RequestInv, Working
  <2>3. CASE pc[g] # "idle"
    <3>1. job[g].q.on \in Things /\ job[g].by \in Things /\ Sound(job[g].q)
      BY <1>0, <2>3, JobSound DEF Things
    <3>2. raced'[g] = raced[g] \cup Touched(h) /\ t \in Touched(h)  BY <1>1, <2>3 DEF Touched
    <3>3. FoundInv(g)'
      BY <1>4, <2>1, <3>1, <3>2 DEF SlotInv, FoundInv, Meets
    <3>4. ActiveInv(g)'
      BY <1>4, <2>1, <3>1, <3>2 DEF SlotInv, ActiveInv
    <3>5. RequestInv(g)'
      <4> DEFINE r == job[g].q.on
      <4> SUFFICES ASSUME r \in Requests
                   PROVE  IF job[g].q.verb = "POST"
                          THEN /\ row'[r] = Absent
                               /\ \A f \in Slots \ {g} : ~(pc'[f] # "idle" /\ job'[f].q.on = r
                                                           /\ job'[f].q.verb = "POST")
                          ELSE pc[g] \in Working => row'[r].status # "none"
        BY <2>1 DEF RequestInv
      <4>1. IF job[g].q.verb = "POST"
            THEN /\ row[r] = Absent
                 /\ \A f \in Slots \ {g} : ~(pc[f] # "idle" /\ job[f].q.on = r /\ job[f].q.verb = "POST")
            ELSE pc[g] \in Working => row[r].status # "none"
        BY <2>1, <2>3 DEF SlotInv, RequestInv
      <4>2. \A f \in Slots : pc'[f] # "idle" => pc[f] # "idle" /\ job'[f] = job[f]
        BY <1>0, <1>2
      <4>3. CASE r # t  BY <1>4, <3>1, <4>1, <4>2, <4>3
      <4>4. CASE r = t
        <5>1. CASE q.verb # "POST"
          <6>1. row[t].status # "none" /\ row'[t].status = "DENIED"  BY <1>9, <4>4, <5>1
          <6>2. job[g].q.verb # "POST"  BY <4>1, <4>4, <6>1 DEF Absent
          <6> QED  BY <4>4, <6>1, <6>2
        <5>2. CASE q.verb = "POST"
          <6>1. row[t] = Absent  BY <1>9, <4>4, <5>2
          <6>2. job[g].q.verb # "POST"  BY <1>0, <4>1, <4>4, <5>2
          <6>3. pc[g] \notin Working  BY <4>1, <4>4, <6>1, <6>2 DEF Absent
          <6> QED  BY <6>2, <6>3
        <5> QED  BY <1>9, <4>4, <5>1, <5>2
      <4> QED  BY <4>3, <4>4
    <3> QED  BY <3>3, <3>4, <3>5 DEF SlotInv
  <2> QED  BY <2>2, <2>3
<1>12. SlotInv(h)'
  <2>1. t \in Credentials => t \notin Requests  BY SetsAssumption
  <2> QED  BY <1>2, <2>1 DEF SlotInv, FoundInv, ActiveInv, RequestInv, Working
<1> QED  BY <1>6, <1>7, <1>8, <1>10, <1>11, <1>12 DEF IInv

LEMMA RecordAgainStep == ASSUME IInv, NEW h \in Slots, RecordAgain(h) PROVE IInv'
<1>1. job[h].q.on \in Things  BY JobSound DEF RecordAgain, IInv
<1>2. records' \in [Things -> Nat] /\ \A t \in Things : records'[t] >= records[t]
  BY <1>1 DEF RecordAgain, IInv, TypeOK
<1> QED  BY <1>2, ReleaseStep DEF RecordAgain

LEMMA InitInv == Init => IInv
<1> SUFFICES ASSUME Init PROVE IInv  OBVIOUS
<1>1. TypeOK
  <2>1. PICK P \in Present :
          row = [t \in Things |->
                    IF t \notin P THEN Absent
                    ELSE [status |-> FirstStatus(t), deleted |-> FALSE]]
    BY DEF Init
  <2>2. row \in [Things -> Row]  BY <2>1 DEF Row, Status, Absent, FirstStatus
  <2>3. 0 \in 0..MaxArrivals  BY SetsAssumption
  <2>4. links \subseteq Links /\ approvals \in [Requests -> Nat]
    BY DEF Init
  <2>5. /\ pc \in [Slots -> Phases] /\ \A h \in Slots : pc[h] = "idle"
        /\ job \in [Slots -> Job \cup {NoJob}]
    BY DEF Init, Phases
  <2>6. /\ changes \in [Things -> Nat] /\ records \in [Things -> Nat] /\ arrivals \in 0..MaxArrivals
        /\ todo \in [Slots -> SUBSET Links] /\ drop \in [Slots -> SUBSET Links]
        /\ add \in [Slots -> SUBSET Links] /\ raced \in [Slots -> SUBSET Things]
    BY <2>3 DEF Init
  <2> QED  BY <2>2, <2>4, <2>5, <2>6 DEF TypeOK
<1>2. RowInv  BY DEF Init, RowInv, Absent
<1>3. CountInv
  <2>1. \A t : Pending(t) = {}  BY DEF Init, Pending
  <2>2. Cardinality({}) = 0  BY FS_EmptySet
  <2>3. \A t \in Things : changes[t] = 0 /\ records[t] = 0  BY DEF Init
  <2> QED  BY <2>1, <2>2, <2>3 DEF CountInv
<1>4. DecideInv  BY DEF Init, DecideInv
<1>5. \A h \in Slots : SlotInv(h)  BY DEF Init, SlotInv, FoundInv, ActiveInv, RequestInv, Working
<1> QED  BY <1>1, <1>2, <1>3, <1>4, <1>5 DEF IInv

LEMMA NextInv == IInv /\ [Next]_vars => IInv'
<1> SUFFICES ASSUME IInv, [Next]_vars PROVE IInv'  OBVIOUS
<1>1. CASE Next
  <2>1. PICK h \in Slots :
          \/ \E q \in Asked, u \in Users : Arrive(h, q, u)
          \/ Locking(h) \/ Work(h) \/ Fail(h)
    BY <1>1 DEF Next
  <2>2. CASE \E q \in Asked, u \in Users : Arrive(h, q, u)  BY <2>2, ArriveStep
  <2>3. CASE Locking(h)  BY <2>3, WriteStep, UnlinkStep, LinkStep DEF Locking
  <2>4. CASE Work(h)
    BY <2>4, FindStep, RecordRevealStep, RecordStep, CommitStep, RecordAgainStep, AbortStep
       DEF Work, RefuseWord, DeadlockAbort
  <2>5. CASE Fail(h)  BY <2>5, AbortStep DEF Fail
  <2> QED  BY <2>1, <2>2, <2>3, <2>4, <2>5
<1>2. CASE UNCHANGED vars
  BY <1>2 DEF vars, tables, IInv, TypeOK, RowInv, CountInv, Pending, DecideInv, SlotInv,
              FoundInv, ActiveInv, RequestInv, Meets
<1> QED  BY <1>1, <1>2

(* What the theorems below rest on, of every reachable state. *)
THEOREM Invariance == Spec => []IInv
BY InitInv, NextInv, PTL DEF Spec

-----------------------------------------------------------------------------
(* The theorems. *)

(* Every variable holds a value of its kind, whatever requests run against *)
(* each other.                                                             *)
THEOREM TypeCorrect == Spec => []TypeOK
<1>1. IInv => TypeOK  BY DEF IInv
<1> QED  BY <1>1, Invariance, PTL

(* Though audit() writes on a connection of its own, before the handler    *)
(* commits, no committed change is without an audit row of its own.        *)
THEOREM AuditedChanges == Spec => []ChangesRecorded
<1>1. IInv => ChangesRecorded
  <2> SUFFICES ASSUME IInv, NEW t \in Things PROVE changes[t] <= records[t]
    BY DEF ChangesRecorded
  <2> QED  BY PendingFinite DEF IInv, CountInv, TypeOK
<1> QED  BY <1>1, Invariance, PTL

(* Only commits change rows and approvals. *)
LEMMA OnlyCommits ==
    ASSUME IInv, [Next]_vars, row' # row \/ approvals' # approvals
    PROVE  \E h \in Slots : Commit(h)
BY DEF Next, Locking, Work, Arrive, Find, Write, Unlink, Link, RefuseWord, RecordReveal, Record,
       RecordAgain, Fail, DeadlockAbort, Abort, vars, tables

LEMMA CommitTouches ==
    ASSUME IInv, NEW h \in Slots, Commit(h)
    PROVE  /\ \A t \in Things : row'[t] # row[t] => t = job[h].q.on
           /\ \A r \in Requests : approvals'[r] # approvals[r] => job[h].q.verb = "DECIDE" /\ r = job[h].q.on
           /\ Sound(job[h].q) /\ FoundInv(h) /\ ActiveInv(h) /\ pc[h] = "recorded"
<1>1. pc[h] = "recorded" /\ Sound(job[h].q) /\ SlotInv(h)  BY JobSound DEF Commit, IInv
<1>2. \A t \in Things : row'[t] # row[t] => t = job[h].q.on
  BY DEF Commit, IInv, TypeOK
<1>3. \A r \in Requests : approvals'[r] # approvals[r] => job[h].q.verb = "DECIDE" /\ r = job[h].q.on
  BY DEF Commit, IInv, TypeOK
<1> QED  BY <1>1, <1>2, <1>3 DEF SlotInv

(* A deleted user is made ACTIVE again only by a PATCH that had looked      *)
(* before the deletion was committed.                                       *)
THEOREM DeletionStands == Spec => StaysDeleted
<1>1. IInv /\ [Next]_vars =>
        [\A u \in Users :
          row[u].deleted /\ row[u].status # "ACTIVE" /\ row'[u].status = "ACTIVE" =>
              \E h \in Slots : Commit(h) /\ job[h].q.on = u /\ u \in raced[h]]_vars
  <2> SUFFICES ASSUME IInv, [Next]_vars, NEW u \in Users,
                      row[u].deleted, row[u].status # "ACTIVE", row'[u].status = "ACTIVE"
               PROVE  \E h \in Slots : Commit(h) /\ job[h].q.on = u /\ u \in raced[h]
    OBVIOUS
  <2>1. PICK h \in Slots : Commit(h)  BY OnlyCommits
  <2>2. u \in Things  BY DEF Things
  <2>3. job[h].q.on = u /\ Sound(job[h].q) /\ FoundInv(h) /\ pc[h] = "recorded"
    BY <2>1, <2>2, CommitTouches
  <2>4. ASSUME u \notin raced[h] PROVE FALSE
    <3>1. Meets(row[u], job[h].q.must) /\ job[h].q.must \in {"absent", "live"}
      BY <2>3, <2>4 DEF FoundInv, Working, Sound
    <3>2. row[u].status # "none"  BY <2>2 DEF IInv, RowInv
    <3> QED  BY <3>1, <3>2 DEF Meets
  <2> QED  BY <2>1, <2>3, <2>4
<1> QED  BY <1>1, Invariance, PTL DEF Spec, StaysDeleted

(* What a disabled user had begun may still be committed, nothing else.    *)
THEOREM ActiveCallers == Spec => ActsWhileActive
<1>1. IInv /\ [Next]_vars =>
        [\A h \in Slots : Commit(h) =>
          LET u == job[h].by IN row[u].status = "ACTIVE" \/ u \in raced[h]]_vars
  BY CommitTouches DEF ActiveInv, Working
<1> QED  BY <1>1, Invariance, PTL DEF Spec, ActsWhileActive

(* A request is decided twice only by approvers who had both seen it open. *)
THEOREM SingleDecision == Spec => DecidedOnce
<1>1. IInv /\ [Next]_vars =>
        [\A r \in Requests : approvals'[r] > approvals[r] /\ approvals[r] > 0 =>
          \E h \in Slots : Commit(h) /\ job[h].q.on = r /\ r \in raced[h]]_vars
  <2> SUFFICES ASSUME IInv, [Next]_vars, NEW r \in Requests,
                      approvals'[r] > approvals[r], approvals[r] > 0
               PROVE  \E h \in Slots : Commit(h) /\ job[h].q.on = r /\ r \in raced[h]
    OBVIOUS
  <2>1. approvals[r] \in Nat /\ approvals'[r] # approvals[r] /\ row[r].status = "DENIED"
    BY DEF IInv, TypeOK, DecideInv
  <2>2. PICK h \in Slots : Commit(h)  BY <2>1, OnlyCommits
  <2>3. job[h].q.on = r /\ job[h].q.verb = "DECIDE" /\ Sound(job[h].q) /\ FoundInv(h) /\ pc[h] = "recorded"
    BY <2>1, <2>2, CommitTouches
  <2>4. ASSUME r \notin raced[h] PROVE FALSE
    <3>1. Meets(row[r], "PENDING")
      BY <2>3, <2>4 DEF FoundInv, Working, Sound
    <3> QED  BY <2>1, <3>1 DEF Meets
  <2> QED  BY <2>2, <2>3, <2>4
<1> QED  BY <1>1, Invariance, PTL DEF Spec, DecidedOnce

-----------------------------------------------------------------------------
(* Links.  A hard DELETE and the requests that insert links keep apart by   *)
(* the locks of the rows they touch; so a committed link refers to rows     *)
(* that are there, and a row that is being created has none.                *)

RefsInv == \A l \in links : row[l[1]].status # "none" /\ row[l[2]].status # "none"

Linking == {"linking", "revealed", "recorded"}
EmptyInv(h) ==
    /\ pc[h] \notin Linking => add[h] = {} /\ todo[h] = {}
    /\ pc[h] = "recorded" => todo[h] = {}
    /\ pc[h] = "written" => job[h].q.relink
    /\ pc[h] # "idle" /\ ~job[h].q.relink => add[h] = {} /\ todo[h] = {}
KnownInv(h) == \A l \in add[h] : Known(h, l[1]) /\ Known(h, l[2])
RemoveInv(h) == \A t \in Things : Removes(h, t) => LinksOf(t) \subseteq drop[h]
PostInv(h) == pc[h] \in Writing /\ job[h].q.verb = "POST" => row[job[h].q.on].status = "none"
AskedInv(h) ==
    pc[h] \in Linking /\ job[h].q.relink /\ job[h].q.on \notin raced[h] =>
        add[h] \cup todo[h] = job[h].q.asked /\ LinksOf(job[h].q.on) \subseteq drop[h]
Own(h) == EmptyInv(h) /\ KnownInv(h) /\ RemoveInv(h) /\ PostInv(h) /\ AskedInv(h)

Apart(g, h) ==
    /\ \A t \in Things : ~(Holds(g, t) /\ Holds(h, t))
    /\ \A l \in add[h] : ~Removes(g, l[1]) /\ ~Removes(g, l[2])

LinkInv == /\ RefsInv
           /\ \A h \in Slots : Own(h)
           /\ \A g, h \in Slots : g # h => Apart(g, h)

LEMMA LinkThings == ASSUME NEW l \in Links PROVE l[1] \in Things /\ l[2] \in Things
BY DEF Links, Things

(* Nothing committed: the other requests stand as they stood. *)
LEMMA QuietLinks ==
    ASSUME TypeOK, LinkInv, NEW h \in Slots, UNCHANGED <<row, links>>,
           \A g \in Slots \ {h} : /\ pc'[g] = pc[g] /\ job'[g] = job[g] /\ todo'[g] = todo[g]
                                  /\ drop'[g] = drop[g] /\ add'[g] = add[g] /\ raced'[g] = raced[g],
           Own(h)',
           \A g \in Slots \ {h} : Apart(g, h)' /\ Apart(h, g)'
    PROVE  LinkInv'
<1>1. RefsInv'  BY DEF LinkInv, RefsInv
<1>2. ASSUME NEW g \in Slots \ {h}
      PROVE  /\ pc'[g] = pc[g] /\ job'[g] = job[g] /\ todo'[g] = todo[g]
             /\ drop'[g] = drop[g] /\ add'[g] = add[g] /\ raced'[g] = raced[g]
             /\ \A t : Holds(g, t)' = Holds(g, t) /\ Removes(g, t)' = Removes(g, t)
  BY DEF Holds, Removes
<1>3. \A t : LinksOf(t)' = LinksOf(t)  BY DEF LinksOf
<1>4. ASSUME NEW g \in Slots \ {h} PROVE Own(g)'
  <2>1. Own(g)  BY DEF LinkInv
  <2>2. EmptyInv(g)' /\ PostInv(g)'  BY <1>2, <2>1 DEF Own, EmptyInv, Linking, PostInv
  <2>3. KnownInv(g)'  BY <1>2, <2>1 DEF Own, KnownInv, Known
  <2>4. RemoveInv(g)'  BY <1>2, <1>3, <2>1 DEF Own, RemoveInv
  <2>5. AskedInv(g)'  BY <1>2, <1>3, <2>1 DEF Own, AskedInv, Linking
  <2> QED  BY <2>2, <2>3, <2>4, <2>5 DEF Own
<1>5. ASSUME NEW f \in Slots \ {h}, NEW g \in Slots \ {h}, f # g PROVE Apart(f, g)'
  <2>1. Apart(f, g)  BY <1>5 DEF LinkInv
  <2> QED  BY <1>2, <2>1 DEF Apart
<1> QED  BY <1>1, <1>4, <1>5 DEF LinkInv

(* Who holds no more than before, and has inserted no more, keeps apart. *)
LEMMA StillApart ==
    ASSUME LinkInv, NEW h \in Slots, NEW g \in Slots \ {h},
           pc'[g] = pc[g], job'[g] = job[g], add'[g] = add[g],
           pc'[h] \in Writing => pc[h] \in Writing /\ job'[h] = job[h],
           add'[h] \subseteq add[h]
    PROVE  Apart(g, h)' /\ Apart(h, g)'
<1>1. Apart(g, h) /\ Apart(h, g)  BY DEF LinkInv
<1>2. \A t : (Holds(h, t)' => Holds(h, t)) /\ (Removes(h, t)' => Removes(h, t))
  BY DEF Holds, Removes
<1>3. \A t : (Holds(g, t)' => Holds(g, t)) /\ (Removes(g, t)' => Removes(g, t))
  BY DEF Holds, Removes
<1> QED  BY <1>1, <1>2, <1>3 DEF Apart

LEMMA ReleaseLinks ==
    ASSUME TypeOK, LinkInv, NEW h \in Slots, Release(h), raced' = [raced EXCEPT ![h] = {}],
           UNCHANGED <<row, links>>
    PROVE  LinkInv'
<1>1. /\ pc'[h] = "idle" /\ add'[h] = {} /\ todo'[h] = {}
      /\ \A g \in Slots \ {h} : /\ pc'[g] = pc[g] /\ job'[g] = job[g] /\ todo'[g] = todo[g]
                                /\ drop'[g] = drop[g] /\ add'[g] = add[g] /\ raced'[g] = raced[g]
  BY DEF TypeOK, Release, Goto
<1>2. Own(h)'
  BY <1>1 DEF Own, EmptyInv, KnownInv, RemoveInv, PostInv, AskedInv, Removes, Holds, Writing, Linking
<1>3. \A g \in Slots \ {h} : Apart(g, h)' /\ Apart(h, g)'
  BY <1>1, StillApart DEF Writing
<1> QED  BY <1>1, <1>2, <1>3, QuietLinks

LEMMA AbortLinks == ASSUME TypeOK, LinkInv, NEW h \in Slots, Abort(h) PROVE LinkInv'
BY ReleaseLinks DEF Abort, tables

LEMMA ArriveLinks ==
    ASSUME TypeOK, LinkInv, NEW h \in Slots, NEW q \in Asked, NEW u \in Users, Arrive(h, q, u)
    PROVE  LinkInv'
<1>1. /\ pc[h] = "idle" /\ pc'[h] = "resolved" /\ add'[h] = add[h] /\ todo'[h] = todo[h]
      /\ UNCHANGED <<row, links>>
      /\ \A g \in Slots \ {h} : /\ pc'[g] = pc[g] /\ job'[g] = job[g] /\ todo'[g] = todo[g]
                                /\ drop'[g] = drop[g] /\ add'[g] = add[g] /\ raced'[g] = raced[g]
  BY DEF TypeOK, Arrive, Goto, tables
<1>2. add[h] = {} /\ todo[h] = {}  BY <1>1 DEF LinkInv, Own, EmptyInv, Linking
<1>3. Own(h)'
  BY <1>1, <1>2 DEF Own, EmptyInv, KnownInv, RemoveInv, PostInv, AskedInv, Removes, Holds, Writing, Linking
<1>4. \A g \in Slots \ {h} : Apart(g, h)' /\ Apart(h, g)'
  BY <1>1, StillApart DEF Writing
<1> QED  BY <1>1, <1>3, <1>4, QuietLinks

LEMMA FindLinks == ASSUME TypeOK, LinkInv, NEW h \in Slots, Find(h) PROVE LinkInv'
<1>1. CASE Abort(h)  BY <1>1, AbortLinks
<1>2. CASE Goto(h, "found") /\ UNCHANGED <<tables, records, arrivals, job, todo, drop, add, raced>>
  <2>1. /\ pc[h] = "resolved" /\ pc'[h] = "found" /\ add' = add /\ todo' = todo
        /\ UNCHANGED <<row, links, job, drop, raced>>
        /\ \A g \in Slots \ {h} : pc'[g] = pc[g]
    BY <1>2 DEF TypeOK, Find, Goto, tables
  <2>2. add[h] = {} /\ todo[h] = {}  BY <2>1 DEF LinkInv, Own, EmptyInv, Linking
  <2>3. Own(h)'
    BY <2>1, <2>2 DEF Own, EmptyInv, KnownInv, RemoveInv, PostInv, AskedInv, Removes, Holds, Writing, Linking
  <2>4. \A g \in Slots \ {h} : Apart(g, h)' /\ Apart(h, g)'
    BY <2>1, StillApart DEF Writing
  <2> QED  BY <2>1, <2>3, <2>4, QuietLinks
<1> QED  BY <1>1, <1>2 DEF Find

LEMMA WriteLinks == ASSUME TypeOK, LinkInv, NEW h \in Slots, Write(h) PROVE LinkInv'
<1> DEFINE q == job[h].q
<1>1. CASE Abort(h)  BY <1>1, AbortLinks
<1>2. CASE ~Abort(h)
  <2>1. /\ pc[h] = "found" /\ Meets(row[q.on], q.hits)
        /\ pc'[h] = IF q.relink THEN "written" ELSE "linking"
        /\ drop'[h] = IF q.next = "none" THEN LinksOf(q.on) ELSE {}
        /\ UNCHANGED <<row, links, job, todo, add, raced>>
        /\ \A g \in Slots \ {h} : pc'[g] = pc[g] /\ drop'[g] = drop[g]
    BY <1>2 DEF TypeOK, Write, Goto, tables
  <2>2. add[h] = {} /\ todo[h] = {} /\ Shaped(q) /\ q.on \in Things
    BY <2>1, JobSound DEF LinkInv, Own, EmptyInv, Linking
  <2>3. \A t : LinksOf(t)' = LinksOf(t)  BY <2>1 DEF LinksOf
  <2>4. Own(h)'
    <3>1. EmptyInv(h)'  BY <2>1, <2>2 DEF EmptyInv, Linking
    <3>2. KnownInv(h)'  BY <2>1, <2>2 DEF KnownInv
    <3>3. RemoveInv(h)'
      <4> SUFFICES ASSUME NEW t \in Things, Removes(h, t)' PROVE LinksOf(t)' \subseteq drop'[h]
        BY DEF RemoveInv
      <4>1. q.on = t /\ q.next = "none"  BY <2>1 DEF Removes, Holds
      <4> QED  BY <2>1, <2>3, <4>1
    <3>4. PostInv(h)'  BY <2>1, <2>2 DEF PostInv, Shaped, Meets
    <3>5. AskedInv(h)'  BY <2>1 DEF AskedInv, Linking
    <3> QED  BY <3>1, <3>2, <3>3, <3>4, <3>5 DEF Own
  <2>5. ASSUME NEW g \in Slots \ {h} PROVE Apart(g, h)' /\ Apart(h, g)'
    <3>1. ~Locks(g, h)  BY DEF Write
    <3>2. \A t : Holds(g, t)' = Holds(g, t)  BY <2>1 DEF Holds
    <3>3. ASSUME NEW t \in Things, Holds(h, t)', Holds(g, t)' PROVE FALSE
      <4>1. q.on = t /\ WritesRow(q)  BY <2>1, <3>3 DEF Holds
      <4> QED  BY <3>1, <3>2, <3>3, <4>1 DEF Locks
    <3>4. ASSUME NEW l \in add'[g], NEW t \in {l[1], l[2]}, Removes(h, t)' PROVE FALSE
      <4>1. q.on = t /\ WritesRow(q) /\ q.next = "none" /\ l \in add[g]
        BY <2>1, <3>4 DEF Removes, Holds
      <4> QED  BY <3>1, <4>1 DEF Locks
    <3> QED  BY <2>1, <2>2, <3>3, <3>4 DEF Apart
  <2> QED  BY <2>1, <2>4, <2>5, QuietLinks
<1> QED  BY <1>1, <1>2

LEMMA UnlinkLinks == ASSUME TypeOK, LinkInv, NEW h \in Slots, Unlink(h) PROVE LinkInv'
<1> DEFINE q == job[h].q
<1>1. /\ pc[h] = "written" /\ pc'[h] = "linking" /\ todo'[h] = q.asked
      /\ drop'[h] = IF q.verb = "POST" THEN {} ELSE LinksOf(q.on)
      /\ UNCHANGED <<row, links, job, add, raced>>
      /\ \A g \in Slots \ {h} : pc'[g] = pc[g] /\ drop'[g] = drop[g] /\ todo'[g] = todo[g]
  BY DEF TypeOK, Unlink, Goto, tables
<1>2. add[h] = {} /\ q.relink /\ Shaped(q)
  BY <1>1, JobSound DEF LinkInv, Own, EmptyInv, Linking
<1>3. \A t : LinksOf(t)' = LinksOf(t)  BY <1>1 DEF LinksOf
<1>4. Own(h)'
  <2>1. EmptyInv(h)' /\ KnownInv(h)'  BY <1>1, <1>2 DEF EmptyInv, Linking, KnownInv
  <2>2. RemoveInv(h)'  BY <1>1, <1>2 DEF RemoveInv, Removes, Shaped
  <2>3. PostInv(h)'  BY <1>1 DEF LinkInv, Own, PostInv, Writing
  <2>4. AskedInv(h)'
    <3>1. CASE q.verb # "POST"  BY <1>1, <1>2, <1>3, <3>1 DEF AskedInv, Linking
    <3>2. CASE q.verb = "POST"
      <4>1. row[q.on].status = "none"  BY <1>1, <3>2 DEF LinkInv, Own, PostInv, Writing
      <4>2. LinksOf(q.on) = {}  BY <4>1 DEF LinkInv, RefsInv, LinksOf
      <4> QED  BY <1>1, <1>2, <1>3, <4>2 DEF AskedInv, Linking
    <3> QED  BY <3>1, <3>2
  <2> QED  BY <2>1, <2>2, <2>3, <2>4 DEF Own
<1>5. \A g \in Slots \ {h} : Apart(g, h)' /\ Apart(h, g)'
  BY <1>1, StillApart DEF Writing
<1> QED  BY <1>1, <1>4, <1>5, QuietLinks

LEMMA LinkLinks == ASSUME TypeOK, LinkInv, NEW h \in Slots, NEW l \in Links, Link(h, l) PROVE LinkInv'
<1> DEFINE q == job[h].q
<1>1. CASE Abort(h)  BY <1>1, AbortLinks
<1>2. CASE ~Abort(h)
  <2>1. /\ pc[h] = "linking" /\ l \in todo[h] /\ Known(h, l[1]) /\ Known(h, l[2])
        /\ todo'[h] = todo[h] \ {l} /\ add'[h] = add[h] \cup ({l} \ (links \ drop[h]))
        /\ UNCHANGED <<row, links, pc, job, drop, raced>>
        /\ \A g \in Slots \ {h} : add'[g] = add[g] /\ todo'[g] = todo[g]
    BY <1>2 DEF TypeOK, Link, tables
  <2>2. /\ Shaped(q) /\ q.relink /\ l[1] \in Things /\ l[2] \in Things
    BY <2>1, JobSound, LinkThings DEF LinkInv, Own, EmptyInv, Linking
  <2>3. \A t : LinksOf(t)' = LinksOf(t)  BY <2>1 DEF LinksOf
  <2>4. \A g \in Slots : \A t : Removes(g, t)' = Removes(g, t) /\ Holds(g, t)' = Holds(g, t)
    BY <2>1 DEF Removes, Holds
  <2>5. Own(h)'
    <3>0. Own(h)  BY DEF LinkInv
    <3>1. EmptyInv(h)'  BY <2>1, <2>2 DEF EmptyInv, Linking
    <3>2. KnownInv(h)'
      <4>1. \A t : Known(h, t)' = Known(h, t)  BY <2>1 DEF Known
      <4> QED  BY <2>1, <3>0, <4>1 DEF Own, KnownInv
    <3>3. RemoveInv(h)'  BY <2>1, <2>3, <2>4, <3>0 DEF Own, RemoveInv
    <3>4. PostInv(h)'  BY <2>1, <3>0 DEF Own, PostInv
    <3>5. AskedInv(h)'
      <4> SUFFICES ASSUME q.on \notin raced[h]
                   PROVE  add'[h] \cup todo'[h] = q.asked /\ LinksOf(q.on) \subseteq drop[h]
        BY <2>1, <2>3 DEF AskedInv, Linking
      <4>1. add[h] \cup todo[h] = q.asked /\ LinksOf(q.on) \subseteq drop[h]
        BY <2>1, <2>2, <3>0 DEF Own, AskedInv, Linking
      <4>2. q.on \in {l[1], l[2]}  BY <2>1, <2>2, <4>1 DEF Shaped
      <4>3. l \notin links \ drop[h]  BY <4>1, <4>2 DEF LinksOf
      <4> QED  BY <2>1, <4>1, <4>3
    <3> QED  BY <3>1, <3>2, <3>3, <3>4, <3>5 DEF Own
  <2>6. ASSUME NEW g \in Slots \ {h} PROVE Apart(g, h)' /\ Apart(h, g)'
    <3>1. Apart(g, h) /\ Apart(h, g)  BY DEF LinkInv
    <3>2. ~Blocks(h, g, l)  BY <1>2 DEF Link
    <3>3. ~Removes(g, l[1]) /\ ~Removes(g, l[2])  BY <3>2 DEF Blocks
    <3> QED  BY <2>1, <2>4, <3>1, <3>3 DEF Apart
  <2> QED  BY <2>1, <2>5, <2>6, QuietLinks
<1> QED  BY <1>1, <1>2

(* An audit row, and nothing else. *)
LEMMA RecordedLinks ==
    ASSUME TypeOK, LinkInv, NEW h \in Slots, NEW s \in {"revealed", "recorded"},
           pc[h] \in {"linking", "revealed"}, todo[h] = {} \/ s = "revealed", Goto(h, s),
           UNCHANGED <<tables, job, todo, drop, add, raced>>
    PROVE  LinkInv'
<1>1. /\ pc'[h] = s /\ UNCHANGED <<row, links, job, todo, drop, add, raced>>
      /\ \A g \in Slots \ {h} : pc'[g] = pc[g]
  BY DEF TypeOK, Goto, tables
<1>2. Own(h)'
  <2>0. Own(h)  BY DEF LinkInv
  <2>1. \A t : LinksOf(t)' = LinksOf(t)  BY <1>1 DEF LinksOf
  <2>2. \A t : Removes(h, t)' => Removes(h, t)  BY <1>1 DEF Removes, Holds, Writing
  <2>3. EmptyInv(h)' /\ PostInv(h)'  BY <1>1, <2>0 DEF Own, EmptyInv, PostInv, Writing, Linking
  <2>4. KnownInv(h)'  BY <1>1, <2>0 DEF Own, KnownInv, Known
  <2>5. RemoveInv(h)'  BY <1>1, <2>0, <2>1, <2>2 DEF Own, RemoveInv
  <2>6. AskedInv(h)'  BY <1>1, <2>0, <2>1 DEF Own, AskedInv, Linking
  <2> QED  BY <2>3, <2>4, <2>5, <2>6 DEF Own
<1>3. \A g \in Slots \ {h} : Apart(g, h)' /\ Apart(h, g)'
  BY <1>1, StillApart DEF Writing
<1> QED  BY <1>1, <1>2, <1>3, QuietLinks

LEMMA RecordRevealLinks == ASSUME TypeOK, LinkInv, NEW h \in Slots, RecordReveal(h) PROVE LinkInv'
BY RecordedLinks DEF RecordReveal

LEMMA RecordLinks == ASSUME TypeOK, LinkInv, NEW h \in Slots, Record(h) PROVE LinkInv'
<1>1. CASE job[h].q.verb = "REFUSE"  BY <1>1, ReleaseLinks DEF Record, tables
<1>2. CASE job[h].q.verb # "REFUSE"  BY <1>2, RecordedLinks DEF Record, Unrecorded
<1> QED  BY <1>1, <1>2

LEMMA RecordAgainLinks == ASSUME TypeOK, LinkInv, NEW h \in Slots, RecordAgain(h) PROVE LinkInv'
BY ReleaseLinks DEF RecordAgain, tables

(* A row goes only by a hard DELETE, and comes only by a creation. *)
LEMMA RowsKept ==
    ASSUME TypeOK, RowInv, NEW h \in Slots, Commit(h), NEW t \in Things
    PROVE  /\ row[t].status # "none" /\ row'[t].status = "none" => Removes(h, t)
           /\ row[t].status = "none" /\ row'[t].status # "none" =>
                 Holds(h, t) /\ job[h].q.verb = "POST"
           /\ job[h].q.verb = "POST" => row'[job[h].q.on].status # "none"
<1> DEFINE q == job[h].q
           r == row[q.on]
<1>1. /\ pc[h] = "recorded" /\ Sound(q) /\ Shaped(q) /\ q.on \in Things /\ r \in Row
      /\ (r.deleted => r.status # "none")
  BY JobSound DEF Commit, RowInv, TypeOK
<1>2. row'[q.on] = NewRow(q, r) /\ (t # q.on => row'[t] = row[t])
  BY <1>1 DEF Commit, TypeOK
<1>3. r.status = "none" => r = Absent  BY <1>1 DEF Row, Absent
<1>4. q.verb = "POST" => q.next \in {"ACTIVE", "PENDING"}  BY <1>1 DEF Sound
<1>5. q.verb = "POST" => NewRow(q, r).status # "none"  BY <1>4 DEF NewRow
<1>6. r.status = "none" /\ q.verb # "POST" => NewRow(q, r).status = "none"
  BY <1>3 DEF NewRow, Absent
<1>7. r.status # "none" /\ q.next # "none" => NewRow(q, r).status # "none"
  BY DEF NewRow, Absent
<1>8. q.verb = "POST" \/ q.next = "none" => WritesRow(q)
  BY <1>4 DEF WritesRow
<1> HIDE DEF q, r
<1>9. (q.verb = "POST" \/ q.next = "none") => Holds(h, q.on)
  BY <1>1, <1>8 DEF Holds, Writing, q
<1> QED  BY <1>2, <1>5, <1>6, <1>7, <1>9 DEF Removes, q, r

LEMMA CommitLinks ==
    ASSUME TypeOK, RowInv, LinkInv, NEW h \in Slots, Commit(h)
    PROVE  LinkInv'
<1> DEFINE q == job[h].q
<1>1. /\ pc[h] = "recorded" /\ todo[h] = {} /\ Shaped(q) /\ q.on \in Things /\ Own(h)
      /\ links' = (links \ drop[h]) \cup add[h] /\ add[h] \subseteq Links /\ links \subseteq Links
  BY JobSound DEF Commit, LinkInv, Own, EmptyInv, Linking, TypeOK
<1>2. /\ pc'[h] \in {"idle", "outer"} /\ add'[h] = {} /\ todo'[h] = {}
      /\ \A g \in Slots \ {h} : /\ pc'[g] = pc[g] /\ job'[g] = job[g] /\ todo'[g] = todo[g]
                                /\ drop'[g] = drop[g] /\ add'[g] = add[g]
  <2>1. CASE Generated(q) /\ q.on \in Credentials
    BY <1>1, <2>1 DEF Commit, TypeOK, Goto
  <2>2. CASE ~(Generated(q) /\ q.on \in Credentials)
    BY <1>1, <2>2 DEF Commit, TypeOK, Release, Goto
  <2> QED  BY <2>1, <2>2
<1>3. \A g \in Slots \ {h} : Apart(g, h) /\ Apart(h, g)  BY DEF LinkInv
<1>4. \A g \in Slots \ {h} : \A t : Holds(g, t)' = Holds(g, t) /\ Removes(g, t)' = Removes(g, t)
  BY <1>2 DEF Holds, Removes
<1>5. RefsInv'
  <2> SUFFICES ASSUME NEW l \in links', NEW t \in {l[1], l[2]} PROVE row'[t].status # "none"
    BY DEF RefsInv
  <2>1. t \in Things  BY <1>1, LinkThings
  <2>2. CASE l \in links \ drop[h]
    <3>1. row[t].status # "none"  BY <2>2 DEF LinkInv, RefsInv
    <3>2. l \in LinksOf(t)  BY <2>2 DEF LinksOf
    <3>3. ~Removes(h, t)  BY <1>1, <2>1, <2>2, <3>2 DEF Own, RemoveInv
    <3> QED  BY <2>1, <3>1, <3>3, RowsKept
  <2>3. CASE l \in add[h]
    <3>1. Known(h, t)  BY <1>1, <2>3 DEF Own, KnownInv
    <3>2. ~Removes(h, t)  BY <1>1, <2>3 DEF Own, EmptyInv, Linking, Shaped, Removes
    <3> QED  BY <2>1, <3>1, <3>2, RowsKept DEF Known
  <2> QED  BY <1>1, <2>2, <2>3
<1>6. Own(h)'
  BY <1>2 DEF Own, EmptyInv, KnownInv, RemoveInv, PostInv, AskedInv, Removes, Holds, Writing, Linking
<1>7. ASSUME NEW g \in Slots \ {h} PROVE Own(g)'
  <2>1. /\ Own(g) /\ pc'[g] = pc[g] /\ job'[g] = job[g] /\ todo'[g] = todo[g]
        /\ drop'[g] = drop[g] /\ add'[g] = add[g] /\ Apart(g, h) /\ Apart(h, g)
    BY <1>2, <1>3 DEF LinkInv
  <2>2. pc[g] # "idle" => job[g].q.on \in Things /\ Sound(job[g].q) /\ Shaped(job[g].q)
    BY JobSound
  <2>3. EmptyInv(g)'  BY <2>1 DEF Own, EmptyInv, Linking
  <2>4. KnownInv(g)'
    <3> SUFFICES ASSUME NEW l \in add[g], NEW t \in {l[1], l[2]} PROVE Known(g, t)'
      BY <2>1 DEF KnownInv
    <3>1. Known(g, t) /\ ~Removes(h, t)  BY <2>1 DEF Own, KnownInv, Apart
    <3>2. t \in Things  BY LinkThings DEF TypeOK
    <3> QED  BY <2>1, <3>1, <3>2, RowsKept DEF Known
  <2>5. RemoveInv(g)'
    <3> SUFFICES ASSUME NEW t \in Things, Removes(g, t), NEW l \in links', t \in {l[1], l[2]}
                 PROVE  l \in drop[g]
      BY <1>4, <2>1 DEF RemoveInv, LinksOf
    <3>1. l \notin add[h]  BY <2>1 DEF Apart
    <3>2. l \in LinksOf(t)  BY <1>1, <3>1 DEF LinksOf
    <3> QED  BY <2>1, <3>2 DEF Own, RemoveInv
  <2>6. PostInv(g)'
    <3> DEFINE t == job[g].q.on
    <3> SUFFICES ASSUME pc[g] \in Writing, job[g].q.verb = "POST" PROVE row'[t].status = "none"
      BY <2>1 DEF PostInv
    <3>1. t \in Things /\ row[t].status = "none"  BY <2>1, <2>2 DEF Own, PostInv, Writing
    <3>2. Holds(g, t)  BY <2>2 DEF Holds, WritesRow, Writing, Sound
    <3>3. ~Holds(h, t)  BY <2>1, <3>1, <3>2 DEF Apart
    <3> QED  BY <3>1, <3>3, RowsKept
  <2>7. AskedInv(g)'
    <3> DEFINE t == job[g].q.on
    <3> SUFFICES ASSUME pc[g] \in Linking, job[g].q.relink, t \notin raced'[g]
                 PROVE  add[g] \cup todo[g] = job[g].q.asked /\ LinksOf(t)' \subseteq drop[g]
      BY <2>1 DEF AskedInv, Linking
    <3>1. raced'[g] = raced[g] \cup Touched(h)  BY DEF Commit, Linking
    <3>2. \A l \in add[h] : t \notin {l[1], l[2]}  BY <3>1 DEF Touched
    <3>3. LinksOf(t)' \subseteq LinksOf(t)  BY <1>1, <2>1, <3>2 DEF LinksOf
    <3>4. add[g] \cup todo[g] = job[g].q.asked /\ LinksOf(t) \subseteq drop[g]
      BY <2>1, <3>1 DEF Own, AskedInv, Linking
    <3> QED  BY <3>3, <3>4
  <2> QED  BY <2>3, <2>4, <2>5, <2>6, <2>7 DEF Own
<1>8. ASSUME NEW f \in Slots, NEW g \in Slots, f # g PROVE Apart(f, g)'
  <2>1. Apart(f, g)  BY <1>8 DEF LinkInv
  <2>2. \A t : ~Holds(h, t)' /\ ~Removes(h, t)'  BY <1>2 DEF Holds, Removes, Writing
  <2>3. add'[g] \subseteq add[g]  BY <1>2
  <2> QED  BY <1>4, <2>1, <2>2, <2>3 DEF Apart
<1> QED  BY <1>5, <1>6, <1>7, <1>8 DEF LinkInv

LEMMA InitLinks == Init => LinkInv
<1> SUFFICES ASSUME Init PROVE LinkInv  OBVIOUS
<1>1. links = {} /\ \A h \in Slots : pc[h] = "idle" /\ add[h] = {} /\ todo[h] = {}
  BY DEF Init
<1>2. \A h \in Slots : Own(h)
  BY <1>1 DEF Own, EmptyInv, KnownInv, RemoveInv, PostInv, AskedInv, Removes, Holds, Writing, Linking
<1>3. \A g, h \in Slots : Apart(g, h)
  BY <1>1 DEF Apart, Holds, Writing
<1> QED  BY <1>1, <1>2, <1>3 DEF LinkInv, RefsInv

LEMMA NextLinks == IInv /\ LinkInv /\ [Next]_vars => LinkInv'
<1> SUFFICES ASSUME IInv, LinkInv, [Next]_vars PROVE LinkInv'  OBVIOUS
<1>0. TypeOK /\ RowInv  BY DEF IInv
<1>1. CASE Next
  <2>1. PICK h \in Slots :
          \/ \E q \in Asked, u \in Users : Arrive(h, q, u)
          \/ Locking(h) \/ Work(h) \/ Fail(h)
    BY <1>1 DEF Next
  <2>2. CASE \E q \in Asked, u \in Users : Arrive(h, q, u)  BY <1>0, <2>2, ArriveLinks
  <2>3. CASE Locking(h)  BY <1>0, <2>3, WriteLinks, UnlinkLinks, LinkLinks DEF Locking
  <2>4. CASE Work(h)
    BY <1>0, <2>4, FindLinks, RecordRevealLinks, RecordLinks, CommitLinks, RecordAgainLinks, AbortLinks
       DEF Work, RefuseWord, DeadlockAbort
  <2>5. CASE Fail(h)  BY <1>0, <2>5, AbortLinks DEF Fail
  <2> QED  BY <2>1, <2>2, <2>3, <2>4, <2>5
<1>2. CASE UNCHANGED vars
  BY <1>2 DEF vars, tables, LinkInv, RefsInv, Own, EmptyInv, Linking, KnownInv, Known, RemoveInv, PostInv,
              AskedInv, Apart, Holds, Removes, LinksOf
<1> QED  BY <1>1, <1>2

(* A PATCH leaves exactly the members it was asked for, where no other      *)
(* request has committed a change to them since it arrived.                 *)
THEOREM MembersLeft == Spec => MembersAsAsked
<1>1. Spec => []LinkInv  BY Invariance, InitLinks, NextLinks, PTL DEF Spec
<1>2. IInv /\ LinkInv /\ [Next]_vars =>
        [\A h \in Slots :
          Commit(h) /\ job[h].q.relink /\ job[h].q.on \notin raced[h] =>
              {l \in links' : job[h].q.on \in {l[1], l[2]}} = job[h].q.asked]_vars
  <2> SUFFICES ASSUME IInv, LinkInv, NEW h \in Slots, Commit(h),
                      job[h].q.relink, job[h].q.on \notin raced[h]
               PROVE  {l \in links' : job[h].q.on \in {l[1], l[2]}} = job[h].q.asked
    OBVIOUS
  <2> DEFINE q == job[h].q
  <2>1. /\ pc[h] = "recorded" /\ Shaped(q) /\ Own(h) /\ todo[h] = {}
        /\ links' = (links \ drop[h]) \cup add[h]
    BY JobSound DEF Commit, IInv, LinkInv, Own, EmptyInv, Linking
  <2>2. add[h] = q.asked /\ LinksOf(q.on) \subseteq drop[h]  BY <2>1 DEF Own, AskedInv, Linking
  <2>3. \A l \in q.asked : q.on \in {l[1], l[2]}  BY <2>1 DEF Shaped
  <2>4. \A l \in links \ drop[h] : q.on \notin {l[1], l[2]}  BY <2>2 DEF LinksOf
  <2> QED  BY <2>1, <2>2, <2>3, <2>4
<1> QED  BY <1>1, <1>2, Invariance, PTL DEF Spec, MembersAsAsked
=============================================================================
