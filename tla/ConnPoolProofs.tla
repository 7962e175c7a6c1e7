--------------------------- MODULE ConnPoolProofs ---------------------------
(***************************************************************************)
(* Theorems about ConnPool, for any pool and any number of requests.       *)
(*                                                                         *)
(* A step moves one user of the pool.  What has to be known of each is     *)
(* that it holds memory only after the change to the fallback, never while *)
(* it waits in PostgreSQL's line, and never under a PostgreSQL connection  *)
(* (Settled); of the process, that production never changes over and that  *)
(* no request is left once the pool is being ended.  The accounts of the   *)
(* pool relate the users to each other and to the line, and come last.     *)
(***************************************************************************)
EXTENDS ConnPool, TLAPS, SequenceTheorems

(* The part of TypeOK that a user's step is about.                         *)
UserTypes == /\ at \in [Users -> {"idle", "wait", "run", "unwind"}]
             /\ held \in [Users -> Seq(Conns \cup {Mem})]
             /\ left \in [Users -> Nat]
             /\ queue \in Seq(Users)

Settled(p) ==
    /\ \A i, j \in DOMAIN held[p] : i < j /\ held[p][i] = Mem => held[p][j] = Mem
    /\ Holds(p, Mem) => isUsingFallback /\ at[p] # "wait"

ModeInv == production => ~isUsingFallback
DrainInv == /\ life \in {"ending", "exited"} => \A r \in Requests : at[r] = "idle"
            /\ life = "exited" => \A c \in Conns : IsFree(c)

IInv == TypeOK /\ ModeInv /\ DrainInv /\ \A p \in Users : Settled(p)

(* What a step of p's does to everything but the process.                  *)
Moves(p) == /\ UserTypes' /\ isUsingFallback' \in BOOLEAN /\ ModeInv' /\ Settled(p)'
            /\ isUsingFallback => isUsingFallback'
            /\ \A q \in Users \ {p} : at'[q] = at[q] /\ held'[q] = held[q]

-----------------------------------------------------------------------------
(* The sequences of connections.                                           *)

LEMMA FrontKeeps ==
    ASSUME NEW S, NEW s \in Seq(S), s # <<>>
    PROVE  /\ Front(s) \in Seq(S)
           /\ DOMAIN Front(s) \subseteq DOMAIN s
           /\ \A i \in DOMAIN Front(s) : Front(s)[i] = s[i]
<1>1. Len(s) - 1 \in Nat /\ Len(s) - 1 <= Len(s)  OBVIOUS
<1>2. Front(s) = [i \in 1 .. Len(s) - 1 |-> s[i]]  BY <1>1 DEF Front
<1>3. \A i \in 1 .. Len(s) - 1 : s[i] \in S  BY <1>1
<1> QED  BY <1>1, <1>2, <1>3

LEMMA AppendKeeps ==
    ASSUME NEW S, NEW s \in Seq(S), NEW e \in S
    PROVE  /\ Append(s, e) \in Seq(S)
           /\ DOMAIN Append(s, e) = 1 .. Len(s) + 1
           /\ DOMAIN s = 1 .. Len(s) /\ Len(s) \in Nat
           /\ Append(s, e)[Len(s) + 1] = e
           /\ \A i \in DOMAIN s : Append(s, e)[i] = s[i]
OBVIOUS

LEMMA RemoveKeeps == ASSUME NEW S, NEW s \in Seq(S), NEW i \in DOMAIN s
                     PROVE  RemoveAt(s, i) \in Seq(S)
BY DEF RemoveAt

LEMMA LeavesKeeps == ASSUME UserTypes, NEW p \in Users, Leaves(p)
                     PROVE  queue' \in Seq(Users)
BY RemoveKeeps DEF UserTypes, Leaves

(* Memory goes on top of anything; a connection of the pool only on those  *)
(* of the pool.                                                            *)
LEMMA MemOnTop ==
    ASSUME UserTypes, NEW p \in Users, Settled(p), held' = [held EXCEPT ![p] = Append(@, Mem)],
           isUsingFallback', at'[p] = "run"
    PROVE  Settled(p)' /\ held' \in [Users -> Seq(Conns \cup {Mem})]
<1> DEFINE s == held[p]  t == Append(s, Mem)
<1>1. s \in Seq(Conns \cup {Mem})  BY DEF UserTypes
<1>2. /\ t \in Seq(Conns \cup {Mem}) /\ DOMAIN t = 1 .. Len(s) + 1
      /\ DOMAIN s = 1 .. Len(s) /\ Len(s) \in Nat
      /\ t[Len(s) + 1] = Mem /\ \A i \in DOMAIN s : t[i] = s[i]
  BY <1>1, AppendKeeps
<1>3. held'[p] = t  BY DEF UserTypes
<1> HIDE DEF t
<1>4. ASSUME NEW i \in DOMAIN t, NEW j \in DOMAIN t, i < j, t[i] = Mem  PROVE t[j] = Mem
  <2>1. CASE j = Len(s) + 1  BY <2>1, <1>2
  <2>2. CASE j # Len(s) + 1
    <3>1. i \in DOMAIN s /\ j \in DOMAIN s  BY <1>2, <1>4, <2>2
    <3> QED  BY <3>1, <1>2, <1>4 DEF Settled
  <2> QED  BY <2>1, <2>2
<1>5. Settled(p)'  BY <1>3, <1>4 DEF Settled
<1>6. held' \in [Users -> Seq(Conns \cup {Mem})]  BY <1>2 DEF UserTypes, t
<1> QED  BY <1>5, <1>6

LEMMA ConnOnTop ==
    ASSUME UserTypes, NEW p \in Users, ~Holds(p, Mem), NEW c \in Conns,
           held' = [held EXCEPT ![p] = Append(@, c)]
    PROVE  Settled(p)' /\ held' \in [Users -> Seq(Conns \cup {Mem})]
<1> DEFINE s == held[p]  t == Append(s, c)
<1>1. s \in Seq(Conns \cup {Mem})  BY DEF UserTypes
<1>2. /\ t \in Seq(Conns \cup {Mem}) /\ DOMAIN t = 1 .. Len(s) + 1
      /\ DOMAIN s = 1 .. Len(s) /\ Len(s) \in Nat
      /\ t[Len(s) + 1] = c /\ \A i \in DOMAIN s : t[i] = s[i]
  BY <1>1, AppendKeeps
<1>3. held'[p] = t  BY DEF UserTypes
<1> HIDE DEF t
<1>4. \A i \in DOMAIN t : t[i] # Mem
  <2> SUFFICES ASSUME NEW i \in DOMAIN t  PROVE t[i] # Mem  OBVIOUS
  <2>1. CASE i = Len(s) + 1  BY <2>1, <1>2, MemIsNoConn
  <2>2. CASE i # Len(s) + 1
    <3>1. i \in DOMAIN s  BY <1>2, <2>2
    <3> QED  BY <3>1, <1>2 DEF Holds
  <2> QED  BY <2>1, <2>2
<1>5. Settled(p)'  BY <1>3, <1>4 DEF Settled, Holds
<1>6. held' \in [Users -> Seq(Conns \cup {Mem})]  BY <1>2 DEF UserTypes, t
<1> QED  BY <1>5, <1>6

LEMMA Released ==
    ASSUME UserTypes, NEW p \in Users, Settled(p), held[p] # <<>>,
           held' = [held EXCEPT ![p] = Front(@)],
           isUsingFallback' = isUsingFallback, at'[p] # "wait"
    PROVE  Settled(p)' /\ held' \in [Users -> Seq(Conns \cup {Mem})]
<1> DEFINE s == held[p]  t == Front(s)
<1>1. s \in Seq(Conns \cup {Mem})  BY DEF UserTypes
<1>2. /\ t \in Seq(Conns \cup {Mem}) /\ DOMAIN t \subseteq DOMAIN s
      /\ \A i \in DOMAIN t : t[i] = s[i]
  BY <1>1, FrontKeeps
<1>3. held'[p] = t  BY DEF UserTypes
<1> HIDE DEF t
<1>4. Settled(p)'  BY <1>2, <1>3 DEF Settled, Holds
<1>5. held' \in [Users -> Seq(Conns \cup {Mem})]  BY <1>2 DEF UserTypes, t
<1> QED  BY <1>4, <1>5

-----------------------------------------------------------------------------
(* The steps of one user, as far as the pool is concerned.                 *)

LEMMA AsksMoves ==
    ASSUME UserTypes, ModeInv, NEW p \in Users, Settled(p), NEW n \in Nat, Asks(p, n),
           isUsingFallback \in BOOLEAN, UNCHANGED <<isUsingFallback, production>>
    PROVE  Moves(p)
<1>1. left' \in [Users -> Nat] /\ ModeInv' /\ isUsingFallback' \in BOOLEAN
  BY DEF Asks, UserTypes, ModeInv
<1>2. CASE isUsingFallback
  <2>1. at' = [at EXCEPT ![p] = "run"] /\ held' = [held EXCEPT ![p] = Append(@, Mem)] /\ queue' = queue
    BY <1>2 DEF Asks
  <2>2. at'[p] = "run"  BY <2>1 DEF UserTypes
  <2>3. Settled(p)' /\ held' \in [Users -> Seq(Conns \cup {Mem})]  BY <1>2, <2>1, <2>2, MemOnTop
  <2> QED  BY <1>1, <2>1, <2>3 DEF UserTypes, Moves
<1>3. CASE ~isUsingFallback
  <2>1. at' = [at EXCEPT ![p] = "wait"] /\ queue' = Append(queue, p) /\ held' = held
    BY <1>3 DEF Asks
  <2>2. queue' \in Seq(Users)  BY <2>1 DEF UserTypes
  <2>3. Settled(p)'  BY <1>3, <2>1 DEF Settled, Holds
  <2> QED  BY <1>1, <2>1, <2>2, <2>3 DEF UserTypes, Moves
<1> QED  BY <1>2, <1>3

LEMMA WorksMoves ==
    ASSUME UserTypes, ModeInv, isUsingFallback \in BOOLEAN, NEW p \in Users, Settled(p), Works(p)
    PROVE  Moves(p)
<1> USE DEF Works
<1>1. CASE Get(p)
  <2>1. /\ at' = [at EXCEPT ![p] = "run"] /\ held' = [held EXCEPT ![p] = Append(@, HandedOut)]
        /\ queue' = Tail(queue) /\ queue # <<>> /\ at[p] = "wait"
        /\ left' = left /\ isUsingFallback' = isUsingFallback
    BY <1>1 DEF Get
  <2>2. HandedOut \in Conns  BY <1>1 DEF Get, HandedOut
  <2>3. ~Holds(p, Mem)  BY <2>1 DEF Settled
  <2>4. Settled(p)' /\ held' \in [Users -> Seq(Conns \cup {Mem})]  BY <2>1, <2>2, <2>3, ConnOnTop
  <2>5. queue' \in Seq(Users)  BY <2>1 DEF UserTypes
  <2> QED  BY <2>1, <2>4, <2>5 DEF UserTypes, Moves, ModeInv
<1>2. CASE Denied(p)
  <2>1. at[p] = "wait" /\ Leaves(p) /\ left' = left  BY <1>2 DEF Denied
  <2>2. queue' \in Seq(Users)  BY <2>1, LeavesKeeps
  <2>3. CASE production
    <3>1. at' = [at EXCEPT ![p] = "unwind"] /\ held' = held /\ isUsingFallback' = isUsingFallback
      BY <1>2, <2>3 DEF Denied
    <3>2. Settled(p)'  BY <2>1, <3>1 DEF Settled, Holds
    <3> QED  BY <2>1, <2>2, <3>1, <3>2 DEF UserTypes, Moves, ModeInv
  <2>4. CASE ~production
    <3>1. /\ isUsingFallback' = TRUE /\ at' = [at EXCEPT ![p] = "run"]
          /\ held' = [held EXCEPT ![p] = Append(@, Mem)]
      BY <1>2, <2>4 DEF Denied
    <3>2. at'[p] = "run"  BY <3>1 DEF UserTypes
    <3>3. Settled(p)' /\ held' \in [Users -> Seq(Conns \cup {Mem})]  BY <3>1, <3>2, MemOnTop
    <3> QED  BY <2>1, <2>2, <2>4, <3>1, <3>3 DEF UserTypes, Moves, ModeInv
  <2> QED  BY <2>3, <2>4
<1>3. CASE Return(p)
  <2>1. /\ at[p] = "run" /\ held[p] # <<>> /\ held' = [held EXCEPT ![p] = Front(@)]
        /\ at' = at /\ left' = left /\ queue' = queue /\ isUsingFallback' = isUsingFallback
    BY <1>3 DEF Return
  <2>2. Settled(p)' /\ held' \in [Users -> Seq(Conns \cup {Mem})]  BY <2>1, Released
  <2> QED  BY <2>1, <2>2 DEF UserTypes, Moves, ModeInv
<1>4. CASE Fail(p)
  <2>1. /\ at' = [at EXCEPT ![p] = "unwind"] /\ held' = held
        /\ left' = left /\ queue' = queue /\ isUsingFallback' = isUsingFallback
    BY <1>4 DEF Fail
  <2>2. Settled(p)'  BY <2>1 DEF Settled, Holds, UserTypes
  <2> QED  BY <2>1, <2>2 DEF UserTypes, Moves, ModeInv
<1>5. CASE Unwind(p)
  <2>1. /\ at[p] = "unwind" /\ held[p] # <<>> /\ held' = [held EXCEPT ![p] = Front(@)]
        /\ left' = left /\ queue' = queue /\ isUsingFallback' = isUsingFallback
        /\ at' = at \/ at' = [at EXCEPT ![p] = "run"]
    BY <1>5 DEF Unwind
  <2>2. at'[p] # "wait" /\ at' \in [Users -> {"idle", "wait", "run", "unwind"}]  BY <2>1 DEF UserTypes
  <2>3. Settled(p)' /\ held' \in [Users -> Seq(Conns \cup {Mem})]  BY <2>1, <2>2, Released
  <2>4. \A q \in Users \ {p} : at'[q] = at[q] /\ held'[q] = held[q]  BY <2>1 DEF UserTypes
  <2> QED  BY <2>1, <2>2, <2>3, <2>4 DEF UserTypes, Moves, ModeInv
<1> QED  BY <1>1, <1>2, <1>3, <1>4, <1>5

(* A user goes on, or ends, with what it holds. *)
LEMMA StageMoves ==
    ASSUME UserTypes, ModeInv, isUsingFallback \in BOOLEAN, NEW p \in Users, Settled(p),
           NEW stage \in {"idle", "run"}, at' = [at EXCEPT ![p] = stage],
           left' \in [Users -> Nat], UNCHANGED <<held, queue, isUsingFallback, production>>
    PROVE  Moves(p)
<1>1. at'[p] # "wait"  BY DEF UserTypes
<1>2. Settled(p)'  BY <1>1 DEF Settled, Holds
<1> QED  BY <1>2 DEF UserTypes, Moves, ModeInv

LEMMA EndsMoves ==
    ASSUME UserTypes, ModeInv, isUsingFallback \in BOOLEAN, NEW p \in Users, Settled(p), Ends(p),
           production' = production
    PROVE  Moves(p)
<1>1. left' \in [Users -> Nat]  BY DEF Ends, UserTypes
<1> QED  BY <1>1, StageMoves DEF Ends

LEMMA HandlesMoves ==
    ASSUME UserTypes, ModeInv, isUsingFallback \in BOOLEAN, NEW r \in Requests, Settled(r), Handles(r)
    PROVE  Moves(r)
<1>1. r \in Users  BY DEF Users
<1>2. CASE AsksMore(r)
  <2>1. left[r] - 1 \in Nat  BY <1>1, <1>2 DEF AsksMore, UserTypes
  <2> QED  BY <1>1, <1>2, <2>1, AsksMoves DEF AsksMore, Handles
<1>3. CASE Ends(r)  BY <1>1, <1>3, EndsMoves DEF Handles
<1> QED  BY <1>2, <1>3 DEF Handles

LEMMA SweepMoves ==
    ASSUME UserTypes, ModeInv, isUsingFallback \in BOOLEAN, Settled(Janitor), Sweep,
           UNCHANGED <<isUsingFallback, production>>
    PROVE  Moves(Janitor)
<1>1. Janitor \in Users  BY DEF Users
<1> QED  BY <1>1, AsksMoves, BoundsAreCounts DEF Sweep

LEMMA SweepsMoves ==
    ASSUME UserTypes, ModeInv, isUsingFallback \in BOOLEAN, Settled(Janitor), Sweeps
    PROVE  Moves(Janitor)
<1>1. Janitor \in Users  BY DEF Users
<1>2. CASE NextTenant
  <2>1. left[Janitor] - 1 \in Nat  BY <1>1, <1>2 DEF NextTenant, UserTypes
  <2> QED  BY <1>1, <1>2, <2>1, AsksMoves DEF NextTenant, Sweeps
<1>3. CASE TenantFails
  BY <1>1, <1>3, StageMoves DEF TenantFails, Sweeps, UserTypes
<1>4. CASE ListingFails  BY <1>1, <1>4, EndsMoves DEF ListingFails, Sweeps
<1>5. CASE SweepEnds  BY <1>1, <1>5, EndsMoves DEF SweepEnds, Sweeps
<1> QED  BY <1>2, <1>3, <1>4, <1>5 DEF Sweeps

(* What the others have is left alone. *)
LEMMA OthersSettled ==
    ASSUME UserTypes, \A q \in Users : Settled(q), NEW p \in Users, Moves(p)
    PROVE  UserTypes' /\ ModeInv' /\ isUsingFallback' \in BOOLEAN /\ \A q \in Users : Settled(q)'
<1> SUFFICES ASSUME NEW q \in Users  PROVE Settled(q)'  BY DEF Moves
<1>1. CASE q = p  BY <1>1 DEF Moves
<1>2. CASE q # p
  <2>1. at'[q] = at[q] /\ held'[q] = held[q] /\ (isUsingFallback => isUsingFallback')  BY <1>2 DEF Moves
  <2> QED  BY <2>1 DEF Settled, Holds
<1> QED  BY <1>1, <1>2

-----------------------------------------------------------------------------
(* The invariant, and what follows of it.                                  *)

LEMMA InitInv == Init => IInv
<1> SUFFICES ASSUME Init PROVE IInv  OBVIOUS
<1>1. \A p \in Users : held[p] = <<>>  BY DEF Init
<1>2. \A p \in Users : Settled(p)  BY <1>1 DEF Settled, Holds
<1>3. ModeInv /\ DrainInv  BY DEF Init, ModeInv, DrainInv
<1>4. TypeOK
  <2>1. /\ at \in [Users -> {"idle", "wait", "run", "unwind"}] /\ left \in [Users -> Nat]
        /\ life \in Lives /\ isUsingFallback \in BOOLEAN /\ janitorRunning \in BOOLEAN
        /\ production \in BOOLEAN
    BY DEF Init, Lives
  <2>2. <<>> \in Seq(Conns \cup {Mem}) /\ <<>> \in Seq(Users)  OBVIOUS
  <2>3. queue \in Seq(Users)  BY <2>2 DEF Init
  <2>4. held \in [Users -> Seq(Conns \cup {Mem})]  BY <2>2 DEF Init
  <2> QED  BY <2>1, <2>3, <2>4 DEF TypeOK
<1> QED  BY <1>2, <1>3, <1>4 DEF IInv

(* The pool's part, for every step that is a user's.                       *)
LEMMA UserStep ==
    ASSUME IInv, NEW p \in Users, Moves(p), life' \in Lives, janitorRunning' \in BOOLEAN,
           production' = production, DrainInv'
    PROVE  IInv'
<1>1. UserTypes /\ \A q \in Users : Settled(q)  BY DEF IInv, TypeOK, UserTypes
<1>2. UserTypes' /\ ModeInv' /\ isUsingFallback' \in BOOLEAN /\ \A q \in Users : Settled(q)'
  BY <1>1, OthersSettled
<1> QED  BY <1>2 DEF IInv, TypeOK, UserTypes

LEMMA NextInv == IInv /\ [Next]_vars => IInv'
<1> SUFFICES ASSUME IInv, [Next]_vars PROVE IInv'  OBVIOUS
<1>0. /\ TypeOK /\ UserTypes /\ ModeInv /\ DrainInv /\ isUsingFallback \in BOOLEAN
      /\ \A p \in Users : Settled(p)
  BY DEF IInv, TypeOK, UserTypes
<1>J. Janitor \in Users /\ \A r \in Requests : r \in Users /\ r # Janitor
  BY JanitorIsNoRequest DEF Users
<1>S. ASSUME UNCHANGED <<isUsingFallback, janitorRunning, production, at, held, left, queue>>,
             life' \in Lives, DrainInv'
      PROVE  IInv'
  BY <1>0, <1>S DEF IInv, TypeOK, ModeInv, Settled, Holds
<1>1. CASE Start
  <2>1. CASE life' = "dead" /\ UNCHANGED <<isUsingFallback, janitorRunning, at, held, left, queue>>
    <3>1. production' = production  BY <1>1 DEF Start
    <3> QED  BY <1>S, <2>1, <3>1 DEF Lives, DrainInv
  <2>2. CASE life' = "sweeping" /\ isUsingFallback' = isUsingFallback /\ Sweep
    <3>1. production' = production  BY <1>1 DEF Start
    <3>2. Moves(Janitor)  BY <1>0, <1>J, <2>2, <3>1, SweepMoves
    <3>3. DrainInv' /\ janitorRunning' \in BOOLEAN /\ life' \in Lives
      BY <2>2 DEF DrainInv, Sweep, Lives
    <3> QED  BY <1>J, <3>1, <3>2, <3>3, UserStep
  <2> QED  BY <1>1, <2>1, <2>2 DEF Start
<1>2. CASE StartWithout
  <2>1. /\ ~production /\ isUsingFallback' = TRUE /\ life = "starting"
        /\ UNCHANGED <<life, production, janitorRunning, at, held, left, queue>>
    BY <1>2 DEF StartWithout
  <2>2. \A p \in Users : Settled(p)'  BY <1>0, <2>1 DEF Settled, Holds
  <2> QED  BY <1>0, <2>1, <2>2 DEF IInv, TypeOK, ModeInv, DrainInv
<1>3. CASE Listen
  <2>1. life' \in {"serving", "dead"}  BY <1>3 DEF Listen
  <2>2. DrainInv' /\ life' \in Lives  BY <2>1 DEF DrainInv, Lives
  <2> QED  BY <1>3, <1>S, <2>2 DEF Listen
<1>4. CASE Drained
  <2>1. life' = "ending" /\ \A r \in Requests : at'[r] = "idle"  BY <1>4 DEF Drained
  <2>2. DrainInv' /\ life' \in Lives  BY <2>1 DEF DrainInv, Lives
  <2> QED  BY <1>4, <1>S, <2>2 DEF Drained
<1>5. CASE Exit
  <2>1. life = "ending" /\ life' = "exited" /\ at' = at /\ held' = held /\ \A c \in Conns : IsFree(c)
    BY <1>5 DEF Exit
  <2>2. \A c \in Conns : IsFree(c)'  BY <2>1 DEF IsFree, Holds
  <2>3. DrainInv' /\ life' \in Lives  BY <1>0, <2>1, <2>2 DEF DrainInv, Lives
  <2> QED  BY <1>5, <1>S, <2>3 DEF Exit
<1>6. CASE Signal
  <2>1. life' \in {"closing", "dead"}  BY <1>6 DEF Signal
  <2>2. DrainInv' /\ life' \in Lives  BY <2>1 DEF DrainInv, Lives
  <2> QED  BY <1>6, <1>S, <2>2 DEF Signal
<1>7. CASE Tick
  <2>1. life = "serving" /\ Sweep /\ UNCHANGED <<life, production, isUsingFallback>>  BY <1>7 DEF Tick
  <2>2. Moves(Janitor)  BY <1>0, <1>J, <2>1, SweepMoves
  <2>3. DrainInv' /\ janitorRunning' \in BOOLEAN /\ life' \in Lives
    BY <2>1 DEF DrainInv, Sweep, Lives
  <2> QED  BY <1>J, <2>1, <2>2, <2>3, UserStep
<1>8. CASE Sweeps
  <2>1. Moves(Janitor)  BY <1>0, <1>J, <1>8, SweepsMoves
  <2>2. life' \in {life, "dead"} /\ janitorRunning' \in BOOLEAN
    BY <1>0, <1>8 DEF Sweeps, NextTenant, TenantFails, ListingFails, SweepEnds, TypeOK
  <2>3. life # "exited" /\ production' = production  BY <1>8 DEF Sweeps, Alive
  <2>4. \A r \in Requests : at'[r] = at[r]  BY <1>J, <2>1 DEF Moves
  <2>5. DrainInv'  BY <1>0, <2>2, <2>3, <2>4 DEF DrainInv
  <2>6. life' \in Lives  BY <1>0, <2>2 DEF TypeOK, Lives
  <2> QED  BY <1>J, <2>1, <2>2, <2>3, <2>5, <2>6, UserStep
<1>9. ASSUME NEW p \in Users, Works(p)  PROVE IInv'
  <2>1. Moves(p)  BY <1>0, <1>9, WorksMoves
  <2>2. /\ life # "exited" /\ UNCHANGED <<life, production, janitorRunning>>
        /\ at[p] # "idle"
    BY <1>9 DEF Works, Alive, Get, Denied, Return, Fail, Unwind
  <2>3. DrainInv'
    <3>1. CASE life = "ending"
      <4>1. p \notin Requests  BY <1>0, <2>2, <3>1 DEF DrainInv
      <4>2. \A r \in Requests : at'[r] = at[r]  BY <1>J, <2>1, <4>1 DEF Moves
      <4> QED  BY <1>0, <2>2, <3>1, <4>2 DEF DrainInv
    <3>2. CASE life # "ending"  BY <2>2, <3>2 DEF DrainInv
    <3> QED  BY <3>1, <3>2
  <2> QED  BY <1>0, <2>1, <2>2, <2>3, UserStep DEF TypeOK
<1>10. ASSUME NEW r \in Requests, Handles(r)  PROVE IInv'
  <2>1. Moves(r)  BY <1>0, <1>J, <1>10, HandlesMoves
  <2>2. /\ life # "exited" /\ UNCHANGED <<life, production, janitorRunning>>
        /\ at[r] # "idle"
    BY <1>10 DEF Handles, Alive, AsksMore, Ends
  <2>3. DrainInv'  BY <1>0, <2>2 DEF DrainInv
  <2> QED  BY <1>0, <1>J, <2>1, <2>2, <2>3, UserStep DEF TypeOK
<1>11. ASSUME NEW r \in Requests, Arrive(r), UNCHANGED <<life, production, janitorRunning>>  PROVE IInv'
  <2>1. PICK n \in 0 .. MaxAsks - 1 : Asks(r, n)  BY <1>11 DEF Arrive
  <2>2. n \in Nat  BY <2>1, BoundsAreCounts
  <2>3. life = "serving" /\ isUsingFallback' = isUsingFallback  BY <1>11 DEF Arrive
  <2>4. Moves(r)  BY <1>0, <1>J, <1>11, <2>1, <2>2, <2>3, AsksMoves
  <2>5. DrainInv'  BY <1>11, <2>3 DEF DrainInv
  <2> QED  BY <1>0, <1>J, <1>11, <2>4, <2>5, UserStep DEF TypeOK
<1>12. CASE UNCHANGED vars
  <2>1. DrainInv'  BY <1>0, <1>12 DEF DrainInv, vars, IsFree, Holds
  <2> QED  BY <1>0, <1>12, <1>S, <2>1 DEF vars, TypeOK
<1> QED  BY <1>1, <1>2, <1>3, <1>4, <1>5, <1>6, <1>7, <1>8, <1>9, <1>10, <1>11, <1>12 DEF Next, Process

THEOREM Invariance == Spec => []IInv
<1> QED  BY InitInv, NextInv, PTL DEF Spec

(* Every variable of the pool and the process has its type.                *)
THEOREM TypeCorrect == Spec => []TypeOK
<1>1. IInv => TypeOK  BY DEF IInv
<1> QED  BY <1>1, Invariance, PTL

(* Production stays on PostgreSQL (db.ts:149), and what began in memory    *)
(* never nests a PostgreSQL transaction (db.ts:141, 153).                  *)
THEOREM OneDatabaseHolds == Spec => []OneDatabase
<1>1. IInv => OneDatabase  BY DEF IInv, OneDatabase, Settled, ModeInv
<1> QED  BY <1>1, Invariance, PTL

(* exit(0) is reached with every request answered and every connection     *)
(* given back (main.ts:57-60).                                             *)
THEOREM ExitIsCleanHolds == Spec => []ExitIsClean
<1>1. IInv => ExitIsClean  BY DEF IInv, ExitIsClean, DrainInv
<1> QED  BY <1>1, Invariance, PTL
-----------------------------------------------------------------------------
(* The accounts of the pool.                                               *)

In(s, x) == \E i \in DOMAIN s : s[i] = x
Once(s) == \A i, j \in DOMAIN s : s[i] = s[j] => i = j

LEMMA Joined ==
    ASSUME NEW S, NEW s \in Seq(S), NEW e \in S, Once(s), ~In(s, e)
    PROVE  Once(Append(s, e)) /\ \A x : In(Append(s, e), x) <=> In(s, x) \/ x = e
<1> DEFINE t == Append(s, e)
<1>1. /\ DOMAIN t = 1 .. Len(s) + 1 /\ DOMAIN s = 1 .. Len(s) /\ Len(s) \in Nat
      /\ t[Len(s) + 1] = e /\ \A i \in DOMAIN s : t[i] = s[i]
  BY AppendKeeps
<1> HIDE DEF t
<1>2. \A i \in DOMAIN t : i = Len(s) + 1 \/ i \in DOMAIN s  BY <1>1
<1>3. Once(t)  BY <1>1, <1>2 DEF Once, In
<1>4. \A x : In(t, x) <=> In(s, x) \/ x = e  BY <1>1, <1>2 DEF In
<1> QED  BY <1>3, <1>4 DEF t

(* r is s without its i-th element. *)
Without(r, s, i) == /\ Len(r) \in Nat /\ Len(r) = Len(s) - 1 /\ DOMAIN r = 1 .. Len(r)
                    /\ \A k \in DOMAIN r : r[k] = IF k < i THEN s[k] ELSE s[k + 1]

LEMMA Left ==
    ASSUME NEW S, NEW s \in Seq(S), NEW i \in DOMAIN s, NEW r, Without(r, s, i), Once(s)
    PROVE  Once(r) /\ \A x : In(r, x) <=> In(s, x) /\ x # s[i]
<1> DEFINE From(k) == IF k < i THEN k ELSE k + 1
<1>1. /\ DOMAIN s = 1 .. Len(s) /\ Len(s) \in Nat /\ i \in 1 .. Len(s)
      /\ DOMAIN r = 1 .. Len(s) - 1
  BY DEF Without
<1>2. \A k \in DOMAIN r : From(k) \in DOMAIN s /\ From(k) # i /\ r[k] = s[From(k)]
  BY <1>1 DEF Without
<1>3. \A k, l \in DOMAIN r : From(k) = From(l) => k = l  BY <1>1
<1>4. \A m \in DOMAIN s : m # i => \E k \in DOMAIN r : From(k) = m
  <2> SUFFICES ASSUME NEW m \in DOMAIN s, m # i  PROVE \E k \in DOMAIN r : From(k) = m  OBVIOUS
  <2>1. CASE m < i  <3>1. m \in DOMAIN r /\ From(m) = m  BY <1>1, <2>1  <3> QED  BY <3>1
  <2>2. CASE m > i  <3>1. m - 1 \in DOMAIN r /\ From(m - 1) = m  BY <1>1, <2>2  <3> QED  BY <3>1
  <2> QED  BY <1>1, <2>1, <2>2
<1> HIDE DEF From
<1>5. Once(r)  BY <1>2, <1>3 DEF Once
<1>6. \A x : In(r, x) <=> In(s, x) /\ x # s[i]
  <2> SUFFICES ASSUME NEW x  PROVE In(r, x) <=> In(s, x) /\ x # s[i]  OBVIOUS
  <2>1. In(r, x) => In(s, x) /\ x # s[i]  BY <1>2 DEF In, Once
  <2>2. In(s, x) /\ x # s[i] => In(r, x)  BY <1>2, <1>4 DEF In
  <2> QED  BY <2>1, <2>2
<1> QED  BY <1>5, <1>6

LEMMA TailIsWithout == ASSUME NEW S, NEW s \in Seq(S), s # <<>>
                       PROVE  1 \in DOMAIN s /\ s[1] = Head(s) /\ Without(Tail(s), s, 1)
BY DEF Without

LEMMA RemoveIsWithout == ASSUME NEW S, NEW s \in Seq(S), NEW i \in DOMAIN s
                         PROVE  Without(RemoveAt(s, i), s, i)
<1> DEFINE a == SubSeq(s, 1, i - 1)  b == SubSeq(s, i + 1, Len(s))
<1>1. i \in 1 .. Len(s) /\ Len(s) \in Nat /\ i - 1 \in Nat /\ Len(s) - i \in Nat  OBVIOUS
<1>2. a \in Seq(S) /\ Len(a) = i - 1 /\ \A k \in 1 .. i - 1 : a[k] = s[k]  BY <1>1
<1>3. b \in Seq(S) /\ Len(b) = Len(s) - i /\ \A k \in 1 .. Len(s) - i : b[k] = s[i + k]  BY <1>1
<1> HIDE DEF a, b
<1>l. Len(a) = i - 1 /\ Len(b) = Len(s) - i  BY <1>2, <1>3
<1> DEFINE r == a \o b
<1>4. r \in Seq(S) /\ Len(r) = Len(s) - 1  BY <1>1, <1>2, <1>3
<1>5. DOMAIN r = 1 .. Len(r) /\ Len(r) \in Nat  BY <1>4
<1>6. \A k \in 1 .. Len(a) + Len(b) : r[k] = IF k <= Len(a) THEN a[k] ELSE b[k - Len(a)]
  BY <1>2, <1>3, ConcatProperties
<1> HIDE DEF r
<1>7. ASSUME NEW k \in DOMAIN r  PROVE r[k] = IF k < i THEN s[k] ELSE s[k + 1]
  <2>1. k \in 1 .. Len(s) - 1  BY <1>4, <1>5
  <2>2. CASE k < i
    <3>1. k \in 1 .. i - 1 /\ k \in 1 .. Len(a) + Len(b) /\ k <= Len(a)
      BY <1>1, <1>2, <1>3, <2>1, <2>2
    <3>2. r[k] = a[k] /\ a[k] = s[k]  BY <1>2, <1>6, <3>1
    <3> QED  BY <2>2, <3>2
  <2>3. CASE ~(k < i)
    <3>1. /\ k - (i - 1) \in 1 .. Len(s) - i /\ i + (k - (i - 1)) = k + 1
          /\ k \in 1 .. Len(a) + Len(b) /\ ~(k <= Len(a)) /\ Len(a) = i - 1
      <4> k \in Nat /\ i \in Nat /\ Len(s) \in Nat /\ i <= Len(s)  BY <1>1, <2>1
      <4>1. k \in 1 .. Len(a) + Len(b) /\ ~(k <= Len(a)) /\ Len(a) = i - 1  BY <1>l, <2>1, <2>3
      <4>2. k - (i - 1) \in 1 .. Len(s) - i  BY <2>1, <2>3
      <4>3. i + (k - (i - 1)) = k + 1  OBVIOUS
      <4> QED  BY <4>1, <4>2, <4>3
    <3>2. r[k] = b[k - (i - 1)]  BY <1>6, <3>1
    <3>3. b[k - (i - 1)] = s[i + (k - (i - 1))]  BY <1>3, <3>1
    <3> QED  BY <2>3, <3>1, <3>2, <3>3
  <2> QED  BY <2>2, <2>3
<1>8. Without(r, s, i)  BY <1>4, <1>5, <1>7 DEF Without
<1>9. RemoveAt(s, i) = r  BY DEF RemoveAt, r, a, b
<1> QED  BY <1>8, <1>9

(* The line. *)
LEMMA LineJoined ==
    ASSUME UserTypes, InLine, NEW p \in Users, at[p] # "wait",
           at' = [at EXCEPT ![p] = "wait"], queue' = Append(queue, p)
    PROVE  InLine'
<1>1. Once(queue) /\ \A q \in Users : at[q] = "wait" <=> In(queue, q)  BY DEF InLine, Once, In
<1>2. queue \in Seq(Users) /\ ~In(queue, p)  BY <1>1 DEF UserTypes
<1>3. Once(queue') /\ \A x : In(queue', x) <=> In(queue, x) \/ x = p  BY <1>1, <1>2, Joined
<1>4. \A q \in Users : at'[q] = IF q = p THEN "wait" ELSE at[q]  BY DEF UserTypes
<1>5. \A q \in Users : at'[q] = "wait" <=> In(queue', q)  BY <1>1, <1>3, <1>4
<1> QED  BY <1>3, <1>5, Zenon DEF InLine, Once, In

LEMMA LineLeft ==
    ASSUME UserTypes, InLine, NEW p \in Users, NEW st, st # "wait",
           at' = [at EXCEPT ![p] = st], NEW i \in DOMAIN queue, queue[i] = p,
           Without(queue', queue, i)
    PROVE  InLine'
<1>1. Once(queue) /\ \A q \in Users : at[q] = "wait" <=> In(queue, q)  BY DEF InLine, Once, In
<1>2. queue \in Seq(Users)  BY DEF UserTypes
<1>3. Once(queue') /\ \A x : In(queue', x) <=> In(queue, x) /\ x # p  BY <1>1, <1>2, Left
<1>4. \A q \in Users : at'[q] = IF q = p THEN st ELSE at[q]  BY DEF UserTypes
<1>5. \A q \in Users : at'[q] = "wait" <=> In(queue', q)  BY <1>1, <1>3, <1>4
<1> QED  BY <1>3, <1>5, Zenon DEF InLine, Once, In

LEMMA LineKept ==
    ASSUME UserTypes, InLine, NEW p \in Users, NEW st, st # "wait", at[p] # "wait",
           at' = [at EXCEPT ![p] = st], queue' = queue
    PROVE  InLine'
<1>1. \A q \in Users : at'[q] = IF q = p THEN st ELSE at[q]  BY DEF UserTypes
<1> QED  BY <1>1 DEF InLine

(* The connections lent. *)
LEMMA LentMore ==
    ASSUME UserTypes, LentOnce, NEW p \in Users, NEW c \in Conns \cup {Mem}, c = Mem \/ IsFree(c),
           held' = [held EXCEPT ![p] = Append(@, c)]
    PROVE  LentOnce'
<1> DEFINE s == held[p]  t == Append(s, c)
<1>1. s \in Seq(Conns \cup {Mem})  BY DEF UserTypes
<1>2. /\ DOMAIN t = 1 .. Len(s) + 1 /\ DOMAIN s = 1 .. Len(s) /\ Len(s) \in Nat
      /\ t[Len(s) + 1] = c /\ \A i \in DOMAIN s : t[i] = s[i]
  BY <1>1, AppendKeeps
<1>3. \A q \in Users : held'[q] = IF q = p THEN t ELSE held[q]  BY DEF UserTypes
<1> HIDE DEF t
<1>4. ASSUME NEW q \in Users, NEW i \in DOMAIN held'[q]
      PROVE  \/ i \in DOMAIN held[q] /\ held'[q][i] = held[q][i]
             \/ q = p /\ i = Len(s) + 1 /\ held'[q][i] = c
  BY <1>2, <1>3
<1>5. ASSUME c # Mem, NEW q \in Users, NEW i \in DOMAIN held[q]  PROVE held[q][i] # c
  BY <1>5 DEF IsFree, Holds
<1>6. ASSUME NEW q \in Users, NEW r \in Users, NEW i \in DOMAIN held'[q], NEW j \in DOMAIN held'[r],
             held'[q][i] = held'[r][j], held'[q][i] # Mem
      PROVE  q = r /\ i = j
  <2>1. CASE i \in DOMAIN held[q] /\ held'[q][i] = held[q][i]
    <3>1. CASE j \in DOMAIN held[r] /\ held'[r][j] = held[r][j]  BY <1>6, <2>1, <3>1 DEF LentOnce
    <3>2. CASE held'[r][j] = c  BY <1>5, <1>6, <2>1, <3>2
    <3> QED  BY <1>4, <3>1, <3>2
  <2>2. CASE q = p /\ i = Len(s) + 1 /\ held'[q][i] = c
    <3>1. CASE j \in DOMAIN held[r] /\ held'[r][j] = held[r][j]  BY <1>5, <1>6, <2>2, <3>1
    <3>2. CASE r = p /\ j = Len(s) + 1  BY <2>2, <3>2
    <3> QED  BY <1>4, <3>1, <3>2
  <2> QED  BY <1>4, <2>1, <2>2
<1> QED  BY <1>6 DEF LentOnce

LEMMA LentLess ==
    ASSUME UserTypes, LentOnce, NEW p \in Users, held[p] # <<>>,
           held' = [held EXCEPT ![p] = Front(@)]
    PROVE  LentOnce'
<1> DEFINE s == held[p]  t == Front(s)
<1>1. s \in Seq(Conns \cup {Mem})  BY DEF UserTypes
<1>2. DOMAIN t \subseteq DOMAIN s /\ \A i \in DOMAIN t : t[i] = s[i]  BY <1>1, FrontKeeps
<1>3. \A q \in Users : held'[q] = IF q = p THEN t ELSE held[q]  BY DEF UserTypes
<1> HIDE DEF t
<1>4. \A q \in Users : \A i \in DOMAIN held'[q] : i \in DOMAIN held[q] /\ held'[q][i] = held[q][i]
  BY <1>2, <1>3
<1> QED  BY <1>4 DEF LentOnce

LEMMA BackKept ==
    ASSUME GivenBack, NEW p \in Users, Moves(p), at'[p] = "idle" => held'[p] = <<>>
    PROVE  GivenBack'
BY DEF GivenBack, Moves

-----------------------------------------------------------------------------
(* The accounts are kept by each step. *)

LEMMA AsksAccounts ==
    ASSUME UserTypes, Accounted, NEW p \in Users, at[p] # "wait", NEW n, Asks(p, n), Moves(p)
    PROVE  Accounted'
<1>1. CASE isUsingFallback
  <2>1. /\ at' = [at EXCEPT ![p] = "run"] /\ held' = [held EXCEPT ![p] = Append(@, Mem)]
        /\ queue' = queue
    BY <1>1 DEF Asks
  <2>2. InLine'  BY <2>1, LineKept DEF Accounted
  <2>3. LentOnce'  BY <2>1, LentMore DEF Accounted
  <2>4. at'[p] # "idle"  BY <2>1 DEF UserTypes
  <2> QED  BY <2>2, <2>3, <2>4, BackKept DEF Accounted
<1>2. CASE ~isUsingFallback
  <2>1. at' = [at EXCEPT ![p] = "wait"] /\ queue' = Append(queue, p) /\ held' = held
    BY <1>2 DEF Asks
  <2>2. InLine'  BY <2>1, LineJoined DEF Accounted
  <2>3. LentOnce'  BY <2>1 DEF Accounted, LentOnce
  <2>4. at'[p] # "idle"  BY <2>1 DEF UserTypes
  <2> QED  BY <2>2, <2>3, <2>4, BackKept DEF Accounted
<1> QED  BY <1>1, <1>2

LEMMA WorksAccounts ==
    ASSUME UserTypes, Accounted, NEW p \in Users, Works(p), Moves(p)
    PROVE  Accounted'
<1> USE DEF Works
<1>0. queue \in Seq(Users)  BY DEF UserTypes
<1>1. CASE Get(p)
  <2>1. /\ at' = [at EXCEPT ![p] = "run"] /\ held' = [held EXCEPT ![p] = Append(@, HandedOut)]
        /\ queue' = Tail(queue) /\ queue # <<>> /\ Head(queue) = p
    BY <1>1 DEF Get
  <2>2. HandedOut \in Conns /\ IsFree(HandedOut)
    <3>1. PICK c \in Conns : IsFree(c)  BY <1>1 DEF Get
    <3> QED  BY <3>1 DEF HandedOut
  <2>3. LentOnce'  BY <2>1, <2>2, LentMore DEF Accounted
  <2>4. 1 \in DOMAIN queue /\ queue[1] = p /\ Without(queue', queue, 1)
    BY <1>0, <2>1, TailIsWithout
  <2>5. InLine'  BY <2>1, <2>4, LineLeft DEF Accounted
  <2>6. at'[p] # "idle"  BY <2>1 DEF UserTypes
  <2> QED  BY <2>3, <2>5, <2>6, BackKept DEF Accounted
<1>2. CASE Denied(p)
  <2>1. PICK i \in DOMAIN queue : queue[i] = p /\ queue' = RemoveAt(queue, i)
    BY <1>2 DEF Denied, Leaves
  <2>2. Without(queue', queue, i)  BY <1>0, <2>1, RemoveIsWithout
  <2>3. CASE production
    <3>1. at' = [at EXCEPT ![p] = "unwind"] /\ held' = held  BY <1>2, <2>3 DEF Denied
    <3>2. InLine'  BY <2>1, <2>2, <3>1, LineLeft DEF Accounted
    <3>3. LentOnce'  BY <3>1 DEF Accounted, LentOnce
    <3>4. at'[p] # "idle"  BY <3>1 DEF UserTypes
    <3> QED  BY <3>2, <3>3, <3>4, BackKept DEF Accounted
  <2>4. CASE ~production
    <3>1. at' = [at EXCEPT ![p] = "run"] /\ held' = [held EXCEPT ![p] = Append(@, Mem)]
      BY <1>2, <2>4 DEF Denied
    <3>2. InLine'  BY <2>1, <2>2, <3>1, LineLeft DEF Accounted
    <3>3. LentOnce'  BY <3>1, LentMore DEF Accounted
    <3>4. at'[p] # "idle"  BY <3>1 DEF UserTypes
    <3> QED  BY <3>2, <3>3, <3>4, BackKept DEF Accounted
  <2> QED  BY <2>3, <2>4
<1>3. CASE Return(p) \/ Unwind(p)
  <2>1. /\ held[p] # <<>> /\ held' = [held EXCEPT ![p] = Front(@)] /\ queue' = queue
        /\ at[p] \in {"run", "unwind"}
        /\ at' = at \/ at' = [at EXCEPT ![p] = "run"]
    BY <1>3 DEF Return, Unwind
  <2>2. LentOnce'  BY <2>1, LentLess DEF Accounted
  <2>3. PICK st \in {"run", "unwind"} : at' = [at EXCEPT ![p] = st]
    <3>1. at = [at EXCEPT ![p] = at[p]]  BY DEF UserTypes
    <3> QED  BY <2>1, <3>1, Zenon
  <2>4. InLine'  BY <2>1, <2>3, LineKept DEF Accounted
  <2>5. at'[p] # "idle"  BY <2>3 DEF UserTypes
  <2> QED  BY <2>2, <2>4, <2>5, BackKept DEF Accounted
<1>4. CASE Fail(p)
  <2>1. at[p] = "run" /\ at' = [at EXCEPT ![p] = "unwind"] /\ held' = held /\ queue' = queue
    BY <1>4 DEF Fail
  <2>2. LentOnce'  BY <2>1 DEF Accounted, LentOnce
  <2>3. InLine'  BY <2>1, LineKept DEF Accounted
  <2>4. at'[p] # "idle"  BY <2>1 DEF UserTypes
  <2> QED  BY <2>2, <2>3, <2>4, BackKept DEF Accounted
<1> QED  BY <1>1, <1>2, <1>3, <1>4

(* A user that holds nothing goes on, or ends. *)
LEMMA StageAccounts ==
    ASSUME UserTypes, Accounted, NEW p \in Users, NEW st \in {"idle", "run"}, held[p] = <<>>,
           at[p] \in {"run", "unwind"}, at' = [at EXCEPT ![p] = st], UNCHANGED <<held, queue>>, Moves(p)
    PROVE  Accounted'
<1>1. LentOnce'  BY DEF Accounted, LentOnce
<1>2. InLine'  BY LineKept DEF Accounted
<1> QED  BY <1>1, <1>2, BackKept DEF Accounted

LEMMA AccountsInit == Init => Accounted
<1> SUFFICES ASSUME Init PROVE Accounted  OBVIOUS
<1>1. queue = <<>> /\ \A p \in Users : held[p] = <<>> /\ at[p] = "idle"  BY DEF Init
<1>2. LentOnce  BY <1>1 DEF LentOnce
<1>3. InLine  BY <1>1 DEF InLine
<1> QED  BY <1>1, <1>2, <1>3 DEF Accounted, GivenBack

LEMMA AccountsStep == IInv /\ Accounted /\ [Next]_vars => Accounted'
<1> SUFFICES ASSUME IInv, Accounted, [Next]_vars PROVE Accounted'  OBVIOUS
<1>0. UserTypes /\ ModeInv /\ isUsingFallback \in BOOLEAN /\ \A p \in Users : Settled(p)
  BY DEF IInv, TypeOK, UserTypes
<1>J. Janitor \in Users /\ \A r \in Requests : r \in Users  BY DEF Users
<1>S. ASSUME UNCHANGED <<at, held, queue>>  PROVE Accounted'
  <2>1. LentOnce' /\ InLine' /\ GivenBack'  BY <1>S DEF Accounted, LentOnce, InLine, GivenBack
  <2> QED  BY <2>1 DEF Accounted
<1>B. ASSUME Sweep, UNCHANGED <<isUsingFallback, production>>  PROVE Accounted'
  <2>1. Moves(Janitor)  BY <1>0, <1>J, <1>B, SweepMoves
  <2>2. at[Janitor] # "wait" /\ Asks(Janitor, MaxTenants)  BY <1>B DEF Sweep
  <2> QED  BY <1>0, <1>J, <2>1, <2>2, AsksAccounts
<1>1. CASE Start
  <2>1. CASE UNCHANGED <<at, held, queue>>  BY <1>S, <2>1
  <2>2. CASE Sweep /\ UNCHANGED <<isUsingFallback, production>>  BY <1>B, <2>2
  <2> QED  BY <1>1, <2>1, <2>2 DEF Start
<1>2. CASE StartWithout \/ Listen \/ Drained \/ Exit \/ Signal
  BY <1>2, <1>S DEF StartWithout, Listen, Drained, Exit, Signal
<1>3. CASE Tick  BY <1>3, <1>B DEF Tick
<1>4. CASE Sweeps
  <2>1. Moves(Janitor)  BY <1>0, <1>J, <1>4, SweepsMoves
  <2>2. CASE NextTenant
    <3>1. at[Janitor] # "wait" /\ Asks(Janitor, left[Janitor] - 1)  BY <2>2 DEF NextTenant
    <3> QED  BY <1>0, <1>J, <2>1, <3>1, AsksAccounts
  <2>3. CASE TenantFails
    <3>1. /\ at[Janitor] = "unwind" /\ held[Janitor] = <<>>
          /\ at' = [at EXCEPT ![Janitor] = "run"] /\ UNCHANGED <<held, queue>>
      BY <2>3 DEF TenantFails
    <3> QED  BY <1>0, <1>J, <2>1, <3>1, StageAccounts
  <2>4. CASE ListingFails \/ SweepEnds
    <3>1. /\ at[Janitor] \in {"run", "unwind"} /\ held[Janitor] = <<>>
          /\ at' = [at EXCEPT ![Janitor] = "idle"] /\ UNCHANGED <<held, queue>>
      BY <2>4 DEF ListingFails, SweepEnds, Ends
    <3> QED  BY <1>0, <1>J, <2>1, <3>1, StageAccounts
  <2> QED  BY <1>4, <2>2, <2>3, <2>4 DEF Sweeps
<1>5. ASSUME NEW p \in Users, Works(p)  PROVE Accounted'
  BY <1>0, <1>5, WorksMoves, WorksAccounts
<1>6. ASSUME NEW r \in Requests, Handles(r)  PROVE Accounted'
  <2>1. Moves(r)  BY <1>0, <1>J, <1>6, HandlesMoves
  <2>2. CASE AsksMore(r)
    <3>1. at[r] # "wait" /\ Asks(r, left[r] - 1)  BY <2>2 DEF AsksMore
    <3> QED  BY <1>0, <1>J, <2>1, <3>1, AsksAccounts
  <2>3. CASE Ends(r)
    <3>1. /\ at[r] \in {"run", "unwind"} /\ held[r] = <<>>
          /\ at' = [at EXCEPT ![r] = "idle"] /\ UNCHANGED <<held, queue>>
      BY <2>3 DEF Ends
    <3> QED  BY <1>0, <1>J, <2>1, <3>1, StageAccounts
  <2> QED  BY <1>6, <2>2, <2>3 DEF Handles
<1>7. ASSUME NEW r \in Requests, Arrive(r), UNCHANGED <<life, production, janitorRunning>>
      PROVE  Accounted'
  <2>1. PICK n \in 0 .. MaxAsks - 1 : Asks(r, n)  BY <1>7 DEF Arrive
  <2>2. n \in Nat /\ at[r] # "wait" /\ isUsingFallback' = isUsingFallback
    BY <1>7, <2>1, BoundsAreCounts DEF Arrive
  <2>3. Moves(r)  BY <1>0, <1>J, <1>7, <2>1, <2>2, AsksMoves
  <2> QED  BY <1>0, <1>J, <2>1, <2>2, <2>3, AsksAccounts
<1>8. CASE UNCHANGED vars  BY <1>8, <1>S DEF vars
<1> QED  BY <1>1, <1>2, <1>3, <1>4, <1>5, <1>6, <1>7, <1>8 DEF Next, Process

(* No connection is lost or lent twice, and nobody waits without a place   *)
(* in the line, whatever times out, fails or falls back, at any depth of   *)
(* nesting (db.ts:160-180).                                                *)
THEOREM AccountsHold == Spec => []Accounted
<1> QED  BY InitInv, NextInv, AccountsInit, AccountsStep, PTL DEF Spec
=============================================================================
