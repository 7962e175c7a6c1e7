------------------------------ MODULE ConnPool ------------------------------
(***************************************************************************)
(* The API process (main.ts) and the pool of connections that everything   *)
(* in it shares (db.ts).  A handler holds one connection in withTenant()   *)
(* while audit(), generateDek() and getDek() ask for others: each has to   *)
(* be had before those around it are given back.  A connection that cannot *)
(* be had in time is an error, in production; in development it moves the  *)
(* process to an in-memory database for good.  The janitor sweeps on the   *)
(* same pool, and a signal drains the process.                             *)
(*                                                                         *)
(* Bounds: MaxAsks is how often one handler asks for a connection, and     *)
(* MaxTenants how many tenants a sweep visits.  Requests come for ever.    *)
(***************************************************************************)
EXTENDS Naturals, Sequences, SequencesExt

CONSTANTS Requests,   \* the requests that can be in flight at once
          Janitor,    \* the sweep that runs every thirty seconds
          Conns,      \* the connections of the pool, PG_POOL_MAX of them
          Mem,        \* any connection of the in-memory database
          MaxAsks, MaxTenants

ASSUME JanitorIsNoRequest == Janitor \notin Requests
ASSUME MemIsNoConn == Mem \notin Conns
ASSUME BoundsAreCounts == MaxAsks \in Nat \ {0} /\ MaxTenants \in Nat

VARIABLES life,            \* of the process
          production,      \* NODE_ENV
          isUsingFallback,
          janitorRunning,
          at,              \* what a request or the janitor is doing
          held,            \* the connections it holds, the innermost last
          left,            \* how often it will still ask for one
          queue            \* who waits for a connection, in order

vars == <<life, production, isUsingFallback, janitorRunning, at, held, left, queue>>

Users == Requests \cup {Janitor}
Lives == {"starting", "sweeping", "serving", "closing", "ending", "exited", "dead"}
Alive == life \in {"sweeping", "serving", "closing", "ending"}

Holds(p, c) == \E i \in DOMAIN held[p] : held[p][i] = c
IsFree(c) == \A p \in Users : ~Holds(p, c)
(* The pool hands out the same idle connection whoever asks. *)
HandedOut == CHOOSE c \in Conns : IsFree(c)

Init == /\ life = "starting" /\ production \in BOOLEAN
        /\ isUsingFallback = FALSE /\ janitorRunning = FALSE
        /\ at = [p \in Users |-> "idle"] /\ held = [p \in Users |-> <<>>]
        /\ left = [p \in Users |-> 0] /\ queue = <<>>

-----------------------------------------------------------------------------
(* pool.connect() and pool.query(): on PostgreSQL, who asks waits in line. *)

Asks(p, n) ==
    /\ left' = [left EXCEPT ![p] = n]
    /\ IF isUsingFallback
       THEN /\ at' = [at EXCEPT ![p] = "run"]
            /\ held' = [held EXCEPT ![p] = Append(@, Mem)]
            /\ UNCHANGED queue
       ELSE /\ at' = [at EXCEPT ![p] = "wait"]
            /\ queue' = Append(queue, p)
            /\ UNCHANGED held

Get(p) == /\ at[p] = "wait" /\ queue # <<>> /\ Head(queue) = p /\ life # "ending"
          /\ \E c \in Conns : IsFree(c)
          /\ at' = [at EXCEPT ![p] = "run"]
          /\ held' = [held EXCEPT ![p] = Append(@, HandedOut)]
          /\ queue' = Tail(queue)
          /\ UNCHANGED <<left, isUsingFallback>>

Leaves(p) == \E i \in DOMAIN queue : queue[i] = p /\ queue' = RemoveAt(queue, i)

(* Fault: waiting has no end, and only a refused connection is an error. *)
NeverTimesOut(p) ==
    /\ at[p] = "wait" /\ \E c \in Conns : IsFree(c)
    /\ Leaves(p)
    /\ IF production
       THEN at' = [at EXCEPT ![p] = "unwind"] /\ UNCHANGED <<held, isUsingFallback>>
       ELSE /\ isUsingFallback' = TRUE
            /\ at' = [at EXCEPT ![p] = "run"] /\ held' = [held EXCEPT ![p] = Append(@, Mem)]
    /\ UNCHANGED left
(* Fault: PostgreSQL is tried again by the next who asks. *)
TriesAgain(p) ==
    /\ at[p] = "wait"
    /\ Leaves(p)
    /\ IF production
       THEN at' = [at EXCEPT ![p] = "unwind"] /\ UNCHANGED held
       ELSE at' = [at EXCEPT ![p] = "run"] /\ held' = [held EXCEPT ![p] = Append(@, Mem)]
    /\ UNCHANGED <<left, isUsingFallback>>
(* No connection within two seconds, PostgreSQL down, or the pool at its   *)
(* end.  A single query of the pool that fails comes to the same.          *)
Denied(p) ==
    /\ at[p] = "wait"
    /\ Leaves(p)
    /\ IF production
       THEN at' = [at EXCEPT ![p] = "unwind"] /\ UNCHANGED <<held, isUsingFallback>>
       ELSE /\ isUsingFallback' = TRUE
            /\ at' = [at EXCEPT ![p] = "run"] /\ held' = [held EXCEPT ![p] = Append(@, Mem)]
    /\ UNCHANGED left

(* COMMIT, and release() of the innermost connection. *)
Return(p) == /\ at[p] = "run" /\ held[p] # <<>>
             /\ held' = [held EXCEPT ![p] = Front(@)]
             /\ UNCHANGED <<at, left, queue, isUsingFallback>>

Listing == left[Janitor] = MaxTenants
(* A statement of a transaction fails, or a handler throws.  The janitor's *)
(* list is a query of the pool.                                            *)
Fail(p) == /\ at[p] = "run" /\ held[p] # <<>>
           /\ p = Janitor /\ Listing => Holds(p, Mem)
           /\ at' = [at EXCEPT ![p] = "unwind"]
           /\ UNCHANGED <<held, left, queue, isUsingFallback>>

(* Fault: a connection is not given back after an error. *)
UnwindKeeps(p) ==
    /\ at[p] = "unwind" /\ held[p] # <<>>
    /\ at' = [at EXCEPT ![p] = "idle"] /\ left' = [left EXCEPT ![p] = 0]
    /\ UNCHANGED <<held, queue, isUsingFallback>>
(* ROLLBACK and release(): the error goes on to the transaction around, or *)
(* is caught there (getDek() at vault.ts:208).                             *)
Unwind(p) == /\ at[p] = "unwind" /\ held[p] # <<>>
             /\ held' = [held EXCEPT ![p] = Front(@)]
             /\ \/ UNCHANGED at
                \/ Len(held[p]) > 1 /\ at' = [at EXCEPT ![p] = "run"]
             /\ UNCHANGED <<left, queue, isUsingFallback>>

-----------------------------------------------------------------------------
(* A request asks within the transactions it has open, or after them.      *)

Arrive(r) == /\ life = "serving" /\ at[r] = "idle"
             /\ \E n \in 0 .. MaxAsks - 1 : Asks(r, n)
             /\ UNCHANGED isUsingFallback
AsksMore(r) == at[r] = "run" /\ left[r] > 0 /\ Asks(r, left[r] - 1) /\ UNCHANGED isUsingFallback

(* The answer, a result or an error. *)
Ends(p) == /\ at[p] \in {"run", "unwind"} /\ held[p] = <<>>
           /\ at' = [at EXCEPT ![p] = "idle"] /\ left' = [left EXCEPT ![p] = 0]
           /\ UNCHANGED <<held, queue, isUsingFallback>>

-----------------------------------------------------------------------------
(* runJanitor(): the tenants, then a transaction for each, one after       *)
(* another.  What fails for one tenant is logged; a failure to list them   *)
(* is nobody's promise, and ends the process.                              *)

Sweep == /\ ~janitorRunning /\ at[Janitor] = "idle"
         /\ janitorRunning' = TRUE
         /\ Asks(Janitor, MaxTenants)
Tick == life = "serving" /\ Sweep /\ UNCHANGED <<life, production, isUsingFallback>>

NextTenant == /\ at[Janitor] = "run" /\ held[Janitor] = <<>> /\ left[Janitor] > 0
              /\ Asks(Janitor, left[Janitor] - 1)
              /\ UNCHANGED <<life, janitorRunning, isUsingFallback>>
TenantFails == /\ at[Janitor] = "unwind" /\ held[Janitor] = <<>> /\ ~Listing
               /\ at' = [at EXCEPT ![Janitor] = "run"]
               /\ UNCHANGED <<life, janitorRunning, held, left, queue, isUsingFallback>>
ListingFails == /\ at[Janitor] = "unwind" /\ held[Janitor] = <<>> /\ Listing
                /\ life' = "dead" /\ janitorRunning' = FALSE /\ Ends(Janitor)
(* Fault: the flag is reset only when there were tenants to visit. *)
SweepForgets == /\ at[Janitor] = "run" /\ Ends(Janitor)
                /\ janitorRunning' = Listing /\ UNCHANGED life
SweepEnds == /\ at[Janitor] = "run" /\ Ends(Janitor)
             /\ janitorRunning' = FALSE /\ UNCHANGED life

-----------------------------------------------------------------------------
(* main(), and the signals.                                                *)

Start == /\ life = "starting"
         /\ \/ /\ life' = "dead"
               /\ UNCHANGED <<isUsingFallback, janitorRunning, at, held, left, queue>>
            \/ /\ life' = "sweeping" /\ UNCHANGED isUsingFallback
               /\ Sweep
         /\ UNCHANGED production
(* PostgreSQL is not there when the process starts. *)
StartWithout == /\ life = "starting" /\ ~production /\ ~isUsingFallback
                /\ isUsingFallback' = TRUE
                /\ UNCHANGED <<life, production, janitorRunning, at, held, left, queue>>
Listen == /\ life = "sweeping" /\ ~janitorRunning
          /\ life' \in {"serving", "dead"}
          /\ UNCHANGED <<production, isUsingFallback, janitorRunning, at, held, left, queue>>

(* Before there is a handler a signal kills, and so does a second one of   *)
(* the same name: each handler is for once.                                *)
Signal == /\ life \notin {"exited", "dead"}
          /\ life' = IF life = "serving" THEN "closing" ELSE "dead"
          /\ UNCHANGED <<production, isUsingFallback, janitorRunning, at, held, left, queue>>

(* Fault: the pool is ended while requests are being answered. *)
DoesNotDrain == /\ life = "closing" /\ life' = "ending"
                /\ UNCHANGED <<production, isUsingFallback, janitorRunning, at, held, left, queue>>
(* app.close() waits for the requests in flight; then redis.quit(). *)
Drained == /\ life = "closing" /\ \A r \in Requests : at[r] = "idle"
           /\ life' = "ending"
           /\ UNCHANGED <<production, isUsingFallback, janitorRunning, at, held, left, queue>>
(* pool.end() waits for the connections in use. *)
Exit == /\ life = "ending" /\ \A c \in Conns : IsFree(c)
        /\ life' = "exited"
        /\ UNCHANGED <<production, isUsingFallback, janitorRunning, at, held, left, queue>>

Works(p) == /\ Alive
            /\ Get(p) \/ Denied(p) \/ Return(p) \/ Fail(p) \/ Unwind(p)
            /\ UNCHANGED <<life, production, janitorRunning>>
Handles(r) == /\ Alive
              /\ AsksMore(r) \/ Ends(r)
              /\ UNCHANGED <<life, production, janitorRunning>>
Sweeps == /\ Alive
          /\ NextTenant \/ TenantFails \/ ListingFails \/ SweepEnds
          /\ UNCHANGED production
Process == Start \/ StartWithout \/ Listen \/ Drained \/ Exit

Next == \/ Process \/ Signal \/ Tick \/ Sweeps
        \/ \E p \in Users : Works(p)
        \/ \E r \in Requests : \/ Handles(r)
                               \/ Arrive(r) /\ UNCHANGED <<life, production, janitorRunning>>

Spec == Init /\ [][Next]_vars
(* Callbacks run when they are due, and so does the interval.  Neither     *)
(* requests nor signals have to come.                                      *)
FairSpec == /\ Spec
            /\ WF_vars(Process) /\ WF_vars(Tick) /\ WF_vars(Works(Janitor) \/ Sweeps)
            /\ \A r \in Requests : WF_vars(Works(r) \/ Handles(r))

-----------------------------------------------------------------------------
TypeOK == /\ life \in Lives /\ production \in BOOLEAN
          /\ isUsingFallback \in BOOLEAN /\ janitorRunning \in BOOLEAN
          /\ at \in [Users -> {"idle", "wait", "run", "unwind"}]
          /\ held \in [Users -> Seq(Conns \cup {Mem})]
          /\ left \in [Users -> Nat]
          /\ queue \in Seq(Users)

(* A connection of PostgreSQL is lent once, to one transaction.            *)
LentOnce ==
    \A p, q \in Users : \A i \in DOMAIN held[p], j \in DOMAIN held[q] :
        held[p][i] = held[q][j] /\ held[p][i] # Mem => p = q /\ i = j
(* The line is exactly those who wait, each of them once.                  *)
InLine == /\ \A p \in Users : at[p] = "wait" <=> \E i \in DOMAIN queue : queue[i] = p
          /\ \A i, j \in DOMAIN queue : queue[i] = queue[j] => i = j
GivenBack == \A p \in Users : at[p] = "idle" => held[p] = <<>>

(* Every connection and every place in the line is accounted for, through  *)
(* timeouts, the change to memory and errors at any depth: none is lent    *)
(* twice, who has ended has given back everything, nobody waits unseen.    *)
Accounted == LentOnce /\ InLine /\ GivenBack

(* In production nothing is ever done in memory, whatever PostgreSQL does; *)
(* and in development, where the change may come in the middle of a        *)
(* request, nothing that began in memory goes back to PostgreSQL inside.   *)
OneDatabase == \A p \in Users :
    /\ production => ~Holds(p, Mem)
    /\ \A i, j \in DOMAIN held[p] : i < j /\ held[p][i] = Mem => held[p][j] = Mem

(* The process that leaves by itself has answered every request and has no *)
(* transaction open on PostgreSQL, the janitor's neither.                  *)
ExitIsClean == life = "exited" => /\ \A r \in Requests : at[r] = "idle"
                                  /\ \A c \in Conns : IsFree(c)

(* Requests that hold all of the connections and wait for more let go of   *)
(* them: each is answered, as long as the process lives.                   *)
RequestsEnd == \A r \in Requests : at[r] # "idle" ~> (at[r] = "idle" \/ life = "dead")

(* A signal to a serving process is the end of it, whatever its requests   *)
(* and its sweep are waiting for.                                          *)
DrainEnds == life = "closing" ~> life \in {"exited", "dead"}

(* The janitor comes back as long as the process serves, after sweeps that *)
(* failed as well: nothing leaves its flag on.                             *)
JanitorReturns == [](life = "serving" => <>(at[Janitor] # "idle" \/ life # "serving"))
=============================================================================
