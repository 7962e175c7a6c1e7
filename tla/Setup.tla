------------------------------- MODULE Setup -------------------------------
(***************************************************************************)
(* The first tenant, on PostgreSQL: made by the setup wizard (setup.ts) in *)
(* one transaction, or by the seed script (seed.ts), whose tenant row is   *)
(* committed before the rest.  The tenant's key is drawn by generateDek()  *)
(* on a connection of its own in either case, so that its row is judged    *)
(* and committed apart from the transaction around it.                     *)
(*                                                                         *)
(* The rows are followed by part: the tenant, its administrator with role  *)
(* and permissions, its key, and the rest (collection, policy, audit or    *)
(* the seed's credentials).                                                *)
(***************************************************************************)
EXTENDS FiniteSets

CONSTANTS Wizards,      \* requests of POST /setup/initialize
          Seeds,        \* runs of the seed script
          Slugs,        \* what a wizard may call its tenant
          SeedSlug,     \* what the seed script calls its own
          RowSecurity,  \* the database user is bound by the RLS policies
          Faults        \* a statement may fail, a process may die
\* Wizards and Seeds have no element in common; SeedSlug is one of Slugs.

VARIABLES rows,   \* the committed parts of each tenant
          wrote,  \* the parts in a transaction that is not committed
          slug,   \* the tenant it is about
          at      \* the statement that comes next

vars == <<rows, wrote, slug, at>>

Actors == Wizards \cup Seeds
Parts == {"tenant", "admin", "key", "rest"}
Stages == {"idle", "check", "tenant", "admin", "key", "rest", "commit", "done", "refused"}

isSystemInitialized == \E s \in Slugs : "tenant" \in rows[s]

Init == /\ rows = [s \in Slugs |-> {}]
        /\ wrote = [a \in Actors |-> {}]
        /\ slug = [a \in Actors |-> SeedSlug]
        /\ at = [a \in Actors |-> "idle"]

-----------------------------------------------------------------------------
GoesTo(a, stage) == at' = [at EXCEPT ![a] = stage]
Writes(a, part) == wrote' = [wrote EXCEPT ![a] = @ \cup {part}]
(* ROLLBACK, and the error that is answered. *)
Refused(a) == GoesTo(a, "refused") /\ wrote' = [wrote EXCEPT ![a] = {}] /\ UNCHANGED <<rows, slug>>

(* A unique index makes an insert wait for who has inserted the same. *)
Waits(a, part) == \E b \in Actors \ {a} : slug[b] = slug[a] /\ part \in wrote[b]

Asks(w) == /\ at[w] = "idle"
           /\ \E s \in Slugs : slug' = [slug EXCEPT ![w] = s]
           /\ GoesTo(w, "check") /\ UNCHANGED <<rows, wrote>>
Runs(d) == at[d] \in {"idle", "done", "refused"} /\ GoesTo(d, "tenant") /\ UNCHANGED <<rows, wrote, slug>>

(* The check is made before the transaction, and on its own. *)
Check(w) == /\ at[w] = "check"
            /\ IF isSystemInitialized THEN Refused(w)
               ELSE GoesTo(w, "tenant") /\ UNCHANGED <<rows, wrote, slug>>

InsertTenant(w) == /\ at[w] = "tenant" /\ ~Waits(w, "tenant")
                   /\ IF "tenant" \in rows[slug[w]] THEN Refused(w)
                      ELSE Writes(w, "tenant") /\ GoesTo(w, "admin") /\ UNCHANGED <<rows, slug>>

(* ON CONFLICT (slug) DO NOTHING, outside of the transaction. *)
SeedTenant(d) == /\ at[d] = "tenant" /\ ~Waits(d, "tenant")
                 /\ rows' = [rows EXCEPT ![SeedSlug] = @ \cup {"tenant"}]
                 /\ GoesTo(d, "admin") /\ UNCHANGED <<wrote, slug>>

(* The wizard never sets app.tenant_id, without which the policies admit   *)
(* no row.  The seed sets it, and updates the users that are there.        *)
InsertAdmin(a) == /\ at[a] = "admin" /\ ~Waits(a, "admin")
                  /\ IF a \in Wizards /\ RowSecurity THEN Refused(a)
                     ELSE Writes(a, "admin") /\ GoesTo(a, "key") /\ UNCHANGED <<rows, slug>>

(* The seed draws a key only when it finds none; the policies, not the     *)
(* query, tell its tenant's from another's.                                *)
FindsKey(a) == /\ a \in Seeds
               /\ \E s \in Slugs : "key" \in rows[s] /\ (RowSecurity => s = SeedSlug)
(* generateDek(): the foreign key to tenants is checked against what is    *)
(* committed; the tenant of the transaction around is not.                 *)
DrawKey(a) == /\ at[a] = "key"
              /\ IF ~FindsKey(a) /\ "tenant" \notin rows[slug[a]] THEN Refused(a)
                 ELSE /\ rows' = IF FindsKey(a) THEN rows ELSE [rows EXCEPT ![slug[a]] = @ \cup {"key"}]
                      /\ GoesTo(a, "rest") /\ UNCHANGED <<wrote, slug>>

(* The seed seals its credentials, which takes a key of its own tenant. *)
InsertRest(a) == /\ at[a] = "rest"
                 /\ IF "key" \notin rows[slug[a]] THEN Refused(a)
                    ELSE Writes(a, "rest") /\ GoesTo(a, "commit") /\ UNCHANGED <<rows, slug>>

Commit(a) == /\ at[a] = "commit"
             /\ rows' = [rows EXCEPT ![slug[a]] = @ \cup wrote[a]]
             /\ wrote' = [wrote EXCEPT ![a] = {}]
             /\ GoesTo(a, "done") /\ UNCHANGED slug

Fail(a) == Faults /\ at[a] \in {"check", "tenant", "admin", "key", "rest", "commit"} /\ Refused(a)

Works(a) == \/ a \in Wizards /\ (Check(a) \/ InsertTenant(a))
            \/ a \in Seeds /\ SeedTenant(a)
            \/ InsertAdmin(a) \/ DrawKey(a) \/ InsertRest(a) \/ Commit(a)

Next == \/ \E w \in Wizards : Asks(w)
        \/ \E d \in Seeds : Runs(d)
        \/ \E a \in Actors : Works(a) \/ Fail(a)

Spec == Init /\ [][Next]_vars
(* Statements complete, and PostgreSQL serves who waits for a row in turn. *)
(* Nobody has to set anything up.                                          *)
FairSpec == Spec /\ \A a \in Actors : SF_vars(Works(a))

-----------------------------------------------------------------------------
TypeOK == /\ rows \in [Slugs -> SUBSET Parts]
          /\ wrote \in [Actors -> SUBSET Parts]
          /\ slug \in [Actors -> Slugs]
          /\ at \in [Actors -> Stages]

(* A tenant with an administrator, who can sign in, has everything else,   *)
(* whatever failed before; and only the seed's is ever there without one.  *)
NothingHalfMade == \A s \in Slugs :
    /\ "admin" \in rows[s] => rows[s] = Parts
    /\ rows[s] # {} => "tenant" \in rows[s] /\ (s = SeedSlug \/ "admin" \in rows[s])

(* A seeding that ends well has left its tenant whole, also after those    *)
(* that had failed half-way.                                               *)
SeedingCompletes == \A d \in Seeds : at[d] = "done" => rows[SeedSlug] = Parts

(* Every initialisation and every seeding ends, though they wait for each  *)
(* other's rows.                                                           *)
SetupsEnd == \A a \in Actors : at[a] # "idle" ~> at[a] \in {"done", "refused"}

(* "It creates the first tenant, first administrator, and initial          *)
(* configuration" (setup.ts:5): where nothing fails, an initialisation is  *)
(* refused only because there is a tenant.                                 *)
RefusedOnlyAfterAnother == \A w \in Wizards : at[w] = "refused" => isSystemInitialized
=============================================================================
