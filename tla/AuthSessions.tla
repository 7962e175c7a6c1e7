---------------------------- MODULE AuthSessions ----------------------------
(***************************************************************************)
(* Signing in and staying signed in, for one user: passwordLogin,          *)
(* establishSession and rotateRefresh of backend/src/auth.ts and the       *)
(* routes /auth/login, /auth/mfa, /auth/refresh and /auth/logout.          *)
(*                                                                         *)
(* Requests interleave at their awaits.  Redis holds the refresh tokens,   *)
(* the session keys and the MFA challenges; the process holds a second     *)
(* copy of the challenges in mfaStore; the row of the user counts failed   *)
(* logins.  A Redis command may fail: where the code catches that it goes  *)
(* on, elsewhere the request ends.  Anything in Redis may lapse.           *)
(*                                                                         *)
(* A family of refresh tokens is named by its first token, which stands    *)
(* for the session id too.  Passwords and codes are right or wrong         *)
(* nondeterministically, and so is whether the user has to answer MFA.     *)
(***************************************************************************)
EXTENDS Naturals, FiniteSets

CONSTANTS
    Requests,      \* requests in flight
    Tokens,        \* refresh tokens that can be drawn
    Challenges,    \* MFA tokens that can be drawn
    LockAfter,     \* wrong passwords that lock the user: 5
    None

ASSUME AuthAssumption ==
    /\ None \notin Tokens \cup Challenges \cup Requests
    /\ LockAfter \in Nat \ {0}

VARIABLES
    stored,      \* refresh:<token> in Redis: absent, fresh (used: false) or used
    family,      \* the family of a token that has been drawn
    session,     \* session:<sid> in Redis; nothing ever reads it
    held,        \* the refresh tokens browsers were given
    mfaRedis,    \* mfa:<token> in Redis
    mfaStore,    \* the Map of the process
    issued,      \* challenges browsers were given
    user,        \* users.failed_logins and users.locked_until, committed
    rowLock,     \* the request whose transaction has updated the user's row
    at,          \* the await a request stands at
    present,     \* the refresh token a request presents
    next,        \* the refresh token a request draws
    challenge,   \* the challenge a request draws or answers
    todo,        \* keys a revocation has listed and not yet visited
    wrong,       \* ghost: wrong passwords answered since the last session
    spent,       \* ghost: challenges answered rightly, Redis obeying
    raced,       \* ghost: families two requests have worked on at once
    revoked      \* ghost: families whose revocation has run to its end

redis == <<stored, session, mfaRedis>>
drawn == <<present, next, challenge>>
ghosts == <<wrong, spent, raced, revoked>>
vars == <<redis, family, held, mfaStore, issued, user, rowLock, at, drawn, todo, ghosts>>

Establishing == {"session", "mint", "count", "commit"}

Rotating == {"supersede", "successor"}

Revoking == {"kill", "scan", "sweep"}

Stages == {"idle", "verify", "punish", "reject", "challenge", "store", "spend", "attest"}
              \cup Establishing \cup Rotating \cup Revoking

Init ==
    /\ stored = [t \in Tokens |-> "absent"]
    /\ family = [t \in Tokens |-> None]
    /\ session = {} /\ held = {}
    /\ mfaRedis = {} /\ mfaStore = {} /\ issued = {}
    /\ user = [failed |-> 0, locked |-> FALSE]
    /\ rowLock = None
    /\ at = [q \in Requests |-> "idle"]
    /\ present = [q \in Requests |-> None]
    /\ next = [q \in Requests |-> None]
    /\ challenge = [q \in Requests |-> None]
    /\ todo = [q \in Requests |-> {}]
    /\ wrong = 0 /\ spent = {} /\ raced = {} /\ revoked = {}

-----------------------------------------------------------------------------
(* Random values are drawn when a request begins: nobody sees them before  *)
(* they are stored, and a request that ends early gives them back.         *)

Unused(t) == family[t] = None /\ \A q \in Requests : next[q] # t

Undrawn(m) ==
    /\ m \notin issued \cup mfaRedis \cup mfaStore \cup spent
    /\ \A q \in Requests : challenge[q] # m

GoTo(q, from, to) == at[q] = from /\ at' = [at EXCEPT ![q] = to]

(* The request is answered. *)
Done(q) ==
    /\ at' = [at EXCEPT ![q] = "idle"]
    /\ present' = [present EXCEPT ![q] = None]
    /\ next' = [next EXCEPT ![q] = None]
    /\ challenge' = [challenge EXCEPT ![q] = None]
    /\ todo' = [todo EXCEPT ![q] = {}]

-----------------------------------------------------------------------------
(* POST /auth/login *)

(* The row is read; a locked or disabled user is refused and audited,      *)
(* which changes nothing here.                                             *)
Login(q, t, m) ==
    /\ ~user.locked
    /\ GoTo(q, "idle", "verify")
    /\ Unused(t) /\ next' = [next EXCEPT ![q] = t]
    /\ Undrawn(m) /\ challenge' = [challenge EXCEPT ![q] = m]
    /\ UNCHANGED <<redis, family, held, mfaStore, issued, user, rowLock, present,
                   todo, ghosts>>

(* argon2 answers.  The transaction of a right password commits nothing;   *)
(* the session or the challenge comes after it.                            *)
Verify(q) ==
    /\ \/ GoTo(q, "verify", "punish")
       \/ GoTo(q, "verify", "session")
       \/ GoTo(q, "verify", "challenge")
    /\ UNCHANGED <<redis, family, held, mfaStore, issued, user, rowLock, drawn,
                   todo, ghosts>>

(* The failed attempt is counted in the transaction, under the row's lock. *)
Punish(q) ==
    /\ rowLock = None /\ rowLock' = q
    /\ GoTo(q, "punish", "reject")
    /\ UNCHANGED <<redis, family, held, mfaStore, issued, user, drawn, todo, ghosts>>

(* fail() audits and throws inside withTenant(), which rolls the count     *)
(* back.                                                                   *)
Reject(q) ==
    /\ at[q] = "reject"
    /\ rowLock' = None
    /\ Done(q)
    /\ wrong' = IF wrong < LockAfter THEN wrong + 1 ELSE wrong
    /\ UNCHANGED <<redis, family, held, mfaStore, issued, user, spent, raced, revoked>>

(* The TOTP method is read and the challenge is put in the Map. *)
Challenge(q) ==
    /\ GoTo(q, "challenge", "store")
    /\ mfaStore' = mfaStore \cup {challenge[q]}
    /\ UNCHANGED <<redis, family, held, issued, user, rowLock, drawn, todo, ghosts>>

(* It is put in Redis, or Redis fails, and the browser gets its token. *)
StoreChallenge(q) ==
    /\ at[q] = "store"
    /\ mfaRedis' = mfaRedis \cup {challenge[q]} \/ mfaRedis' = mfaRedis
    /\ issued' = issued \cup {challenge[q]}
    /\ Done(q)
    /\ UNCHANGED <<stored, session, family, held, mfaStore, user, rowLock, ghosts>>

-----------------------------------------------------------------------------
(* POST /auth/mfa *)

(* Fault: the copy in the process is left. *)
AnswerKeep(q, m, t) ==
    /\ m \in issued /\ (m \in mfaRedis \/ m \in mfaStore)
    /\ GoTo(q, "idle", "spend")
    /\ Unused(t) /\ next' = [next EXCEPT ![q] = t]
    /\ challenge' = [challenge EXCEPT ![q] = m]
    /\ UNCHANGED <<redis, family, held, mfaStore, issued, user, rowLock, present,
                   todo, ghosts>>

(* A right code for a challenge that Redis has, or the Map when Redis has  *)
(* not or fails, leaves the Map at once.  A wrong code, or no challenge,   *)
(* changes nothing here.                                                   *)
Answer(q, m, t) ==
    /\ m \in issued /\ (m \in mfaRedis \/ m \in mfaStore)
    /\ GoTo(q, "idle", "spend")
    /\ Unused(t) /\ next' = [next EXCEPT ![q] = t]
    /\ challenge' = [challenge EXCEPT ![q] = m]
    /\ mfaStore' = mfaStore \ {m}
    /\ UNCHANGED <<redis, family, held, issued, user, rowLock, present, todo, ghosts>>

(* It leaves Redis, or Redis fails and keeps it. *)
Spend(q) ==
    /\ GoTo(q, "spend", "attest")
    /\ \/ /\ mfaRedis' = mfaRedis \ {challenge[q]}
          /\ spent' = spent \cup {challenge[q]}
       \/ UNCHANGED <<mfaRedis, spent>>
    /\ UNCHANGED <<stored, session, family, held, mfaStore, issued, user, rowLock,
                   drawn, todo, wrong, raced, revoked>>

(* MFA_SUCCESS is audited. *)
Attest(q) ==
    /\ GoTo(q, "attest", "session")
    /\ UNCHANGED <<redis, family, held, mfaStore, issued, user, rowLock, drawn, todo,
                   ghosts>>

-----------------------------------------------------------------------------
(* establishSession *)

SetSession(q) ==
    /\ GoTo(q, "session", "mint")
    /\ family' = [family EXCEPT ![next[q]] = next[q]]
    /\ session' = session \cup {next[q]} \/ session' = session
    /\ UNCHANGED <<stored, mfaRedis, held, mfaStore, issued, user, rowLock, drawn,
                   todo, ghosts>>

(* The first token of the family; the cookies are put on the reply. *)
Mint(q) ==
    /\ GoTo(q, "mint", "count")
    /\ stored' = [stored EXCEPT ![next[q]] = "fresh"] \/ stored' = stored
    /\ UNCHANGED <<session, mfaRedis, family, held, mfaStore, issued, user, rowLock,
                   drawn, todo, ghosts>>

(* The attempts are reset, under the row's lock. *)
Count(q) ==
    /\ rowLock = None /\ rowLock' = q
    /\ GoTo(q, "count", "commit")
    /\ UNCHANGED <<redis, family, held, mfaStore, issued, user, drawn, todo, ghosts>>

Commit(q) ==
    /\ at[q] = "commit"
    /\ user' = [user EXCEPT !.failed = 0]
    /\ rowLock' = None
    /\ held' = held \cup {next[q]}
    /\ wrong' = 0
    /\ Done(q)
    /\ UNCHANGED <<redis, family, mfaStore, issued, spent, raced, revoked>>

-----------------------------------------------------------------------------
(* POST /auth/refresh *)

(* A request of the family has read its token and not ended. *)
Works(q, f) ==
    /\ at[q] \in Rotating \cup Revoking
    /\ family[present[q]] = f

Race(q, t) ==
    IF \E p \in Requests \ {q} : Works(p, family[t])
    THEN raced \cup {family[t]} ELSE raced

(* Fault: a token that is not there is taken for a fresh one. *)
RefreshGone(q, t) ==
    /\ t \in held
    /\ \/ /\ stored[t] # "used"
          /\ GoTo(q, "idle", "supersede")
          /\ \E n \in Tokens : Unused(n) /\ next' = [next EXCEPT ![q] = n]
       \/ /\ stored[t] = "used"
          /\ GoTo(q, "idle", "kill")
          /\ UNCHANGED next
    /\ present' = [present EXCEPT ![q] = t]
    /\ raced' = Race(q, t)
    /\ UNCHANGED <<redis, family, held, mfaStore, issued, user, rowLock, challenge,
                   todo, wrong, spent, revoked>>

(* The token is read: an unknown one is refused, a fresh one is rotated,   *)
(* and a used one brings its family down.                                  *)
Refresh(q, t) ==
    /\ t \in held
    /\ \/ /\ stored[t] = "fresh"
          /\ GoTo(q, "idle", "supersede")
          /\ \E n \in Tokens : Unused(n) /\ next' = [next EXCEPT ![q] = n]
       \/ /\ stored[t] = "used"
          /\ GoTo(q, "idle", "kill")
          /\ UNCHANGED next
    /\ present' = [present EXCEPT ![q] = t]
    /\ raced' = Race(q, t)
    /\ UNCHANGED <<redis, family, held, mfaStore, issued, user, rowLock, challenge,
                   todo, wrong, spent, revoked>>

(* Fault: the flag keeps its value. *)
SupersedeKeep(q) ==
    /\ GoTo(q, "supersede", "successor")
    /\ stored' = [stored EXCEPT ![present[q]] = "fresh"]
    /\ UNCHANGED <<session, mfaRedis, family, held, mfaStore, issued, user, rowLock,
                   drawn, todo, ghosts>>

(* The token is written back as used, for a minute.  It is written even    *)
(* when it has been deleted since it was read.                             *)
Supersede(q) ==
    /\ GoTo(q, "supersede", "successor")
    /\ stored' = [stored EXCEPT ![present[q]] = "used"]
    /\ UNCHANGED <<session, mfaRedis, family, held, mfaStore, issued, user, rowLock,
                   drawn, todo, ghosts>>

Successor(q) ==
    /\ at[q] = "successor"
    /\ stored' = [stored EXCEPT ![next[q]] = "fresh"]
    /\ family' = [family EXCEPT ![next[q]] = family[present[q]]]
    /\ held' = held \cup {next[q]}
    /\ Done(q)
    /\ UNCHANGED <<session, mfaRedis, mfaStore, issued, user, rowLock, ghosts>>

Kill(q) ==
    /\ GoTo(q, "kill", "scan")
    /\ session' = session \ {family[present[q]]}
    /\ UNCHANGED <<stored, mfaRedis, family, held, mfaStore, issued, user, rowLock,
                   drawn, todo, ghosts>>

(* KEYS lists what is there now. *)
Scan(q) ==
    /\ GoTo(q, "scan", "sweep")
    /\ todo' = [todo EXCEPT ![q] = {t \in Tokens : stored[t] # "absent"}]
    /\ UNCHANGED <<redis, family, held, mfaStore, issued, user, rowLock, drawn, ghosts>>

(* One listed key: it is read, and deleted when it is of the family.  The  *)
(* family of a key never changes, so both commands are one step.           *)
Sweep(q, t) ==
    /\ at[q] = "sweep" /\ t \in todo[q]
    /\ todo' = [todo EXCEPT ![q] = @ \ {t}]
    /\ stored' = [stored EXCEPT ![t] =
                     IF family[t] = family[present[q]] THEN "absent" ELSE @]
    /\ UNCHANGED <<session, mfaRedis, family, held, mfaStore, issued, user, rowLock, at,
                   drawn, ghosts>>

Swept(q) ==
    /\ at[q] = "sweep" /\ todo[q] = {}
    /\ revoked' = revoked \cup {family[present[q]]}
    /\ Done(q)
    /\ UNCHANGED <<redis, family, held, mfaStore, issued, user, rowLock, wrong, spent,
                   raced>>

-----------------------------------------------------------------------------
(* POST /auth/logout: the access token names the session. *)
Logout(f) ==
    /\ f \in session
    /\ session' = session \ {f}
    /\ UNCHANGED <<stored, mfaRedis, family, held, mfaStore, issued, user, rowLock, at,
                   drawn, todo, ghosts>>

(* An await that is not caught rejects and the request ends: its           *)
(* transaction is rolled back, and cookies already on the reply are sent.  *)
Fails(q) ==
    /\ at[q] # "idle"
    /\ held' = IF at[q] \in {"count", "commit"} THEN held \cup {next[q]} ELSE held
    /\ rowLock' = IF rowLock = q THEN None ELSE rowLock
    /\ Done(q)
    /\ UNCHANGED <<redis, family, mfaStore, issued, user, ghosts>>

LapseToken(t) ==
    /\ stored[t] # "absent"
    /\ stored' = [stored EXCEPT ![t] = "absent"]
    /\ UNCHANGED <<session, mfaRedis, family, held, mfaStore, issued, user, rowLock, at,
                   drawn, todo, ghosts>>

LapseChallenge(m) ==
    /\ m \in mfaRedis
    /\ mfaRedis' = mfaRedis \ {m}
    /\ UNCHANGED <<stored, session, family, held, mfaStore, issued, user, rowLock, at,
                   drawn, todo, ghosts>>

Begins(q) ==
    \/ \E t \in Tokens, m \in Challenges : Login(q, t, m) \/ Answer(q, m, t)
    \/ \E t \in Tokens : Refresh(q, t)

GoesOn(q) ==
    \/ Verify(q) \/ Punish(q) \/ Reject(q) \/ Challenge(q) \/ StoreChallenge(q)
    \/ Spend(q) \/ Attest(q)
    \/ SetSession(q) \/ Mint(q) \/ Count(q) \/ Commit(q)
    \/ Supersede(q) \/ Successor(q)
    \/ Kill(q) \/ Scan(q) \/ (\E t \in Tokens : Sweep(q, t)) \/ Swept(q)

Next ==
    \/ \E q \in Requests : Begins(q) \/ GoesOn(q) \/ Fails(q)
    \/ \E t \in Tokens : LapseToken(t) \/ Logout(t)
    \/ \E m \in Challenges : LapseChallenge(m)

Spec == Init /\ [][Next]_vars

-----------------------------------------------------------------------------
(* Properties *)

(* Every variable holds a value of its kind. *)
TypeOK ==
    /\ stored \in [Tokens -> {"absent", "fresh", "used"}]
    /\ family \in [Tokens -> Tokens \cup {None}]
    /\ session \subseteq Tokens /\ held \subseteq Tokens
    /\ mfaRedis \subseteq Challenges /\ mfaStore \subseteq Challenges
    /\ issued \subseteq Challenges
    /\ user \in [failed : Nat, locked : BOOLEAN]
    /\ rowLock \in Requests \cup {None}
    /\ at \in [Requests -> Stages]
    /\ present \in [Requests -> Tokens \cup {None}]
    /\ next \in [Requests -> Tokens \cup {None}]
    /\ challenge \in [Requests -> Challenges \cup {None}]
    /\ todo \in [Requests -> SUBSET Tokens]
    /\ wrong \in 0..LockAfter /\ spent \subseteq Challenges
    /\ raced \subseteq Tokens /\ revoked \subseteq Tokens

(* A challenge that was answered rightly while Redis obeyed is in neither  *)
(* of the two places that hold challenges: no later request passes MFA     *)
(* with it.                                                                *)
SpentIsGone == spent \cap (mfaRedis \cup mfaStore) = {}

(* A family whose requests never overlapped has one live token: rotation   *)
(* replaces, it never adds.                                                *)
OneLiveToken ==
    \A t, u \in Tokens :
        /\ stored[t] = "fresh" /\ stored[u] = "fresh"
        /\ family[t] = family[u] /\ family[t] \notin raced
        => t = u

(* A revocation that runs to its end leaves nothing of its family, unless  *)
(* requests of the family overlapped: a rotation that read its token       *)
(* before the revocation writes it back after.  This says nothing of a     *)
(* token that is presented again once its mark has lapsed, which starts no *)
(* revocation, nor of a revocation that fails on the way.                  *)
RevokedIsGone ==
    \A t \in Tokens : family[t] \in revoked \ raced => stored[t] = "absent"

(* Nothing in Redis, nobody who could write it. *)
Dead(f) ==
    /\ family[f] = f
    /\ \A t \in Tokens : family[t] = f => stored[t] = "absent"
    /\ \A q \in Requests :
           /\ at[q] = "mint" => next[q] # f
           /\ at[q] \in Rotating => family[present[q]] # f

(* A family that is dead stays dead: signing in again starts another.      *)
DeadStaysDead == [][\A f \in Tokens : Dead(f) => Dead(f)']_vars

(* The row of the user is locked by nobody but a request that is about to  *)
(* end its transaction: a request that fails on the way locks nobody out.  *)
LockIsOwned ==
    rowLock # None => at[rowLock] \in {"reject", "commit"}

(* docs/API.md: five failures lock the user for a quarter of an hour.      *)
FiveFailuresLock == wrong >= LockAfter => user.locked
=============================================================================
