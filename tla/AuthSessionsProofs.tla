------------------------- MODULE AuthSessionsProofs -------------------------
(***************************************************************************)
(* Proofs about AuthSessions, for any number of requests, tokens and       *)
(* challenges and any limit of failed logins.                              *)
(*                                                                         *)
(* Every request that works on a family of refresh tokens does so between  *)
(* two reads of Redis that nothing protects.  The invariant says what a    *)
(* family is at each of these points as long as no two requests have       *)
(* worked on it at once; what they do to it then is not claimed.           *)
(***************************************************************************)
EXTENDS AuthSessions, TLAPS

(* A request that has drawn its token and not yet made it a family's. *)
Drawing == {"verify", "punish", "reject", "challenge", "store", "spend", "attest", "session"}
             \cup Rotating
Minting == {"mint", "count", "commit"}

NextInv(q) ==
    /\ at[q] \in {"idle"} \cup Revoking => next[q] = None
    /\ at[q] \in Drawing => next[q] \in Tokens /\ family[next[q]] = None
    /\ at[q] \in Minting => next[q] \in Tokens /\ family[next[q]] = next[q]
    /\ \A p \in Requests \ {q} : next[p] # None => next[p] # next[q]

TokenInv ==
    \A t \in Tokens :
        /\ stored[t] # "absent" => family[t] # None
        /\ family[t] # None => family[t] \in Tokens /\ family[family[t]] = family[t]

WorkInv(q) ==
    at[q] \in Rotating \cup Revoking => present[q] \in Tokens /\ family[present[q]] \in Tokens

(* A family that is being founded has its first token alone. *)
MintInv(q) ==
    at[q] = "mint" =>
        /\ \A t \in Tokens : family[t] = next[q] => t = next[q]
        /\ stored[next[q]] = "absent"
        /\ \A p \in Requests : ~Works(p, next[q])
        /\ next[q] \notin revoked

RaceInv ==
    \A f \in Tokens : \A p, q \in Requests :
        p # q /\ Works(p, f) /\ Works(q, f) => f \in raced

IsLive(t, f) == family[t] = f /\ stored[t] = "fresh"

LiveInv ==
    \A f \in Tokens \ raced :
        /\ \A t, u \in Tokens : IsLive(t, f) /\ IsLive(u, f) => t = u
        /\ \A q \in Requests : Works(q, f) =>
              /\ at[q] = "supersede" => \A t \in Tokens : IsLive(t, f) => t = present[q]
              /\ at[q] = "successor" => \A t \in Tokens : ~IsLive(t, f)

Gone(f) == \A t \in Tokens : family[t] = f => stored[t] = "absent"

RevokeInv ==
    /\ \A f \in revoked : f \in Tokens /\ family[f] = f
    /\ \A f \in revoked \ raced : Gone(f) /\ \A q \in Requests : ~Works(q, f)
    /\ \A f \in Tokens \ raced : \A q \in Requests :
          Works(q, f) /\ at[q] = "sweep" =>
              \A t \in Tokens : family[t] = f /\ stored[t] # "absent" => t \in todo[q]

TInv == /\ TokenInv /\ RaceInv /\ LiveInv /\ RevokeInv
        /\ \A q \in Requests : NextInv(q) /\ WorkInv(q) /\ MintInv(q)

(* A challenge that was drawn for a login is nobody else's until its       *)
(* browser has it; one that is being spent has left the Map.               *)
ChallengeInv(q) ==
    /\ at[q] \in {"verify", "challenge", "store"} =>
          /\ challenge[q] \in Challenges /\ challenge[q] \notin issued
          /\ \A p \in Requests \ {q} : challenge[p] # challenge[q]
    /\ at[q] = "spend" => challenge[q] \in issued \ mfaStore
CInv == /\ spent \subseteq issued /\ mfaRedis \subseteq issued /\ SpentIsGone
        /\ \A q \in Requests : ChallengeInv(q)

LockInv == \A q \in Requests : at[q] \in {"reject", "commit"} <=> rowLock = q

IInv == TypeOK /\ TInv /\ CInv /\ LockInv

Moves(q) == Begins(q) \/ GoesOn(q) \/ Fails(q)
Lapses == \/ \E t \in Tokens : LapseToken(t) \/ Logout(t)
          \/ \E m \in Challenges : LapseChallenge(m)

-----------------------------------------------------------------------------
(* Types. *)

LEMMA TypesBegin == ASSUME TypeOK, TokenInv, NEW q \in Requests, Begins(q) PROVE TypeOK'
<1> USE AuthAssumption
<1>1. CASE \E t \in Tokens, m \in Challenges : Login(q, t, m)
  BY <1>1 DEF TypeOK, Login, GoTo, Stages, ghosts, redis
<1>2. CASE \E t \in Tokens, m \in Challenges : Answer(q, m, t)
  BY <1>2 DEF TypeOK, Answer, GoTo, Stages, ghosts, redis
<1>3. CASE \E t \in Tokens : Refresh(q, t)
  <2>1. PICK t \in Tokens : Refresh(q, t)  BY <1>3
  <2>2. raced' \subseteq Tokens  BY <2>1 DEF TypeOK, Refresh, Race, TokenInv
  <2>3. at' \in [Requests -> Stages] /\ next' \in [Requests -> Tokens \cup {None}]
    BY <2>1 DEF TypeOK, Refresh, GoTo, Stages, Rotating, Revoking
  <2> QED  BY <2>1, <2>2, <2>3 DEF TypeOK, Refresh, redis
<1> QED  BY <1>1, <1>2, <1>3 DEF Begins

LEMMA TypesGoOn ==
    ASSUME TypeOK, NEW q \in Requests, NextInv(q), WorkInv(q), ChallengeInv(q), GoesOn(q)
    PROVE  TypeOK'
<1>1. /\ at[q] \in {"challenge", "store", "spend"} => challenge[q] \in Challenges
      /\ at[q] \in {"session", "mint", "commit", "successor"} => next[q] \in Tokens
      /\ at[q] \in {"supersede", "successor", "kill", "sweep"} =>
             present[q] \in Tokens /\ family[present[q]] \in Tokens
  BY DEF TypeOK, NextInv, WorkInv, ChallengeInv, Drawing, Minting, Rotating, Revoking
<1> USE AuthAssumption
    DEF TypeOK, GoTo, Stages, Establishing, Rotating, Revoking, ghosts, redis, drawn
<1>2. CASE Verify(q) \/ Punish(q) \/ Challenge(q)
  BY <1>1, <1>2 DEF Verify, Punish, Challenge
<1>3. CASE Reject(q)  BY <1>3 DEF Reject, Done
<1>4. CASE StoreChallenge(q)  BY <1>1, <1>4 DEF StoreChallenge, Done
<1>5. CASE Spend(q) \/ Attest(q)  BY <1>1, <1>5 DEF Spend, Attest
<1>6. CASE SetSession(q) \/ Mint(q) \/ Count(q)
  BY <1>1, <1>6 DEF SetSession, Mint, Count
<1>7. CASE Commit(q)  BY <1>1, <1>7 DEF Commit, Done
<1>8. CASE Supersede(q)  BY <1>1, <1>8 DEF Supersede
<1>9. CASE Successor(q)  BY <1>1, <1>9 DEF Successor, Done
<1>10. CASE Kill(q) \/ Scan(q)  BY <1>10 DEF Kill, Scan
<1>11. CASE \E t \in Tokens : Sweep(q, t)  BY <1>11 DEF Sweep
<1>12. CASE Swept(q)  BY <1>1, <1>12 DEF Swept, Done
<1> QED  BY <1>2, <1>3, <1>4, <1>5, <1>6, <1>7, <1>8, <1>9, <1>10, <1>11, <1>12 DEF GoesOn

LEMMA TypesFail == ASSUME TypeOK, NEW q \in Requests, NextInv(q), Fails(q) PROVE TypeOK'
BY AuthAssumption DEF TypeOK, NextInv, Minting, Fails, Done, Stages, ghosts, redis

LEMMA TypesLapse == ASSUME TypeOK, Lapses PROVE TypeOK'
BY DEF TypeOK, Lapses, LapseToken, Logout, LapseChallenge, ghosts, redis, drawn

(* What a request does leaves what the others hold. *)
Apart(q) == \A p \in Requests \ {q} :
                /\ at'[p] = at[p] /\ present'[p] = present[p] /\ next'[p] = next[p]
                /\ challenge'[p] = challenge[p] /\ todo'[p] = todo[p]

LEMMA MovesApart == ASSUME TypeOK, NEW q \in Requests, Moves(q) PROVE Apart(q)
<1> USE DEF TypeOK, Apart, GoTo, Done, drawn
<1>1. CASE Begins(q)  BY <1>1 DEF Begins, Login, Answer, Refresh
<1>2. CASE Fails(q)  BY <1>2 DEF Fails
<1>3. CASE GoesOn(q)
  <2>1. CASE Verify(q) \/ Punish(q) \/ Reject(q) \/ Challenge(q) \/ StoreChallenge(q)
    BY <2>1 DEF Verify, Punish, Reject, Challenge, StoreChallenge
  <2>2. CASE Spend(q) \/ Attest(q) \/ SetSession(q) \/ Mint(q) \/ Count(q) \/ Commit(q)
    BY <2>2 DEF Spend, Attest, SetSession, Mint, Count, Commit
  <2>3. CASE Supersede(q) \/ Successor(q) \/ Kill(q) \/ Scan(q) \/ Swept(q) \/ \E t \in Tokens : Sweep(q, t)
    BY <2>3 DEF Supersede, Successor, Kill, Scan, Swept, Sweep
  <2> QED  BY <1>3, <2>1, <2>2, <2>3 DEF GoesOn
<1> QED  BY <1>1, <1>2, <1>3 DEF Moves

-----------------------------------------------------------------------------
(* The locked row. *)

LEMMA LocksKept == ASSUME TypeOK, LockInv, NEW q \in Requests, Moves(q) PROVE LockInv'
<1>1. Apart(q)  BY MovesApart
<1> SUFFICES /\ at'[q] \in {"reject", "commit"} <=> rowLock' = q
             /\ \A p \in Requests \ {q} : rowLock' = p <=> rowLock = p
  BY <1>1 DEF LockInv, Apart
<1> USE AuthAssumption DEF TypeOK, LockInv, GoTo, Done
<1>2. CASE Begins(q)  BY <1>2 DEF Begins, Login, Answer, Refresh
<1>3. CASE Fails(q)  BY <1>3 DEF Fails
<1>4. CASE Verify(q) \/ Challenge(q) \/ StoreChallenge(q) \/ Spend(q) \/ Attest(q)
  BY <1>4 DEF Verify, Challenge, StoreChallenge, Spend, Attest
<1>5. CASE Punish(q) \/ Reject(q) \/ Count(q) \/ Commit(q)
  BY <1>5 DEF Punish, Reject, Count, Commit
<1>6. CASE SetSession(q) \/ Mint(q) \/ Supersede(q) \/ Successor(q) \/ Kill(q)
  BY <1>6 DEF SetSession, Mint, Supersede, Successor, Kill
<1>7. CASE Scan(q) \/ Swept(q) \/ \E t \in Tokens : Sweep(q, t)
  BY <1>7 DEF Scan, Swept, Sweep
<1> QED  BY <1>2, <1>3, <1>4, <1>5, <1>6, <1>7 DEF Moves, GoesOn

-----------------------------------------------------------------------------
(* Challenges.  A step that touches none of their places, and gives no     *)
(* request a challenge it did not hold, keeps them in order.               *)

LEMMA ChallengesRest ==
    ASSUME CInv, mfaRedis' \subseteq mfaRedis, mfaStore' \subseteq mfaStore,
           issued' = issued, spent' = spent,
           \A p \in Requests : \/ at'[p] = at[p] /\ challenge'[p] = challenge[p]
                               \/ at'[p] \notin {"verify", "challenge", "store", "spend"}
                                  /\ challenge'[p] \in {challenge[p], None},
           TypeOK
    PROVE  CInv'
BY AuthAssumption DEF CInv, ChallengeInv, SpentIsGone, TypeOK

LEMMA ChallengesKept ==
    ASSUME TypeOK, CInv, NEW q \in Requests, Moves(q) PROVE CInv'
<1>1. Apart(q)  BY MovesApart
<1> USE AuthAssumption DEF TypeOK, GoTo, Done, redis, drawn, ghosts, Apart
<1>2. CASE Begins(q)
  <2>1. CASE \E t \in Tokens, m \in Challenges : Login(q, t, m)
    BY <1>1, <2>1 DEF Login, Undrawn, CInv, ChallengeInv, SpentIsGone
  <2>2. CASE \E t \in Tokens, m \in Challenges : Answer(q, m, t)
    BY <1>1, <2>2 DEF Answer, CInv, ChallengeInv, SpentIsGone
  <2>3. CASE \E t \in Tokens : Refresh(q, t)
    BY <1>1, <2>3, ChallengesRest DEF Refresh
  <2> QED  BY <1>2, <2>1, <2>2, <2>3 DEF Begins
<1>3. CASE Fails(q)  BY <1>1, <1>3, ChallengesRest DEF Fails
<1>4. CASE Verify(q)  BY <1>1, <1>4 DEF Verify, CInv, ChallengeInv, SpentIsGone
<1>5. CASE Challenge(q)  BY <1>1, <1>5 DEF Challenge, CInv, ChallengeInv, SpentIsGone
<1>6. CASE StoreChallenge(q)
  BY <1>1, <1>6 DEF StoreChallenge, CInv, ChallengeInv, SpentIsGone
<1>7. CASE Spend(q)  BY <1>1, <1>7 DEF Spend, CInv, ChallengeInv, SpentIsGone
<1>8. CASE Punish(q) \/ Reject(q) \/ Attest(q) \/ SetSession(q) \/ Mint(q) \/ Count(q) \/ Commit(q)
  BY <1>1, <1>8, ChallengesRest
     DEF Punish, Reject, Attest, SetSession, Mint, Count, Commit
<1>9. CASE Supersede(q) \/ Successor(q) \/ Kill(q) \/ Scan(q) \/ Swept(q)
  BY <1>1, <1>9, ChallengesRest DEF Supersede, Successor, Kill, Scan, Swept
<1>10. CASE \E t \in Tokens : Sweep(q, t)
  BY <1>1, <1>10, ChallengesRest DEF Sweep
<1> QED  BY <1>2, <1>3, <1>4, <1>5, <1>6, <1>7, <1>8, <1>9, <1>10 DEF Moves, GoesOn

-----------------------------------------------------------------------------
(* Families.  A step that writes no token, brings nobody to work on a      *)
(* family and founds none keeps them in order.                             *)

LEMMA FamiliesRest ==
    ASSUME TypeOK, TInv, family' = family, raced' = raced, revoked' = revoked,
           \A t \in Tokens : stored'[t] \in {stored[t], "absent"},
           \A p \in Requests :
               \/ at'[p] = at[p] /\ present'[p] = present[p] /\ next'[p] = next[p]
                  /\ todo'[p] = todo[p]
               \/ at'[p] \notin Rotating \cup Revoking \cup {"mint"},
           \A p \in Requests : NextInv(p)'
    PROVE  TInv'
<1>1. \A p \in Requests, f \in Tokens : Works(p, f)' => Works(p, f)  BY DEF Works
<1>2. \A t, f \in Tokens : IsLive(t, f)' => IsLive(t, f)  BY DEF IsLive, TypeOK
<1>3. TokenInv'  BY DEF TInv, TokenInv, TypeOK
<1>4. RaceInv'  BY <1>1 DEF TInv, RaceInv
<1>5. \A p \in Requests : WorkInv(p)'  BY DEF TInv, WorkInv
<1>6. \A p \in Requests : MintInv(p)'
  BY <1>1 DEF TInv, MintInv, NextInv, Minting, TypeOK
<1>7. LiveInv'
  BY <1>1, <1>2 DEF TInv, LiveInv, Works, Rotating, Revoking
<1>8. RevokeInv'
  BY <1>1 DEF TInv, RevokeInv, Gone, Works, Rotating, Revoking
<1> QED  BY <1>3, <1>4, <1>5, <1>6, <1>7, <1>8 DEF TInv

(* What a request holds after a move that leaves the families alone. *)
LEMMA NextRests ==
    ASSUME TypeOK, TInv, NEW q \in Requests, Apart(q), family' = family,
           next'[q] \in {next[q], None} \/ (next'[q] \in Tokens /\ Unused(next'[q])),
           at'[q] \in {"idle"} \cup Revoking => next'[q] = None,
           at'[q] \in Drawing => next'[q] \in Tokens /\ family[next'[q]] = None,
           at'[q] \in Minting => next'[q] \in Tokens /\ family[next'[q]] = next'[q]
    PROVE  \A p \in Requests : NextInv(p)'
BY AuthAssumption DEF TInv, NextInv, Apart, Unused

(* A step of a login, an answer, or an end: no family is touched. *)
LEMMA QuietKept ==
    ASSUME TypeOK, TInv, NEW q \in Requests, Apart(q),
           \/ \E t \in Tokens, m \in Challenges : Login(q, t, m) \/ Answer(q, m, t)
           \/ Verify(q) \/ Punish(q) \/ Reject(q) \/ Challenge(q) \/ StoreChallenge(q)
           \/ Spend(q) \/ Attest(q) \/ Count(q) \/ Commit(q) \/ Fails(q)
    PROVE  TInv'
<1>1. /\ family' = family /\ raced' = raced /\ revoked' = revoked /\ stored' = stored
      /\ at'[q] \notin Rotating \cup Revoking \cup {"mint"}
  BY DEF TypeOK, GoTo, Done, redis, ghosts, Rotating, Revoking, Login, Answer, Verify, Punish,
         Reject, Challenge, StoreChallenge, Spend, Attest, Count, Commit, Fails
<1>2. \A p \in Requests : NextInv(p)'
  <2> USE DEF TypeOK, GoTo, Done, drawn, TInv, NextInv, Drawing, Minting, Rotating, Revoking
  <2>1. CASE \E t \in Tokens, m \in Challenges : Login(q, t, m) \/ Answer(q, m, t)
    BY <1>1, <2>1, NextRests DEF Login, Answer, Unused
  <2>2. CASE Verify(q) \/ Punish(q) \/ Challenge(q) \/ Spend(q) \/ Attest(q) \/ Count(q)
    BY <1>1, <2>2, NextRests DEF Verify, Punish, Challenge, Spend, Attest, Count
  <2>3. CASE Reject(q) \/ StoreChallenge(q) \/ Commit(q) \/ Fails(q)
    BY <1>1, <2>3, NextRests DEF Reject, StoreChallenge, Commit, Fails
  <2> QED  BY <2>1, <2>2, <2>3
<1> QED  BY <1>1, <1>2, FamiliesRest DEF Apart

LEMMA LapseKept == ASSUME TypeOK, TInv, Lapses PROVE TInv'
<1>1. /\ family' = family /\ raced' = raced /\ revoked' = revoked
      /\ at' = at /\ present' = present /\ next' = next /\ todo' = todo
      /\ \A t \in Tokens : stored'[t] \in {stored[t], "absent"}
  BY DEF TypeOK, Lapses, LapseToken, Logout, LapseChallenge, redis, drawn, ghosts
<1>2. \A p \in Requests : NextInv(p)'  BY <1>1 DEF TInv, NextInv
<1> QED  BY <1>1, <1>2, FamiliesRest

(* The family of a login is named: nobody works on it, nothing is stored.  *)
LEMMA SetSessionKept ==
    ASSUME TypeOK, TInv, NEW q \in Requests, Apart(q), SetSession(q) PROVE TInv'
<1> DEFINE n == next[q]
<1>1. /\ n \in Tokens /\ family[n] = None
      /\ at[q] = "session" /\ at'[q] = "mint" /\ next'[q] = n /\ present' = present
      /\ family' = [family EXCEPT ![n] = n]
      /\ stored' = stored /\ raced' = raced /\ revoked' = revoked /\ todo' = todo
  BY DEF SetSession, TypeOK, TInv, NextInv, Drawing, GoTo, drawn, ghosts
<1>2. \A t \in Tokens : family[t] # n
  BY <1>1, AuthAssumption DEF TInv, TokenInv
<1>3. \A p \in Requests, f \in Tokens : Works(p, f)' <=> Works(p, f)
  BY <1>1, AuthAssumption DEF TInv, WorkInv, Works, Apart, Rotating, Revoking, TypeOK
<1>4. stored[n] = "absent"  BY <1>1 DEF TInv, TokenInv
<1>5. TokenInv'  BY <1>1, <1>2, AuthAssumption DEF TInv, TokenInv, TypeOK
<1>6. RaceInv'  BY <1>1, <1>3 DEF TInv, RaceInv
<1>7. LiveInv'
  <2>1. \A t, f \in Tokens : IsLive(t, f)' <=> IsLive(t, f)
    BY <1>1, <1>4 DEF IsLive, TypeOK
  <2> QED  BY <1>1, <1>3, <2>1 DEF TInv, LiveInv, Apart
<1>8. RevokeInv'
  <2>1. n \notin revoked  BY <1>1, <1>2 DEF TInv, RevokeInv
  <2>2. \A f \in revoked : f \in Tokens /\ family'[f] = f
    BY <1>1, <2>1 DEF TInv, RevokeInv, TypeOK
  <2>3. \A f \in revoked \ raced : Gone(f)' /\ \A p \in Requests : ~Works(p, f)'
    BY <1>1, <1>3, <1>4 DEF TInv, RevokeInv, Gone, TypeOK
  <2>4. \A f \in Tokens \ raced : \A p \in Requests :
            Works(p, f)' /\ at'[p] = "sweep" =>
                \A t \in Tokens : family'[t] = f /\ stored'[t] # "absent" => t \in todo'[p]
    BY <1>1, <1>3, <1>4 DEF TInv, RevokeInv, Apart, TypeOK
  <2> QED  BY <1>1, <2>2, <2>3, <2>4 DEF RevokeInv
<1>9. \A p \in Requests : NextInv(p)'
  BY <1>1, AuthAssumption
     DEF TInv, NextInv, Apart, Drawing, Minting, Rotating, Revoking, TypeOK
<1>10. \A p \in Requests : WorkInv(p)'
  BY <1>1, AuthAssumption DEF TInv, WorkInv, Apart, Rotating, Revoking, TypeOK
<1>11. \A p \in Requests : MintInv(p)'
  <2>1. MintInv(q)'
    <3>1. n \notin revoked  BY <1>1, <1>2 DEF TInv, RevokeInv
    <3>2. \A p \in Requests : ~Works(p, n)'
      BY <1>1, <1>2, <1>3 DEF TInv, WorkInv, Works
    <3>3. \A t \in Tokens : family'[t] = n => t = n  BY <1>1, <1>2 DEF TypeOK
    <3> QED  BY <1>1, <1>4, <3>1, <3>2, <3>3 DEF MintInv
  <2>2. ASSUME NEW p \in Requests \ {q} PROVE MintInv(p)'
    BY <1>1, <1>3, AuthAssumption
       DEF TInv, MintInv, NextInv, Minting, Drawing, Apart, TypeOK
  <2> QED  BY <2>1, <2>2
<1> QED  BY <1>5, <1>6, <1>7, <1>8, <1>9, <1>10, <1>11 DEF TInv

LEMMA MintKept ==
    ASSUME TypeOK, TInv, NEW q \in Requests, Apart(q), Mint(q) PROVE TInv'
<1> DEFINE n == next[q]
<1>1. /\ n \in Tokens /\ family[n] = n
      /\ at[q] = "mint" /\ at'[q] = "count" /\ next'[q] = n /\ present' = present
      /\ \A t \in Tokens \ {n} : stored'[t] = stored[t]
      /\ family' = family /\ raced' = raced /\ revoked' = revoked /\ todo' = todo
  BY DEF Mint, TypeOK, TInv, NextInv, Minting, GoTo, drawn, ghosts
<1>2. /\ \A t \in Tokens : family[t] = n => t = n
      /\ n \notin revoked
      /\ \A p \in Requests : ~Works(p, n)
  BY <1>1 DEF TInv, MintInv
<1>3. \A p \in Requests, f \in Tokens : Works(p, f)' <=> Works(p, f)
  BY <1>1 DEF Works, Apart, Rotating, Revoking
<1>4. TokenInv'  BY <1>1, AuthAssumption DEF TInv, TokenInv
<1>5. RaceInv'  BY <1>1, <1>3 DEF TInv, RaceInv
<1>6. LiveInv'
  <2>1. \A t \in Tokens, f \in Tokens \ {n} : IsLive(t, f)' <=> IsLive(t, f)
    BY <1>1 DEF IsLive
  <2>2. \A t \in Tokens : IsLive(t, n)' => t = n  BY <1>1, <1>2 DEF IsLive
  <2> QED  BY <1>1, <1>2, <1>3, <2>1, <2>2 DEF TInv, LiveInv, Apart
<1>7. RevokeInv'
  BY <1>1, <1>2, <1>3 DEF TInv, RevokeInv, Gone, Apart
<1>8. \A p \in Requests : NextInv(p)'
  BY <1>1, NextRests DEF Drawing, Minting, Rotating, Revoking
<1>9. \A p \in Requests : WorkInv(p)' /\ MintInv(p)'
  BY <1>1, <1>3, AuthAssumption
     DEF TInv, WorkInv, MintInv, NextInv, Minting, Apart, Rotating, Revoking
<1> QED  BY <1>4, <1>5, <1>6, <1>7, <1>8, <1>9 DEF TInv

(* A family that another request works on is raced from here on; one that  *)
(* is being founded cannot be presented.                                   *)
LEMMA RefreshKept ==
    ASSUME TypeOK, TInv, NEW q \in Requests, Apart(q), NEW t \in Tokens, Refresh(q, t)
    PROVE  TInv'
<1> DEFINE f == family[t]
<1>1. /\ stored[t] # "absent" /\ at[q] = "idle" /\ at'[q] \in {"supersede", "kill"}
      /\ at'[q] = "supersede" => stored[t] = "fresh"
      /\ present'[q] = t /\ raced' = Race(q, t)
      /\ stored' = stored /\ family' = family /\ todo' = todo /\ revoked' = revoked
  BY DEF Refresh, TypeOK, GoTo, redis
<1>2. f \in Tokens  BY <1>1, AuthAssumption DEF TInv, TokenInv
<1>3. raced \subseteq raced' /\ \A p \in Requests \ {q} : Works(p, f) => f \in raced'
  BY <1>1 DEF Race
<1>4. \A g \in Tokens :
          /\ \A p \in Requests \ {q} : Works(p, g)' <=> Works(p, g)
          /\ Works(q, g)' <=> g = f
  BY <1>1 DEF Works, Apart, Rotating, Revoking
<1>5. TokenInv'  BY <1>1 DEF TInv, TokenInv
<1>6. RaceInv'  BY <1>2, <1>3, <1>4 DEF TInv, RaceInv
<1>7. LiveInv'
  BY <1>1, <1>3, <1>4 DEF TInv, LiveInv, IsLive, Apart
<1>8. RevokeInv'
  <2>1. ~Gone(f)  BY <1>1 DEF Gone
  <2> QED  BY <1>1, <1>3, <1>4, <2>1 DEF TInv, RevokeInv, Gone, Apart
<1>9. \A p \in Requests : NextInv(p)'
  BY <1>1, NextRests DEF Refresh, GoTo, TInv, NextInv, Drawing, Minting, Rotating, Revoking,
                         TypeOK, Unused
<1>10. \A p \in Requests : WorkInv(p)'
  BY <1>1, <1>2 DEF TInv, WorkInv, Apart
<1>11. \A p \in Requests : MintInv(p)'
  BY <1>1, <1>4 DEF TInv, MintInv, NextInv, Minting, Apart
<1> QED  BY <1>5, <1>6, <1>7, <1>8, <1>9, <1>10, <1>11 DEF TInv

LEMMA SupersedeKept ==
    ASSUME TypeOK, TInv, NEW q \in Requests, Apart(q), Supersede(q) PROVE TInv'
<1> DEFINE c == present[q]
           f == family[c]
<1>1. /\ c \in Tokens /\ f \in Tokens
      /\ at[q] = "supersede" /\ at'[q] = "successor" /\ present' = present /\ next' = next
      /\ stored' = [stored EXCEPT ![c] = "used"]
      /\ family' = family /\ raced' = raced /\ revoked' = revoked /\ todo' = todo
  BY DEF Supersede, TypeOK, TInv, WorkInv, Rotating, GoTo, drawn, ghosts
<1>2. Works(q, f)  BY <1>1 DEF Works, Rotating
<1>3. \A p \in Requests, g \in Tokens : Works(p, g)' <=> Works(p, g)
  BY <1>1 DEF Works, Apart, Rotating
<1>4. f \notin raced => f \notin revoked /\ \A p \in Requests \ {q} : ~Works(p, f)
  BY <1>1, <1>2 DEF TInv, RaceInv, RevokeInv
<1>5. TokenInv'  BY <1>1, AuthAssumption DEF TInv, TokenInv, TypeOK
<1>6. RaceInv'  BY <1>1, <1>3 DEF TInv, RaceInv
<1>7. LiveInv'
  <2>1. \A t, g \in Tokens : IsLive(t, g)' <=> t # c /\ IsLive(t, g)
    BY <1>1 DEF IsLive, TypeOK
  <2>2. f \notin raced => \A t \in Tokens : ~IsLive(t, f)'
    BY <1>1, <1>2, <2>1 DEF TInv, LiveInv
  <2>3. ASSUME NEW g \in Tokens \ raced, NEW p \in Requests, Works(p, g)'
        PROVE  /\ at'[p] = "supersede" => \A t \in Tokens : IsLive(t, g)' => t = present'[p]
               /\ at'[p] = "successor" => \A t \in Tokens : ~IsLive(t, g)'
    <3>1. CASE p = q  BY <1>1, <2>2, <2>3, <3>1 DEF Works
    <3>2. CASE p # q
      BY <1>1, <1>3, <2>1, <2>3, <3>2 DEF TInv, LiveInv, Apart
    <3> QED  BY <3>1, <3>2
  <2> QED  BY <1>1, <2>1, <2>3 DEF TInv, LiveInv
<1>8. RevokeInv'
  <2>1. \A t, g \in Tokens : g # f /\ family[t] = g => stored'[t] = stored[t]
    BY <1>1 DEF TypeOK
  <2>2. \A g \in revoked : g \in Tokens /\ family[g] = g  BY DEF TInv, RevokeInv
  <2>3. \A g \in revoked \ raced : Gone(g)' /\ \A p \in Requests : ~Works(p, g)'
    BY <1>1, <1>3, <1>4, <2>1, <2>2 DEF TInv, RevokeInv, Gone
  <2>4. \A g \in Tokens \ raced : \A p \in Requests :
            Works(p, g)' /\ at'[p] = "sweep" =>
                \A t \in Tokens : family'[t] = g /\ stored'[t] # "absent" => t \in todo'[p]
    BY <1>1, <1>3, <1>4, <2>1 DEF TInv, RevokeInv, Apart
  <2> QED  BY <1>1, <2>2, <2>3, <2>4 DEF RevokeInv
<1>9. \A p \in Requests : NextInv(p)' /\ WorkInv(p)'
  BY <1>1 DEF TInv, NextInv, WorkInv, Drawing, Minting, Rotating, Revoking, Apart
<1>10. \A p \in Requests : MintInv(p)'
  BY <1>1, <1>2, <1>3 DEF TInv, MintInv, NextInv, Minting, Apart, TypeOK
<1> QED  BY <1>5, <1>6, <1>7, <1>8, <1>9, <1>10 DEF TInv

LEMMA SuccessorKept ==
    ASSUME TypeOK, TInv, NEW q \in Requests, Apart(q), Successor(q) PROVE TInv'
<1> DEFINE c == present[q]
           f == family[c]
           n == next[q]
<1>1. /\ c \in Tokens /\ f \in Tokens /\ n \in Tokens /\ family[n] = None
      /\ at[q] = "successor" /\ at'[q] = "idle" /\ next'[q] = None
      /\ stored' = [stored EXCEPT ![n] = "fresh"] /\ family' = [family EXCEPT ![n] = f]
      /\ raced' = raced /\ revoked' = revoked
  BY DEF Successor, Done, TypeOK, TInv, WorkInv, NextInv, Drawing, Rotating, ghosts
<1>2. Works(q, f) /\ family[f] = f /\ f # n
  BY <1>1, AuthAssumption DEF Works, Rotating, TInv, TokenInv
<1>3. \A g \in Tokens : /\ \A p \in Requests \ {q} : Works(p, g)' <=> Works(p, g)
                        /\ ~Works(q, g)'
  BY <1>1, AuthAssumption DEF Works, Apart, Rotating, Revoking, TInv, WorkInv, TypeOK
<1>4. f \notin raced => f \notin revoked /\ \A p \in Requests \ {q} : ~Works(p, f)
  BY <1>1, <1>2 DEF TInv, RaceInv, RevokeInv
<1>5. TokenInv'  BY <1>1, <1>2, AuthAssumption DEF TInv, TokenInv, TypeOK
<1>6. RaceInv'  BY <1>1, <1>3 DEF TInv, RaceInv
<1>7. LiveInv'
  <2>1. \A t, g \in Tokens : IsLive(t, g)' <=> (t = n /\ g = f) \/ (t # n /\ IsLive(t, g))
    BY <1>1 DEF IsLive, TypeOK
  <2>2. f \notin raced => \A t \in Tokens : ~IsLive(t, f)
    BY <1>1, <1>2 DEF TInv, LiveInv
  <2>3. \A t \in Tokens : ~IsLive(t, f) \/ f \in raced  BY <2>2
  <2>4. ASSUME NEW g \in Tokens \ raced, NEW p \in Requests, Works(p, g)'
        PROVE  g # f /\ p # q /\ Works(p, g)
    BY <1>1, <1>3, <1>4, <2>4
  <2>5. \A g \in Tokens \ raced : \A t, u \in Tokens : IsLive(t, g)' /\ IsLive(u, g)' => t = u
    BY <2>1, <2>3 DEF TInv, LiveInv
  <2> QED  BY <1>1, <2>1, <2>4, <2>5 DEF TInv, LiveInv, Apart
<1>8. RevokeInv'
  <2>1. \A t, g \in Tokens : g # f /\ family'[t] = g => stored'[t] = stored[t] /\ family[t] = g
    BY <1>1 DEF TypeOK
  <2>2. \A g \in revoked : g \in Tokens /\ family'[g] = g
    BY <1>1, AuthAssumption DEF TInv, RevokeInv, TypeOK
  <2>3. \A g \in revoked \ raced : Gone(g)' /\ \A p \in Requests : ~Works(p, g)'
    BY <1>1, <1>3, <1>4, <2>1, <2>2 DEF TInv, RevokeInv, Gone
  <2>4. \A g \in Tokens \ raced : \A p \in Requests :
            Works(p, g)' /\ at'[p] = "sweep" =>
                \A t \in Tokens : family'[t] = g /\ stored'[t] # "absent" => t \in todo'[p]
    BY <1>1, <1>3, <1>4, <2>1 DEF TInv, RevokeInv, Apart
  <2> QED  BY <1>1, <2>2, <2>3, <2>4 DEF RevokeInv
<1>9. \A p \in Requests : NextInv(p)'
  BY <1>1, AuthAssumption
     DEF TInv, NextInv, Apart, Drawing, Minting, Rotating, Revoking, TypeOK
<1>10. \A p \in Requests : WorkInv(p)'
  BY <1>1, AuthAssumption DEF TInv, WorkInv, Apart, Rotating, Revoking, TypeOK
<1>11. \A p \in Requests : MintInv(p)'
  BY <1>1, <1>2, <1>3, AuthAssumption
     DEF TInv, MintInv, NextInv, Minting, Drawing, Apart, TypeOK
<1> QED  BY <1>5, <1>6, <1>7, <1>8, <1>9, <1>10, <1>11 DEF TInv

(* A revocation that has listed the keys has all of its family's among     *)
(* them, or the family was raced.                                          *)
LEMMA RevokingKept ==
    ASSUME TypeOK, TInv, NEW q \in Requests, Apart(q),
           Kill(q) \/ Scan(q) \/ \E t \in Tokens : Sweep(q, t)
    PROVE  TInv'
<1> DEFINE f == family[present[q]]
<1>1. /\ at[q] \in Revoking /\ at'[q] \in {"scan", "sweep"}
      /\ present' = present /\ next' = next
      /\ family' = family /\ raced' = raced /\ revoked' = revoked
      /\ \A t \in Tokens : stored'[t] \in {stored[t], "absent"}
  BY DEF Kill, Scan, Sweep, TypeOK, GoTo, Revoking, redis, drawn, ghosts
<1>2. \A t \in Tokens :
          at'[q] = "sweep" /\ family[t] = f /\ stored'[t] # "absent" =>
              t \in todo'[q] \/ (at[q] = "sweep" /\ t \notin todo[q])
  BY DEF Kill, Scan, Sweep, TypeOK, GoTo, redis
<1>3. \A p \in Requests, g \in Tokens : Works(p, g)' <=> Works(p, g)
  BY <1>1 DEF Works, Apart, Revoking
<1>4. \A t, g \in Tokens : IsLive(t, g)' => IsLive(t, g)
  BY <1>1 DEF IsLive, TypeOK
<1>5. TokenInv'  BY <1>1 DEF TInv, TokenInv, TypeOK
<1>6. RaceInv'  BY <1>1, <1>3 DEF TInv, RaceInv
<1>7. LiveInv'  BY <1>1, <1>3, <1>4 DEF TInv, LiveInv, Apart
<1>8. RevokeInv'
  <2>1. \A g \in revoked \ raced : Gone(g)' /\ \A p \in Requests : ~Works(p, g)'
    BY <1>1, <1>3 DEF TInv, RevokeInv, Gone
  <2>2. ASSUME NEW g \in Tokens \ raced, NEW p \in Requests, Works(p, g)', at'[p] = "sweep",
               NEW t \in Tokens, family'[t] = g, stored'[t] # "absent"
        PROVE  t \in todo'[p]
    <3>1. Works(p, g) /\ family[t] = g /\ stored[t] # "absent"
      BY <1>1, <1>3, <2>2 DEF TypeOK
    <3>2. CASE p = q
      BY <1>1, <1>2, <2>2, <3>1, <3>2 DEF TInv, RevokeInv, Works
    <3>3. CASE p # q
      BY <2>2, <3>1, <3>3 DEF TInv, RevokeInv, Apart
    <3> QED  BY <3>2, <3>3
  <2> QED  BY <1>1, <2>1, <2>2 DEF TInv, RevokeInv
<1>9. \A p \in Requests : NextInv(p)' /\ WorkInv(p)'
  BY <1>1 DEF TInv, NextInv, WorkInv, Drawing, Minting, Rotating, Revoking, Apart
<1>10. \A p \in Requests : MintInv(p)'
  BY <1>1, <1>3 DEF TInv, MintInv, NextInv, Minting, Apart, TypeOK
<1> QED  BY <1>5, <1>6, <1>7, <1>8, <1>9, <1>10 DEF TInv

(* All that was listed has been visited: nothing of the family is left, or *)
(* the family was raced.                                                   *)
LEMMA SweptKept ==
    ASSUME TypeOK, TInv, NEW q \in Requests, Apart(q), Swept(q) PROVE TInv'
<1> DEFINE f == family[present[q]]
<1>1. /\ present[q] \in Tokens /\ f \in Tokens
      /\ at[q] = "sweep" /\ at'[q] = "idle" /\ next'[q] = None
      /\ todo[q] = {} /\ revoked' = revoked \cup {f}
      /\ stored' = stored /\ family' = family /\ raced' = raced
  BY DEF Swept, Done, TypeOK, TInv, WorkInv, Revoking, redis
<1>2. Works(q, f) /\ family[f] = f
  BY <1>1, AuthAssumption DEF Works, Revoking, TInv, TokenInv
<1>3. \A g \in Tokens : /\ \A p \in Requests \ {q} : Works(p, g)' <=> Works(p, g)
                        /\ ~Works(q, g)'
  BY <1>1 DEF Works, Apart, Rotating, Revoking
<1>4. f \notin raced => Gone(f) /\ \A p \in Requests \ {q} : ~Works(p, f)
  BY <1>1, <1>2 DEF TInv, RaceInv, RevokeInv, Gone
<1>5. TokenInv' /\ RaceInv'  BY <1>1, <1>3 DEF TInv, TokenInv, RaceInv
<1>6. LiveInv'  BY <1>1, <1>3 DEF TInv, LiveInv, IsLive, Apart
<1>7. RevokeInv'
  BY <1>1, <1>2, <1>3, <1>4 DEF TInv, RevokeInv, Gone, Apart
<1>8. \A p \in Requests : NextInv(p)'
  BY <1>1, NextRests DEF Drawing, Minting, Rotating, Revoking
<1>9. \A p \in Requests : WorkInv(p)'
  BY <1>1 DEF TInv, WorkInv, Apart, Rotating, Revoking
<1>10. \A p \in Requests : MintInv(p)'
  BY <1>1, <1>2, <1>3 DEF TInv, MintInv, NextInv, Minting, Apart
<1> QED  BY <1>5, <1>6, <1>7, <1>8, <1>9, <1>10 DEF TInv

LEMMA FamiliesKept == ASSUME TypeOK, TInv, NEW q \in Requests, Moves(q) PROVE TInv'
<1>1. Apart(q)  BY MovesApart
<1>2. CASE Begins(q)
  BY <1>1, <1>2, QuietKept, RefreshKept DEF Begins
<1>3. CASE GoesOn(q)
  BY <1>1, <1>3, QuietKept, SetSessionKept, MintKept, SupersedeKept, SuccessorKept,
     RevokingKept, SweptKept DEF GoesOn
<1>4. CASE Fails(q)  BY <1>1, <1>4, QuietKept
<1> QED  BY <1>2, <1>3, <1>4 DEF Moves

-----------------------------------------------------------------------------
(* The invariant. *)

LEMMA InitInv == Init => IInv
BY AuthAssumption
   DEF Init, IInv, TypeOK, TInv, CInv, LockInv, TokenInv, RaceInv, LiveInv, RevokeInv, NextInv,
       WorkInv, MintInv, ChallengeInv, SpentIsGone, IsLive, Gone, Works, Stages, Drawing,
       Minting, Establishing, Rotating, Revoking

LEMMA TypesKept == ASSUME IInv, NEW q \in Requests, Moves(q) PROVE TypeOK'
BY TypesBegin, TypesGoOn, TypesFail DEF IInv, TInv, CInv, Moves

LEMMA StepInv == ASSUME IInv, Next PROVE IInv'
<1>1. CASE \E q \in Requests : Moves(q)
  BY <1>1, TypesKept, FamiliesKept, ChallengesKept, LocksKept DEF IInv
<1>2. CASE Lapses
  <2>1. CInv'
    BY <1>2, ChallengesRest
       DEF IInv, Lapses, LapseToken, Logout, LapseChallenge, drawn, ghosts
  <2>2. LockInv'
    BY <1>2 DEF IInv, LockInv, Lapses, LapseToken, Logout, LapseChallenge
  <2> QED  BY <1>2, <2>1, <2>2, TypesLapse, LapseKept DEF IInv
<1> QED  BY <1>1, <1>2 DEF Next, Moves, Lapses

LEMMA StutterInv == ASSUME IInv, UNCHANGED vars PROVE IInv'
BY DEF IInv, TypeOK, TInv, CInv, LockInv, TokenInv, RaceInv, LiveInv, RevokeInv, NextInv,
       WorkInv, MintInv, ChallengeInv, SpentIsGone, IsLive, Gone, Works, vars, redis, drawn,
       ghosts

(* The inductive invariant holds. *)
THEOREM Invariance == Spec => []IInv
<1>1. IInv /\ [Next]_vars => IInv'  BY StepInv, StutterInv
<1> QED  BY InitInv, <1>1, PTL DEF Spec

(* Every variable holds a value of its kind, whatever interleaves. *)
THEOREM TypeCorrect == Spec => []TypeOK
<1>1. IInv => TypeOK  BY DEF IInv
<1> QED  BY Invariance, <1>1, PTL

(* A challenge that was answered rightly while Redis obeyed passes nobody  *)
(* again: POST /auth/mfa empties both of its places, and neither login nor *)
(* a second answer puts it back.                                           *)
THEOREM SpentIsGoneHolds == Spec => []SpentIsGone
<1>1. IInv => SpentIsGone  BY DEF IInv, CInv
<1> QED  BY Invariance, <1>1, PTL

(* rotateRefresh keeps one live token in a family whose requests never     *)
(* overlapped, whatever else is going on.                                  *)
THEOREM OneLiveTokenHolds == Spec => []OneLiveToken
<1>1. IInv => OneLiveToken
  <2> SUFFICES ASSUME IInv, NEW t \in Tokens, NEW u \in Tokens,
                      stored[t] = "fresh", stored[u] = "fresh",
                      family[t] = family[u], family[t] \notin raced
               PROVE  t = u
    BY DEF OneLiveToken
  <2>1. family[t] \in Tokens \ raced  BY AuthAssumption DEF IInv, TInv, TokenInv
  <2> QED  BY <2>1 DEF IInv, TInv, LiveInv, IsLive
<1> QED  BY Invariance, <1>1, PTL

(* A revocation that runs to its end (auth.ts:68) leaves nothing of its    *)
(* family, unless requests of the family overlapped.                       *)
THEOREM RevokedIsGoneHolds == Spec => []RevokedIsGone
<1>1. IInv => RevokedIsGone  BY DEF IInv, TInv, RevokeInv, Gone, RevokedIsGone
<1> QED  BY Invariance, <1>1, PTL

(* The lock on the user's row belongs to a request that is one step from   *)
(* releasing it: a failed one rolls back, so nobody is locked out.         *)
THEOREM LockIsOwnedHolds == Spec => []LockIsOwned
<1>1. IInv => LockIsOwned
  BY AuthAssumption DEF IInv, TypeOK, LockInv, LockIsOwned
<1> QED  BY Invariance, <1>1, PTL

-----------------------------------------------------------------------------
(* Dead families. *)

(* A request that starts finds no fresh token in a dead family, and a      *)
(* request that founds or extends a family founds or extends another.      *)
LEMMA DeadKept == ASSUME IInv, Next, NEW f \in Tokens, Dead(f) PROVE Dead(f)'
<1> USE AuthAssumption DEF TypeOK, Dead
<1>0. TypeOK /\ \A q \in Requests : NextInv(q) /\ WorkInv(q)  BY DEF IInv, TInv
<1>1. CASE Lapses
  BY <1>0, <1>1 DEF Lapses, LapseToken, Logout, LapseChallenge, drawn, redis, ghosts
<1>2. ASSUME NEW q \in Requests, Moves(q) PROVE Dead(f)'
  <2>1. Apart(q)  BY <1>0, <1>2, MovesApart
  <2> USE <1>0, <2>1
      DEF Apart, NextInv, WorkInv, Drawing, Minting, Rotating, Revoking, GoTo, Done, redis, drawn
  <2>2. CASE \E t \in Tokens, m \in Challenges : Login(q, t, m) \/ Answer(q, m, t)
    BY <2>2 DEF Login, Answer
  <2>3. CASE \E t \in Tokens : Refresh(q, t)  BY <2>3 DEF Refresh
  <2>4. CASE Verify(q) \/ Punish(q) \/ Reject(q) \/ Challenge(q) \/ StoreChallenge(q)
    BY <2>4 DEF Verify, Punish, Reject, Challenge, StoreChallenge
  <2>5. CASE Spend(q) \/ Attest(q) \/ Count(q) \/ Commit(q) \/ Fails(q)
    BY <2>5 DEF Spend, Attest, Count, Commit, Fails
  <2>6. CASE SetSession(q)  BY <2>6 DEF SetSession
  <2>7. CASE Mint(q)  BY <2>7 DEF Mint
  <2>8. CASE Supersede(q)  BY <2>8 DEF Supersede
  <2>9. CASE Successor(q)  BY <2>9 DEF Successor
  <2>10. CASE Kill(q) \/ Scan(q) \/ Swept(q)  BY <2>10 DEF Kill, Scan, Swept
  <2>11. CASE \E t \in Tokens : Sweep(q, t)  BY <2>11 DEF Sweep
  <2> QED  BY <1>2, <2>2, <2>3, <2>4, <2>5, <2>6, <2>7, <2>8, <2>9, <2>10, <2>11
           DEF Moves, Begins, GoesOn
<1> QED  BY <1>1, <1>2 DEF Next, Moves, Lapses

(* A family without a token in Redis, and without a request that is about  *)
(* to write one, has none ever again.                                      *)
THEOREM DeadStaysDeadHolds == Spec => DeadStaysDead
<1>1. IInv /\ [Next]_vars => [\A f \in Tokens : Dead(f) => Dead(f)']_vars
  BY DeadKept
<1> QED  BY Invariance, <1>1, PTL DEF Spec, DeadStaysDead
=============================================================================
