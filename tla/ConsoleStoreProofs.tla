------------------------- MODULE ConsoleStoreProofs -------------------------
(***************************************************************************)
(* Proofs about ConsoleStore, for any users, lists and number of flows.    *)
(*                                                                         *)
(* The flows are never cancelled, so the invariant speaks of every flow in *)
(* flight at once: whom it was begun for, whether a user has come or gone  *)
(* since, and what the store may hold as long as no such flow has been     *)
(* answered.                                                               *)
(***************************************************************************)
EXTENDS ConsoleStore, TLAPS

(* A form is sent for a user. *)
FormOf(s) ==
    flow[s] # Idle /\ flow[s].op \in Forms /\ flow[s].at # "lists" => flow[s].who \in Users

(* A flow whose user has neither come nor gone since it was begun loads    *)
(* lists for the user, and signs in while there is none.                   *)
LateOf(s) ==
    flow[s] # Idle /\ ~flow[s].old =>
        /\ flow[s].at = "lists" => flow[s].who \in {user, Nobody}
        /\ flow[s].at # "lists" /\ flow[s].op \in Forms \cup {"check"} => user = Nobody
        /\ flow[s].at = "me" => jar \in {flow[s].who, Nobody}

FormsInv == \A s \in Slots : FormOf(s)

(* So it is until an answer comes late, and the cookie is the user's. *)
LateInv == ~late => /\ user # Nobody => jar \in {user, Nobody}
                    /\ \A s \in Slots : LateOf(s)

IInv == TypeOK /\ FormsInv /\ ScreensHaveTheirUser /\ OthersOnlyWhenLate /\ LateInv
            /\ SpinnersAreAwaited

-----------------------------------------------------------------------------
(* What a step of one flow does to the others. *)

FlowTyped == flow \in [Slots -> Flow \cup {Idle}]

LEMMA BegunIsFlow ==
    ASSUME NEW op \in Ops, NEW u \in Somebody
    PROVE  /\ Begun(op, u) \in Flow /\ Begun(op, u) # Idle
           /\ Begun(op, u).op = op /\ Begun(op, u).who = u /\ Begun(op, u).at = "sent"
           /\ Begun(op, u).old = FALSE
BY DEF Begun, Flow, Idle, Ops

LEMMA FlowIsNotIdle == \A f \in Flow : f # Idle /\ f.op \in Ops
BY DEF Flow, Idle, Ops

LEMMA MeIsFlow ==
    ASSUME NEW g \in Flow, NEW u \in Somebody
    PROVE  /\ Me(g, u) \in Flow /\ Me(g, u) # Idle
           /\ Me(g, u).op = g.op /\ Me(g, u).who = u /\ Me(g, u).at = "me"
           /\ Me(g, u).old = g.old
<1>1. Me(g, u) \in Flow  BY DEF Me, Flow
<1>2. /\ Me(g, u).op = g.op /\ Me(g, u).who = u /\ Me(g, u).at = "me"
      /\ Me(g, u).old = g.old
  BY DEF Me, Flow
<1> QED  BY <1>1, <1>2, FlowIsNotIdle

LEMMA RefreshingIsFlow ==
    ASSUME NEW g \in Flow, NEW ls \in SUBSET Lists, NEW u \in Somebody
    PROVE  /\ Refreshing(g, ls, u) \in Flow /\ Refreshing(g, ls, u) # Idle
           /\ Refreshing(g, ls, u).op = g.op /\ Refreshing(g, ls, u).who = u
           /\ Refreshing(g, ls, u).at = "lists" /\ Refreshing(g, ls, u).left = ls
           /\ Refreshing(g, ls, u).old = FALSE
<1>1. Refreshing(g, ls, u) \in Flow  BY DEF Refreshing, Flow
<1>2. /\ Refreshing(g, ls, u).op = g.op /\ Refreshing(g, ls, u).who = u
      /\ Refreshing(g, ls, u).at = "lists" /\ Refreshing(g, ls, u).left = ls
      /\ Refreshing(g, ls, u).old = FALSE
  BY DEF Refreshing, Flow
<1> QED  BY <1>1, <1>2, FlowIsNotIdle

(* The others keep what they are and whom they were begun for. *)
Spared(x, old) ==
    \/ flow[x] = Idle /\ flow'[x] = Idle
    \/ /\ flow[x] \in Flow /\ flow'[x] \in Flow
       /\ flow'[x].op = flow[x].op /\ flow'[x].who = flow[x].who
       /\ flow'[x].at = flow[x].at /\ flow'[x].left = flow[x].left
       /\ flow'[x].old <=> flow[x].old \/ old

LEMMA GoesSpares ==
    ASSUME FlowTyped, NEW s \in Slots, NEW f, NEW ph, NEW u, NEW cookie,
           Goes(s, f, ph, u, cookie), f \in Flow \cup {Idle}
    PROVE  /\ phase' = ph /\ user' = u /\ jar' = cookie
           /\ \A x \in Slots \ {s} : Spared(x, u # user \/ cookie \notin {jar, Nobody})
           /\ \/ flow'[s] = f
              \/ f = Idle /\ flow'[s] = Begun("check", Nobody)
                 /\ Screen(ph) # Screen(phase) /\ Screen(ph) = "login"
           /\ flow' \in [Slots -> Flow \cup {Idle}]
<1>1. Begun("check", Nobody) \in Flow  BY BegunIsFlow DEF Ops, Somebody
<1>2. /\ phase' = ph /\ user' = u /\ jar' = cookie
      /\ \/ flow'[s] = f
         \/ f = Idle /\ flow'[s] = Begun("check", Nobody)
            /\ Screen(ph) # Screen(phase) /\ Screen(ph) = "login"
      /\ DOMAIN flow' = Slots
  BY DEF Goes
<1>3. ASSUME NEW x \in Slots \ {s}
      PROVE  /\ Spared(x, u # user \/ cookie \notin {jar, Nobody})
             /\ flow'[x] \in Flow \cup {Idle}
  <2>1. CASE flow[x] = Idle
    BY <2>1 DEF Goes, Spared
  <2>2. CASE flow[x] # Idle
    <3>1. flow[x] \in Flow  BY <2>2 DEF FlowTyped
    <3>2. flow'[x] = [flow[x] EXCEPT !.old = @ \/ u # user \/ cookie \notin {jar, Nobody},
                                     !.here = @ /\ ~(Screen(ph) # Screen(phase))]
      BY <2>2 DEF Goes
    <3>3. flow'[x] \in Flow  BY <3>1, <3>2 DEF Flow
    <3>4. /\ flow'[x].op = flow[x].op /\ flow'[x].who = flow[x].who
          /\ flow'[x].at = flow[x].at /\ flow'[x].left = flow[x].left
      BY <3>1, <3>2 DEF Flow
    <3>5. flow'[x].old <=> flow[x].old \/ u # user \/ cookie \notin {jar, Nobody}
      BY <3>1, <3>2 DEF Flow
    <3> QED  BY <3>1, <3>3, <3>4, <3>5 DEF Spared
  <2> QED  BY <2>1, <2>2
<1>4. flow' \in [Slots -> Flow \cup {Idle}]
  BY <1>1, <1>2, <1>3 DEF Goes
<1> QED  BY <1>2, <1>3, <1>4

(* The flows that did not move stand as they stood. *)
AwaitsForm(x) == flow[x] # Idle /\ flow[x].op \in Forms
AwaitsList(x, l) == flow[x] # Idle /\ flow[x].at = "lists" /\ l \in flow[x].left

LEMMA SparedStand ==
    ASSUME NEW x \in Slots, NEW s \in Slots, NEW f, NEW ph, NEW u, NEW cookie, x # s,
           FlowTyped, f \in Flow \cup {Idle}, Goes(s, f, ph, u, cookie)
    PROVE  /\ FormOf(x) => FormOf(x)'
           /\ LateOf(x) => LateOf(x)'
           /\ AwaitsForm(x) => AwaitsForm(x)'
           /\ \A l \in Lists : AwaitsList(x, l) => AwaitsList(x, l)'
<1> DEFINE old == u # user \/ cookie \notin {jar, Nobody}
<1>1. Spared(x, old) /\ user' = u /\ jar' = cookie  BY GoesSpares
<1>2. CASE flow[x] = Idle /\ flow'[x] = Idle
  BY <1>2 DEF FormOf, LateOf, AwaitsForm, AwaitsList
<1>3. CASE /\ flow[x] \in Flow /\ flow'[x] \in Flow
           /\ flow'[x].op = flow[x].op /\ flow'[x].who = flow[x].who
           /\ flow'[x].at = flow[x].at /\ flow'[x].left = flow[x].left
           /\ flow'[x].old <=> flow[x].old \/ old
  <2>1. flow[x] # Idle /\ flow'[x] # Idle  BY <1>3, FlowIsNotIdle
  <2>2. (FormOf(x) => FormOf(x)') /\ (AwaitsForm(x) => AwaitsForm(x)')
        /\ \A l \in Lists : AwaitsList(x, l) => AwaitsList(x, l)'
    BY <1>3, <2>1 DEF FormOf, AwaitsForm, AwaitsList
  <2>3. LateOf(x) => LateOf(x)'
    BY <1>1, <1>3, <2>1 DEF LateOf
  <2> QED  BY <2>2, <2>3
<1> QED  BY <1>1, <1>2, <1>3 DEF Spared

LEMMA Spinners ==
    SpinnersAreAwaited <=> /\ loading => \E x \in Slots : AwaitsForm(x)
                           /\ \A l \in Lists : loadingList[l] => \E x \in Slots : AwaitsList(x, l)
BY DEF SpinnersAreAwaited, Running, AwaitsForm, AwaitsList

-----------------------------------------------------------------------------
(* The ways a flow goes on. *)

(* It ends: its own spinner stops, and what it leaves on the screen is in  *)
(* order.                                                                  *)
LEMMA EndKeeps ==
    ASSUME IInv, TypeOK', NEW s \in Slots, NEW ph, NEW u, NEW cookie,
           flow[s] # Idle, flow[s].at # "lists", Goes(s, Idle, ph, u, cookie), Finally(s),
           loadingList' = loadingList, late => late',
           ScreensHaveTheirUser', OthersOnlyWhenLate',
           ~late' /\ u # Nobody => cookie \in {u, Nobody}
    PROVE  IInv'
<1>1. FlowTyped  BY DEF IInv, TypeOK, FlowTyped
<1>2. /\ phase' = ph /\ user' = u /\ jar' = cookie
      /\ \/ flow'[s] = Idle
         \/ flow'[s] = Begun("check", Nobody) /\ Screen(ph) = "login"
  BY <1>1, GoesSpares
<1>3. FormOf(s)' /\ (~late' => LateOf(s)')
  <2>1. CASE flow'[s] = Idle  BY <2>1 DEF FormOf, LateOf
  <2>2. CASE flow'[s] = Begun("check", Nobody) /\ Screen(ph) = "login"
    <3>1. ph # "console"  BY <2>2 DEF Screen
    <3>2. ~late' => user' = Nobody  BY <1>2, <3>1 DEF OthersOnlyWhenLate
    <3>3. flow'[s].op = "check" /\ flow'[s].at = "sent"
      BY <2>2 DEF Begun
    <3> QED  BY <3>2, <3>3 DEF FormOf, LateOf, Forms
  <2> QED  BY <1>2, <2>1, <2>2
<1>4. FormsInv' /\ LateInv'
  BY <1>1, <1>2, <1>3, SparedStand DEF IInv, FormsInv, LateInv
<1>5. SpinnersAreAwaited'
  <2>1. \A l \in Lists, x \in Slots : AwaitsList(x, l) => x # s /\ AwaitsList(x, l)'
    BY <1>1, SparedStand DEF AwaitsList
  <2>2. loading' => \E x \in Slots : AwaitsForm(x) /\ x # s
    BY Spinners DEF IInv, Finally, AwaitsForm, Forms
  <2>3. loading' => \E x \in Slots : AwaitsForm(x)'
    BY <1>1, <2>2, SparedStand
  <2> QED  BY <2>1, <2>3, Spinners DEF IInv, SpinnersAreAwaited, Running, AwaitsForm, AwaitsList
<1> QED  BY <1>4, <1>5 DEF IInv

(* It is refused, whatever cookie the refusal brings. *)
LEMMA RefusedKeeps ==
    ASSUME IInv, NEW s \in Slots, NEW cookie \in Somebody, Refused(s, cookie),
           flow[s] # Idle, flow[s].at = "sent", flow[s].op \in Forms,
           mfaCtx' = mfaCtx, shown' = shown, loadingList' = loadingList, initialised' \in BOOLEAN
    PROVE  IInv'
<1>1. FlowTyped /\ flow[s] \in Flow /\ flow[s].old \in BOOLEAN
  BY DEF IInv, TypeOK, FlowTyped, Flow
<1>2. /\ Goes(s, Idle, phase, user, cookie) /\ Finally(s)
      /\ late' = (late \/ (flow[s].old /\ cookie # jar))
  BY DEF Refused
<1>3. /\ phase' = phase /\ user' = user /\ jar' = cookie
      /\ flow' \in [Slots -> Flow \cup {Idle}]
  BY <1>1, <1>2, GoesSpares
<1>4. late' \in BOOLEAN /\ (late => late')  BY <1>1, <1>2 DEF IInv, TypeOK
<1>5. loading' \in BOOLEAN  BY <1>2 DEF IInv, TypeOK, Finally
<1>6. TypeOK'  BY <1>3, <1>4, <1>5 DEF IInv, TypeOK
<1>7. ScreensHaveTheirUser' /\ OthersOnlyWhenLate'
  BY <1>3, <1>4 DEF IInv, ScreensHaveTheirUser, OthersOnlyWhenLate
<1>8. ~late' /\ user # Nobody => cookie \in {user, Nobody}
  <2>1. ~late' => ~late /\ (cookie = jar \/ ~flow[s].old)  BY <1>2
  <2> QED  BY <2>1 DEF IInv, LateInv, LateOf
<1> QED  BY <1>2, <1>4, <1>6, <1>7, <1>8, EndKeeps

(* It signs a user in, and loads every list with the cookie it has. *)
LEMMA SignInKeeps ==
    ASSUME IInv, TypeOK', NEW s \in Slots, NEW u \in Users, NEW cookie \in Somebody,
           flow[s] # Idle, flow[s].at # "lists", flow[s].op \in Forms \cup {"check"},
           ~late /\ ~flow[s].old => cookie \in {u, Nobody},
           SignIn(s, u, cookie)
    PROVE  IInv'
<1> DEFINE f == Refreshing(flow[s], Lists, cookie)
<1>1. FlowTyped /\ flow[s] \in Flow  BY DEF IInv, TypeOK, FlowTyped
<1>2. /\ f \in Flow /\ f # Idle /\ f.op = flow[s].op /\ f.who = cookie /\ f.at = "lists"
      /\ f.left = Lists /\ f.old = FALSE
  <2>1. f \in Flow  BY <1>1 DEF Refreshing, Flow
  <2>2. /\ f.op = flow[s].op /\ f.who = cookie /\ f.at = "lists"
        /\ f.left = Lists /\ f.old = FALSE
    BY <1>1 DEF Refreshing, Flow
  <2> QED  BY <2>1, <2>2, FlowIsNotIdle
<1>3. Goes(s, f, "console", u, cookie)  BY DEF SignIn
<1>4. phase' = "console" /\ user' = u /\ jar' = cookie /\ flow'[s] = f
  BY <1>1, <1>2, <1>3, GoesSpares
<1>5. /\ loadingList' = [l \in Lists |-> TRUE] /\ shown' = shown /\ loading' = loading
      /\ ~late' => ~late /\ ~flow[s].old
  BY DEF SignIn
<1>6. u # Nobody  BY NobodyIsNoUser
<1>7. ~late' => user = Nobody /\ cookie \in {u, Nobody} /\ LateOf(s)'
  BY <1>2, <1>4, <1>5 DEF IInv, LateInv, LateOf
<1>8. FormsInv' /\ LateInv'
  <2>1. FormOf(s)'  BY <1>2, <1>4 DEF FormOf
  <2> QED  BY <1>1, <1>2, <1>3, <1>4, <1>5, <1>7, <2>1, SparedStand DEF IInv, FormsInv, LateInv
<1>9. ScreensHaveTheirUser' /\ OthersOnlyWhenLate'
  BY <1>4, <1>5, <1>6, <1>7 DEF IInv, ScreensHaveTheirUser, OthersOnlyWhenLate
<1>10. SpinnersAreAwaited'
  <2>1. \A l \in Lists : AwaitsList(s, l)'  BY <1>2, <1>4 DEF AwaitsList
  <2>2. AwaitsForm(s) => AwaitsForm(s)'  BY <1>2, <1>4 DEF AwaitsForm
  <2>3. loading' => \E x \in Slots : AwaitsForm(x)'
    BY <1>1, <1>2, <1>3, <1>5, <2>2, SparedStand, Spinners DEF IInv
  <2> QED  BY <2>1, <2>3 DEF SpinnersAreAwaited, Running, AwaitsForm, AwaitsList
<1> QED  BY <1>8, <1>9, <1>10 DEF IInv

(* It goes on to ask whose cookie there is. *)
LEMMA MeKeeps ==
    ASSUME IInv, TypeOK', NEW s \in Slots, NEW v \in Somebody, NEW cookie \in Somebody,
           flow[s] # Idle, flow[s].at = "sent", flow[s].op \in Forms \cup {"check"},
           flow[s].op \in Forms => v \in Users,
           cookie \in {v, Nobody}, cookie = jar \/ (late' <=> late \/ flow[s].old),
           Goes(s, Me(flow[s], v), phase, user, cookie),
           late => late', mfaCtx' = mfaCtx, shown' = shown, loading' = loading,
           loadingList' = loadingList
    PROVE  IInv'
<1> DEFINE f == Me(flow[s], v)
<1>1. FlowTyped /\ flow[s] \in Flow  BY DEF IInv, TypeOK, FlowTyped
<1>2. /\ f \in Flow /\ f # Idle /\ f.op = flow[s].op /\ f.who = v /\ f.at = "me"
      /\ f.old = flow[s].old
  BY <1>1, MeIsFlow
<1>3. phase' = phase /\ user' = user /\ jar' = cookie /\ flow'[s] = f
  BY <1>1, <1>2, GoesSpares
<1>4. FormOf(s)'  BY <1>2, <1>3 DEF FormOf
<1>5. ~late' => LateOf(s)'
  BY <1>2, <1>3 DEF IInv, LateInv, LateOf
<1>6. ~late' /\ user' # Nobody => jar' \in {user', Nobody}
  BY <1>3 DEF IInv, LateInv, LateOf
<1>7. FormsInv' /\ LateInv'
  BY <1>1, <1>2, <1>4, <1>5, <1>6, SparedStand DEF IInv, FormsInv, LateInv
<1>8. ScreensHaveTheirUser' /\ OthersOnlyWhenLate'
  BY <1>3 DEF IInv, ScreensHaveTheirUser, OthersOnlyWhenLate
<1>9. SpinnersAreAwaited'
  <2>1. AwaitsForm(s) => AwaitsForm(s)'  BY <1>2, <1>3 DEF AwaitsForm
  <2>2. \A l \in Lists : ~AwaitsList(s, l)  BY DEF AwaitsList
  <2>3. loading' => \E x \in Slots : AwaitsForm(x)'
    BY <1>1, <1>2, <2>1, SparedStand, Spinners DEF IInv
  <2>4. \A l \in Lists : loadingList'[l] => \E x \in Slots : AwaitsList(x, l)'
    BY <1>1, <1>2, <2>2, SparedStand, Spinners DEF IInv
  <2> QED  BY <2>3, <2>4 DEF SpinnersAreAwaited, Running, AwaitsForm, AwaitsList
<1> QED  BY <1>7, <1>8, <1>9 DEF IInv

(* It takes in one list; with the last it ends. *)
LEMMA ListKeeps ==
    ASSUME IInv, NEW s \in Slots, NEW l \in Lists, ListAnswered(s, l)
    PROVE  IInv'
<1> DEFINE rest == flow[s].left \ {l}
           g == IF rest = {} THEN Idle ELSE [flow[s] EXCEPT !.left = rest]
<1>1. /\ FlowTyped /\ flow[s] # Idle /\ flow[s] \in Flow
      /\ flow[s].at = "lists" /\ l \in flow[s].left
      /\ Goes(s, g, phase, user, jar) /\ mfaCtx' = mfaCtx /\ initialised' = initialised
      /\ loadingList' = [loadingList EXCEPT ![l] = FALSE]
      /\ \/ /\ flow[s].who # Nobody /\ shown' = [shown EXCEPT ![l] = flow[s].who]
            /\ late' = (late \/ flow[s].old)
         \/ shown' = shown /\ late' = late
      /\ loading' = loading \/ (rest = {} /\ Finally(s))
  BY DEF ListAnswered, IInv, TypeOK, FlowTyped
<1>2. /\ g \in Flow \cup {Idle}
      /\ rest # {} => /\ g \in Flow /\ g # Idle /\ g.op = flow[s].op /\ g.at = "lists"
                      /\ g.left = rest /\ g.who = flow[s].who /\ g.old = flow[s].old
  <2>1. CASE rest = {}  BY <2>1
  <2>2. CASE rest # {}
    <3>1. g \in Flow  BY <1>1, <2>2 DEF Flow
    <3>2. /\ g.op = flow[s].op /\ g.at = "lists" /\ g.left = rest /\ g.who = flow[s].who
          /\ g.old = flow[s].old
      BY <1>1, <2>2 DEF Flow
    <3> QED  BY <3>1, <3>2, FlowIsNotIdle
  <2> QED  BY <2>1, <2>2
<1>3. /\ phase' = phase /\ user' = user /\ jar' = jar /\ flow'[s] = g
      /\ flow' \in [Slots -> Flow \cup {Idle}]
  <2> HIDE DEF g
  <2> QED  BY <1>1, <1>2, GoesSpares
<1>4. flow[s].who \in Somebody /\ flow[s].op \in Ops  BY <1>1 DEF Flow
<1>5. TypeOK'
  BY <1>1, <1>3, <1>4 DEF IInv, TypeOK, Finally
<1>6. FormOf(s)' /\ (LateOf(s) => LateOf(s)')
  <2> HIDE DEF g
  <2>1. CASE rest = {}
    <3>1. flow'[s] = Idle  BY <1>3, <2>1 DEF g
    <3> QED  BY <3>1 DEF FormOf, LateOf
  <2>2. CASE rest # {}
    BY <1>1, <1>2, <1>3, <2>2 DEF FormOf, LateOf
  <2> QED  BY <2>1, <2>2
<1>7. late => late'  BY <1>1
<1>8. \A x \in Slots \ {s} :
         /\ FormOf(x) => FormOf(x)'
         /\ LateOf(x) => LateOf(x)'
         /\ AwaitsForm(x) => AwaitsForm(x)'
         /\ \A k \in Lists : AwaitsList(x, k) => AwaitsList(x, k)'
  <2> HIDE DEF g
  <2> QED  BY <1>1, <1>2, SparedStand
<1>9. FormsInv' /\ LateInv'
  BY <1>3, <1>6, <1>7, <1>8 DEF IInv, FormsInv, LateInv
<1>10. ScreensHaveTheirUser'  BY <1>1, <1>3 DEF IInv, ScreensHaveTheirUser
<1>11. OthersOnlyWhenLate'
  <2>1. ASSUME ~late' PROVE \A k \in Lists : shown'[k] \in {Nobody, user}
    <3>1. CASE shown' = shown
      BY <1>7, <2>1, <3>1 DEF IInv, OthersOnlyWhenLate
    <3>2. CASE /\ flow[s].who # Nobody /\ shown' = [shown EXCEPT ![l] = flow[s].who]
               /\ late' = (late \/ flow[s].old)
      <4>1. flow[s].who = user
        BY <1>1, <2>1, <3>2 DEF IInv, LateInv, LateOf
      <4> QED  BY <1>7, <2>1, <3>2, <4>1 DEF IInv, OthersOnlyWhenLate, TypeOK
    <3> QED  BY <1>1, <3>1, <3>2
  <2> QED  BY <1>3, <1>7, <2>1 DEF IInv, OthersOnlyWhenLate
<1>12. SpinnersAreAwaited'
  <2>1. loading' => \E x \in Slots : AwaitsForm(x)'
    <3> HIDE DEF g
    <3>1. CASE rest = {} /\ Finally(s)
      <4>1. loading' => \E x \in Slots : AwaitsForm(x) /\ x # s
        BY <3>1, Spinners DEF IInv, Finally, AwaitsForm, Forms
      <4> QED  BY <1>8, <4>1
    <3>2. CASE loading' = loading /\ rest # {}
      <4>1. AwaitsForm(s) => AwaitsForm(s)'
        BY <1>2, <1>3, <3>2 DEF AwaitsForm
      <4> QED  BY <1>8, <3>2, <4>1, Spinners DEF IInv
    <3> QED  BY <3>1, <3>2 DEF ListAnswered
  <2>2. \A k \in Lists : loadingList'[k] => \E x \in Slots : AwaitsList(x, k)'
    <3> HIDE DEF g
    <3>1. TAKE k \in Lists
    <3>2. HAVE loadingList'[k]
    <3>3. k # l /\ loadingList[k]  BY <1>1, <3>2 DEF IInv, TypeOK
    <3>4. PICK x \in Slots : AwaitsList(x, k)  BY <3>3, Spinners DEF IInv
    <3>5. CASE x # s  BY <1>8, <3>4, <3>5
    <3>6. CASE x = s
      <4>1. k \in rest  BY <3>3, <3>4, <3>6 DEF AwaitsList
      <4> QED  BY <1>2, <1>3, <3>6, <4>1 DEF AwaitsList
    <3> QED  BY <3>5, <3>6
  <2> QED  BY <2>1, <2>2 DEF SpinnersAreAwaited, Running, AwaitsForm, AwaitsList
<1> QED  BY <1>5, <1>9, <1>10, <1>11, <1>12 DEF IInv

-----------------------------------------------------------------------------
(* What is begun. *)

(* A flow takes a free slot: the screen and the lists stay. *)
LEMMA TakenKeeps ==
    ASSUME IInv, NEW s \in Slots, NEW f \in Flow, flow[s] = Idle,
           flow' = [flow EXCEPT ![s] = f],
           UNCHANGED <<phase, user, mfaCtx, shown, server, late>>,
           loading' \in BOOLEAN, loading' => loading \/ f.op \in Forms,
           loadingList' \in [Lists -> BOOLEAN],
           \A l \in Lists : loadingList'[l] => loadingList[l] \/ (f.at = "lists" /\ l \in f.left),
           f.op \in Forms => f.who \in Users,
           f.at # "me",
           ~late => /\ f.at = "lists" => f.who \in {user, Nobody}
                    /\ f.at # "lists" /\ f.op \in Forms \cup {"check"} => user = Nobody
    PROVE  IInv'
<1>1. f # Idle  BY FlowIsNotIdle
<1>2. TypeOK'  BY DEF IInv, TypeOK, server
<1>3. /\ flow'[s] = f
      /\ \A x \in Slots \ {s} : flow'[x] = flow[x]
  BY DEF IInv, TypeOK
<1>4. FormsInv'  BY <1>3 DEF IInv, FormsInv, FormOf
<1>5. LateInv'  BY <1>3 DEF IInv, LateInv, LateOf, server
<1>6. ScreensHaveTheirUser' /\ OthersOnlyWhenLate'
  BY DEF IInv, ScreensHaveTheirUser, OthersOnlyWhenLate
<1>7. SpinnersAreAwaited'
  <2>1. \A x \in Slots : AwaitsForm(x) => AwaitsForm(x)'
    BY <1>3 DEF AwaitsForm
  <2>2. \A x \in Slots, l \in Lists : AwaitsList(x, l) => AwaitsList(x, l)'
    BY <1>3 DEF AwaitsList
  <2>3. f.op \in Forms => AwaitsForm(s)'  BY <1>1, <1>3 DEF AwaitsForm
  <2>4. \A l \in Lists : f.at = "lists" /\ l \in f.left => AwaitsList(s, l)'
    BY <1>1, <1>3 DEF AwaitsList
  <2> QED  BY <2>1, <2>2, <2>3, <2>4, Spinners
           DEF IInv, SpinnersAreAwaited, Running, AwaitsForm, AwaitsList
<1> QED  BY <1>2, <1>4, <1>5, <1>6, <1>7 DEF IInv

LEMMA ActsKeep == ASSUME IInv, NEW s \in Slots, Acts(s) PROVE IInv'
<1>1. ASSUME NEW op \in Forms, NEW u \in Users, Submit(s, op, u), phase # "console" PROVE IInv'
  <2> DEFINE f == Begun(op, u)
  <2>1. f \in Flow  BY <1>1 DEF Begun, Flow, Forms, Ops, Somebody
  <2>2. f.op = op /\ f.who = u /\ f.at = "sent"  BY DEF Begun
  <2>3. /\ flow[s] = Idle /\ flow' = [flow EXCEPT ![s] = f] /\ loading' = TRUE
        /\ UNCHANGED <<phase, user, mfaCtx, shown, server, late>> /\ loadingList' = loadingList
    BY <1>1 DEF Submit, Begin
  <2>4. ~late => user = Nobody  BY <1>1 DEF IInv, OthersOnlyWhenLate
  <2>5. loadingList' \in [Lists -> BOOLEAN]  BY <2>3 DEF IInv, TypeOK
  <2> HIDE DEF f
  <2> QED  BY <2>1, <2>2, <2>3, <2>4, <2>5, TakenKeeps
<1>2. ASSUME NEW ls \in SUBSET Lists, phase = "console", Refreshes(s, ls) PROVE IInv'
  <2> DEFINE f == Refreshing(Begun("refresh", Nobody), ls, jar)
  <2>1. jar \in Somebody  BY DEF IInv, TypeOK
  <2>2. Begun("refresh", Nobody) \in Flow  BY DEF Begun, Flow, Ops, Somebody
  <2>3. f \in Flow  BY <2>1, <2>2 DEF Refreshing, Flow
  <2>4. f.op = "refresh" /\ f.who = jar /\ f.at = "lists" /\ f.left = ls
    BY <2>2 DEF Refreshing, Begun
  <2>5. /\ flow[s] = Idle /\ flow' = [flow EXCEPT ![s] = f]
        /\ loadingList' = [l \in Lists |-> loadingList[l] \/ l \in ls]
        /\ UNCHANGED <<phase, user, mfaCtx, shown, server, late>> /\ loading' = loading
    BY <1>2 DEF Refreshes
  <2>6. ~late => jar \in {user, Nobody}
    BY <1>2 DEF IInv, OthersOnlyWhenLate, LateInv
  <2>7. loading' \in BOOLEAN /\ loadingList' \in [Lists -> BOOLEAN]
    BY <2>5 DEF IInv, TypeOK
  <2>8. f.op \notin Forms  BY <2>4 DEF Forms
  <2> HIDE DEF f
  <2> QED  BY <2>3, <2>4, <2>5, <2>6, <2>7, <2>8, TakenKeeps
<1>3. CASE Logout(s)
  <2> DEFINE f == Begun("logout", Nobody)
  <2>1. f \in Flow  BY DEF Begun, Flow, Ops, Somebody
  <2>2. f.op = "logout" /\ f.at = "sent"  BY DEF Begun
  <2>3. /\ flow[s] = Idle /\ flow' = [flow EXCEPT ![s] = f] /\ loading' = loading
        /\ UNCHANGED <<phase, user, mfaCtx, shown, server, late>> /\ loadingList' = loadingList
    BY <1>3 DEF Logout, Begin
  <2>4. loading' \in BOOLEAN /\ loadingList' \in [Lists -> BOOLEAN]
    BY <2>3 DEF IInv, TypeOK
  <2>5. f.op \notin Forms \cup {"check"}  BY <2>2 DEF Forms
  <2> HIDE DEF f
  <2> QED  BY <2>1, <2>2, <2>3, <2>4, <2>5, TakenKeeps
<1>4. ASSUME NEW u \in Users, Initialize(s, u) \/ Password(s, u) PROVE IInv'
  BY <1>1, <1>4 DEF Initialize, Password, LoginShown, Forms
<1>5. CASE Code(s)
  <2>1. mfaCtx \in Users  BY <1>5 DEF Code, IInv, TypeOK, Somebody
  <2> QED  BY <1>1, <1>5, <2>1 DEF Code, LoginShown, Forms
<1>6. CASE Poll(s) \/ \E ls \in SUBSET Lists : Reload(s, ls)
  BY <1>2, <1>6 DEF Poll, Reload
<1> QED  BY <1>3, <1>4, <1>5, <1>6 DEF Acts

(* A page that is loaded starts from nothing but the cookie. *)
LEMMA FreshStart ==
    ASSUME /\ phase' = "login" /\ user' = Nobody /\ mfaCtx' = Nobody
           /\ shown' = [l \in Lists |-> Nobody] /\ loading' = FALSE
           /\ loadingList' = [l \in Lists |-> FALSE] /\ late' = FALSE,
           jar' \in Somebody, initialised' \in BOOLEAN,
           NEW b \in Flow, b.op = "check", b.at = "sent",
           \E s, t \in Slots : flow' = [x \in Slots |-> IF x \in {s, t} THEN b ELSE Idle]
    PROVE  IInv'
<1>1. flow' \in [Slots -> Flow \cup {Idle}]
      /\ \A x \in Slots : flow'[x] = b \/ flow'[x] = Idle
  OBVIOUS
<1>2. TypeOK'  BY <1>1 DEF TypeOK, Somebody
<1>3. FormsInv' /\ LateInv'
  BY <1>1 DEF FormsInv, LateInv, FormOf, LateOf, Forms
<1>4. ScreensHaveTheirUser' /\ OthersOnlyWhenLate' /\ SpinnersAreAwaited'
  BY DEF ScreensHaveTheirUser, OthersOnlyWhenLate, SpinnersAreAwaited
<1> QED  BY <1>2, <1>3, <1>4 DEF IInv

LEMMA PageLoadKeeps == ASSUME IInv, NEW cookie \in Somebody, PageLoad(cookie) PROVE IInv'
<1> DEFINE b == Begun("check", Nobody)
<1>1. b \in Flow  BY DEF Begun, Flow, Ops, Somebody
<1>2. b.op = "check" /\ b.at = "sent"  BY DEF Begun
<1>3. initialised' \in BOOLEAN  BY DEF PageLoad, IInv, TypeOK
<1>4. \E s, t \in Slots : flow' = [x \in Slots |-> IF x \in {s, t} THEN b ELSE Idle]
  BY DEF PageLoad
<1> HIDE DEF b
<1> QED  BY <1>1, <1>2, <1>3, <1>4, FreshStart DEF PageLoad

LEMMA ExpireKeeps == ASSUME IInv, Expire PROVE IInv'
<1>1. TypeOK'  BY DEF Expire, IInv, TypeOK, Somebody
<1>2. FormsInv' /\ LateInv'
  BY DEF Expire, IInv, FormsInv, FormOf, LateInv, LateOf
<1> QED  BY <1>1, <1>2
         DEF Expire, IInv, ScreensHaveTheirUser, OthersOnlyWhenLate, SpinnersAreAwaited, Running

-----------------------------------------------------------------------------
(* What comes back. *)

(* The types of an answer's step, once the flows are known to be flows. *)
LEMMA AnswerTypes ==
    ASSUME IInv, NEW s \in Slots, NEW f \in Flow \cup {Idle}, NEW ph, NEW u, NEW cookie,
           Goes(s, f, ph, u, cookie),
           ph \in {"setup", "login", "mfa", "console"}, u \in Somebody, cookie \in Somebody,
           mfaCtx' \in Somebody, shown' \in [Lists -> Somebody],
           loading' = loading \/ Finally(s),
           loadingList' \in [Lists -> BOOLEAN], initialised' \in BOOLEAN, late' \in BOOLEAN
    PROVE  TypeOK'
<1>1. FlowTyped  BY DEF IInv, TypeOK, FlowTyped
<1>2. loading' \in BOOLEAN  BY DEF Finally, IInv, TypeOK
<1>3. phase' = ph /\ user' = u /\ jar' = cookie /\ flow' \in [Slots -> Flow \cup {Idle}]
  BY <1>1, GoesSpares
<1> QED  BY <1>2, <1>3 DEF TypeOK

LEMMA SignInTypes ==
    ASSUME IInv, NEW s \in Slots, NEW u \in Users, NEW cookie \in Somebody, flow[s] # Idle,
           SignIn(s, u, cookie), mfaCtx' \in Somebody, initialised' \in BOOLEAN
    PROVE  TypeOK'
<1> DEFINE f == Refreshing(flow[s], Lists, cookie)
<1>1. flow[s] \in Flow  BY DEF IInv, TypeOK
<1>2. f \in Flow  BY <1>1 DEF Refreshing, Flow
<1>3. flow[s].old \in BOOLEAN  BY <1>1 DEF Flow
<1>4. /\ Goes(s, f, "console", u, cookie) /\ u \in Somebody
      /\ shown' \in [Lists -> Somebody] /\ loading' = loading
      /\ loadingList' \in [Lists -> BOOLEAN] /\ late' \in BOOLEAN
  BY <1>3 DEF SignIn, IInv, TypeOK, Somebody
<1> HIDE DEF f
<1> QED  BY <1>2, <1>4, AnswerTypes

LEMMA AnsweredKeeps == ASSUME IInv, NEW s \in Slots, Answered(s) PROVE IInv'
<1> DEFINE g == flow[s]
<1>1. ASSUME g # Idle
      PROVE  g \in Flow /\ g.who \in Somebody /\ g.op \in Ops /\ g.old \in BOOLEAN
  BY <1>1 DEF IInv, TypeOK, Flow
<1>2. /\ Idle \in Flow \cup {Idle}
      /\ user \in Somebody /\ jar \in Somebody /\ mfaCtx \in Somebody
      /\ phase \in {"setup", "login", "mfa", "console"}
      /\ shown \in [Lists -> Somebody] /\ loadingList \in [Lists -> BOOLEAN]
      /\ initialised \in BOOLEAN /\ late \in BOOLEAN /\ Nobody \in Somebody
      /\ Users \subseteq Somebody
  BY DEF IInv, TypeOK, Somebody
<1>3. ~late => (user # Nobody => jar \in {user, Nobody}) /\ LateOf(s)
  BY DEF IInv, LateInv
<1>4. FormOf(s)  BY DEF IInv, FormsInv
<1>5. CASE CheckAnswered(s)
  <2>1. /\ g # Idle /\ g.op = "check" /\ g.at = "sent"
        /\ mfaCtx' = mfaCtx /\ shown' = shown /\ loadingList' = loadingList
        /\ initialised' = initialised /\ late' = (late \/ (g.old /\ phase' # phase))
    BY <1>5 DEF CheckAnswered, Awaits
  <2>2. late' \in BOOLEAN /\ late => late'  BY <1>1, <1>2, <2>1
  <2>3. ASSUME NEW ph \in {"setup", "login"}, Goes(s, Idle, ph, user, jar), Finally(s)
        PROVE  IInv'
    <3>1. TypeOK'  BY <1>2, <2>1, <2>2, <2>3, AnswerTypes
    <3>2. phase' = ph /\ user' = user  BY <2>3 DEF Goes
    <3>3. ~late' => ~late /\ (g.old => ph = phase)  BY <2>1, <3>2
    <3>4. ScreensHaveTheirUser'  BY <3>2 DEF ScreensHaveTheirUser
    <3>5. OthersOnlyWhenLate'
      BY <1>3, <2>1, <2>3, <3>2, <3>3 DEF IInv, OthersOnlyWhenLate, LateOf
    <3> QED  BY <1>3, <2>1, <2>3, <3>1, <3>3, <3>4, <3>5, EndKeeps
  <2>4. CASE Goes(s, Me(g, jar), phase, user, jar) /\ UNCHANGED loading
    <3>1. Me(g, jar) \in Flow \cup {Idle}  BY <1>1, <1>2, <2>1 DEF Me, Flow
    <3>2. TypeOK'  BY <1>2, <2>1, <2>2, <2>4, <3>1, AnswerTypes
    <3>3. g.op \notin Forms  BY <2>1 DEF Forms
    <3> QED  BY <1>2, <2>1, <2>4, <3>2, <3>3, MeKeeps
  <2> QED  BY <1>5, <2>3, <2>4 DEF CheckAnswered
<1>6. CASE CheckMeAnswered(s)
  <2>1. g # Idle /\ g.op = "check" /\ g.at = "me" /\ mfaCtx' = mfaCtx /\ initialised' = initialised
    BY <1>6 DEF CheckMeAnswered, Awaits
  <2>2. CASE g.who # Nobody /\ SignIn(s, g.who, jar)
    <3>1. g.who \in Users  BY <1>1, <2>1, <2>2 DEF Somebody
    <3>2. TypeOK'  BY <1>2, <2>1, <2>2, <3>1, SignInTypes
    <3>3. ~late /\ ~g.old => jar \in {g.who, Nobody}  BY <1>3, <2>1 DEF LateOf
    <3> QED  BY <1>2, <2>1, <2>2, <3>1, <3>2, <3>3, SignInKeeps
  <2>3. CASE /\ Goes(s, Idle, "login", user, jar) /\ Finally(s)
             /\ late' = (late \/ g.old) /\ shown' = shown /\ loadingList' = loadingList
    <3>1. TypeOK'  BY <1>1, <1>2, <2>1, <2>3, AnswerTypes
    <3>2. phase' = "login" /\ user' = user  BY <2>3 DEF Goes
    <3>3. ~late' => ~late /\ user = Nobody  BY <1>3, <2>1, <2>3 DEF LateOf
    <3>4. ScreensHaveTheirUser' /\ OthersOnlyWhenLate'
      BY <2>3, <3>2, <3>3 DEF IInv, ScreensHaveTheirUser, OthersOnlyWhenLate
    <3> QED  BY <2>1, <2>3, <3>1, <3>3, <3>4, EndKeeps
  <2> QED  BY <1>6, <2>2, <2>3 DEF CheckMeAnswered
<1>7. CASE InitAnswered(s)
  <2>1. g # Idle /\ g.op = "init" /\ g.at = "sent" /\ mfaCtx' = mfaCtx
    BY <1>7 DEF InitAnswered, Awaits
  <2>2. g.who \in Users  BY <1>4, <2>1 DEF FormOf, Forms
  <2>3. CASE initialised' = TRUE /\ SignIn(s, g.who, g.who)
    <3>1. TypeOK'  BY <1>2, <2>1, <2>2, <2>3, SignInTypes
    <3>2. g.op \in Forms  BY <2>1 DEF Forms
    <3> QED  BY <1>2, <2>1, <2>2, <2>3, <3>1, <3>2, SignInKeeps
  <2>4. ASSUME NEW cookie \in {jar, g.who}, Refused(s, cookie), UNCHANGED <<shown, loadingList>>,
               initialised' \in {initialised, TRUE}
        PROVE  IInv'
    <3>1. cookie \in Somebody /\ initialised' \in BOOLEAN /\ g.op \in Forms
      BY <1>1, <1>2, <2>1, <2>4 DEF Forms
    <3> QED  BY <2>1, <2>4, <3>1, RefusedKeeps
  <2> QED  BY <1>7, <2>3, <2>4 DEF InitAnswered
<1>8. CASE LoginAnswered(s)
  <2>1. /\ g # Idle /\ g.op = "login" /\ g.at = "sent" /\ g.op \in Forms
        /\ shown' = shown /\ loadingList' = loadingList /\ initialised' = initialised
    BY <1>8 DEF LoginAnswered, Awaits, Forms
  <2>2. g.who \in Users /\ g.who # Nobody /\ g.who \in Somebody
    BY <1>2, <1>4, <2>1, NobodyIsNoUser DEF FormOf
  <2>3. CASE /\ mfaCtx' = g.who /\ Goes(s, Idle, "mfa", user, jar) /\ Finally(s)
             /\ late' = (late \/ g.old)
    <3>1. TypeOK'  BY <1>1, <1>2, <2>1, <2>2, <2>3, AnswerTypes
    <3>2. phase' = "mfa" /\ user' = user  BY <2>3 DEF Goes
    <3>3. ~late' => ~late /\ user = Nobody  BY <1>3, <2>1, <2>3 DEF LateOf
    <3>4. ScreensHaveTheirUser' /\ OthersOnlyWhenLate'
      BY <2>1, <2>2, <2>3, <3>2, <3>3 DEF IInv, ScreensHaveTheirUser, OthersOnlyWhenLate
    <3> QED  BY <2>1, <2>3, <3>1, <3>3, <3>4, EndKeeps
  <2>4. CASE /\ Goes(s, Me(g, g.who), phase, user, g.who)
             /\ late' = (late \/ g.old) /\ UNCHANGED <<mfaCtx, loading>>
    <3>1. Me(g, g.who) \in Flow \cup {Idle}  BY <1>1, <2>1 DEF Me, Flow
    <3>2. TypeOK'  BY <1>1, <1>2, <2>1, <2>2, <2>4, <3>1, AnswerTypes
    <3> QED  BY <2>1, <2>2, <2>4, <3>2, MeKeeps
  <2>5. ASSUME NEW cookie \in {jar, g.who}, Refused(s, cookie), mfaCtx' = mfaCtx PROVE IInv'
    <3>1. cookie \in Somebody /\ initialised' \in BOOLEAN  BY <1>2, <2>1, <2>2, <2>5
    <3> QED  BY <2>1, <2>5, <3>1, RefusedKeeps
  <2> QED  BY <1>8, <2>3, <2>4, <2>5 DEF LoginAnswered
<1>9. CASE MfaAnswered(s)
  <2>1. /\ g # Idle /\ g.op = "mfa" /\ g.at = "sent" /\ g.op \in Forms
        /\ mfaCtx' = mfaCtx /\ shown' = shown /\ loadingList' = loadingList
        /\ initialised' = initialised
    BY <1>9 DEF MfaAnswered, Awaits, Forms
  <2>2. g.who \in Users /\ g.who \in Somebody  BY <1>2, <1>4, <2>1 DEF FormOf
  <2>3. CASE /\ Goes(s, Me(g, g.who), phase, user, g.who)
             /\ late' = (late \/ g.old) /\ UNCHANGED loading
    <3>1. Me(g, g.who) \in Flow \cup {Idle}  BY <1>1, <2>1 DEF Me, Flow
    <3>2. TypeOK'  BY <1>1, <1>2, <2>1, <2>2, <2>3, <3>1, AnswerTypes
    <3> QED  BY <2>1, <2>2, <2>3, <3>2, MeKeeps
  <2>4. ASSUME NEW cookie \in {jar, g.who}, Refused(s, cookie) PROVE IInv'
    <3>1. cookie \in Somebody /\ initialised' \in BOOLEAN  BY <1>2, <2>1, <2>2, <2>4
    <3> QED  BY <2>1, <2>4, <3>1, RefusedKeeps
  <2> QED  BY <1>9, <2>3, <2>4 DEF MfaAnswered
<1>10. CASE MeAnswered(s)
  <2>1. /\ g # Idle /\ g.at = "me" /\ g.op \in Forms /\ initialised' = initialised
    BY <1>10 DEF MeAnswered, Awaits, Forms
  <2>2. g.who \in Users  BY <1>4, <2>1 DEF FormOf
  <2>3. CASE SignIn(s, g.who, jar) /\ mfaCtx' \in {Nobody, mfaCtx}
    <3>1. TypeOK'  BY <1>2, <2>1, <2>2, <2>3, SignInTypes
    <3>2. ~late /\ ~g.old => jar \in {g.who, Nobody}  BY <1>3, <2>1 DEF LateOf
    <3> QED  BY <1>2, <2>1, <2>2, <2>3, <3>1, <3>2, SignInKeeps
  <2>4. CASE /\ Goes(s, Idle, phase, user, jar) /\ Finally(s)
             /\ UNCHANGED <<mfaCtx, shown, loadingList, late>>
    <3>1. TypeOK'  BY <1>2, <2>1, <2>4, AnswerTypes
    <3>2. phase' = phase /\ user' = user  BY <2>4 DEF Goes
    <3>3. ScreensHaveTheirUser' /\ OthersOnlyWhenLate'
      BY <2>1, <2>4, <3>2 DEF IInv, ScreensHaveTheirUser, OthersOnlyWhenLate
    <3> QED  BY <1>3, <2>1, <2>4, <3>1, <3>3, EndKeeps
  <2> QED  BY <1>10, <2>3, <2>4 DEF MeAnswered
<1>11. CASE LogoutAnswered(s)
  <2>1. PICK cookie \in {jar, Nobody} : Goes(s, Idle, "login", Nobody, cookie)
    BY <1>11 DEF LogoutAnswered
  <2>2. /\ g # Idle /\ g.op = "logout" /\ g.at = "sent"
        /\ shown' = [l \in Lists |-> Nobody]
        /\ UNCHANGED <<mfaCtx, loading, loadingList, initialised, late>>
    BY <1>11 DEF LogoutAnswered, Awaits
  <2>3. cookie \in Somebody /\ shown' \in [Lists -> Somebody]  BY <1>2, <2>2
  <2>4. TypeOK'  BY <1>2, <2>1, <2>2, <2>3, AnswerTypes
  <2>5. Finally(s)  BY <2>2 DEF Finally, IInv, TypeOK
  <2>6. phase' = "login" /\ user' = Nobody  BY <2>1 DEF Goes
  <2>7. ScreensHaveTheirUser' /\ OthersOnlyWhenLate'
    BY <2>2, <2>6 DEF ScreensHaveTheirUser, OthersOnlyWhenLate
  <2> QED  BY <2>1, <2>2, <2>4, <2>5, <2>7, EndKeeps
<1>12. CASE \E l \in Lists : ListAnswered(s, l)  BY <1>12, ListKeeps
<1> QED  BY <1>5, <1>6, <1>7, <1>8, <1>9, <1>10, <1>11, <1>12 DEF Answered

-----------------------------------------------------------------------------
(* The invariant. *)

LEMMA InitInv == Init => IInv
<1> SUFFICES ASSUME Init PROVE IInv  OBVIOUS
<1> DEFINE b == Begun("check", Nobody)
<1>1. b \in Flow  BY DEF Begun, Flow, Ops, Somebody, Init
<1>2. b.op = "check" /\ b.at = "sent"  BY DEF Begun
<1>3. \E s, t \in Slots : flow = [x \in Slots |-> IF x \in {s, t} THEN b ELSE Idle]
  BY DEF Init
<1> HIDE DEF b
<1>4. flow \in [Slots -> Flow \cup {Idle}] /\ \A x \in Slots : flow[x] = b \/ flow[x] = Idle
  BY <1>1, <1>3
<1>5. TypeOK  BY <1>4 DEF Init, Start, TypeOK, Somebody
<1>6. FormsInv /\ LateInv
  BY <1>2, <1>4 DEF Init, Start, FormsInv, LateInv, FormOf, LateOf, Forms
<1>7. ScreensHaveTheirUser /\ OthersOnlyWhenLate /\ SpinnersAreAwaited
  BY DEF Init, Start, ScreensHaveTheirUser, OthersOnlyWhenLate, SpinnersAreAwaited
<1> QED  BY <1>5, <1>6, <1>7 DEF IInv

LEMMA StepInv == ASSUME IInv, Next PROVE IInv'
<1>1. jar \in Somebody /\ Users \subseteq Somebody  BY DEF IInv, TypeOK, Somebody
<1>2. CASE \E u \in Users : SingleSignOn(u)
  BY <1>1, <1>2, PageLoadKeeps DEF SingleSignOn
<1> QED  BY <1>1, <1>2, ActsKeep, AnsweredKeeps, PageLoadKeeps, ExpireKeeps DEF Next

LEMMA StutterInv == ASSUME IInv, UNCHANGED vars PROVE IInv'
BY DEF vars, IInv, TypeOK, FormsInv, FormOf, LateInv, LateOf, ScreensHaveTheirUser,
       OthersOnlyWhenLate, SpinnersAreAwaited, Running

(* The inductive invariant holds. *)
THEOREM Invariance == Spec => []IInv
<1>1. IInv /\ [Next]_vars => IInv'  BY StepInv, StutterInv
<1> QED  BY InitInv, <1>1, PTL DEF Spec

(* Every variable holds a value of its kind, however the flows overlap. *)
THEOREM TypeCorrect == Spec => []TypeOK
<1>1. IInv => TypeOK  BY DEF IInv
<1> QED  BY Invariance, <1>1, PTL

(* The console never stands on the screen without a user, nor the second   *)
(* factor without a challenge, whichever answers come and in what order.   *)
THEOREM ScreensHold == Spec => []ScreensHaveTheirUser
<1>1. IInv => ScreensHaveTheirUser  BY DEF IInv
<1> QED  BY Invariance, <1>1, PTL

(* Until an answer comes after its user has gone, no list shows another    *)
(* user's data.                                                            *)
THEOREM OthersHold == Spec => []OthersOnlyWhenLate
<1>1. IInv => OthersOnlyWhenLate  BY DEF IInv
<1> QED  BY Invariance, <1>1, PTL

(* Whatever spins has a flow that will stop it, or be answered for it.     *)
THEOREM SpinnersHold == Spec => []SpinnersAreAwaited
<1>1. IInv => SpinnersAreAwaited  BY DEF IInv
<1> QED  BY Invariance, <1>1, PTL
=============================================================================
