---------------------------- MODULE ServerProofs ----------------------------
(***************************************************************************)
(* Proofs about Accounts, for any users, passwords and requests, about     *)
(* Catalogue, for any administrators, models and browsers, about           *)
(* Submission, for any requests, tokens, limits and credits, about Pages,  *)
(* for any rows and pages, about Upstream, for any models, and about       *)
(* Offer, for any configurations.                                          *)
(***************************************************************************)
EXTENDS Accounts, Catalogue, Submission, Pages, Upstream, Offer, FiniteSetTheorems, TLAPS

-----------------------------------------------------------------------------
(* Accounts: types *)

Acts ==
    {Idle}
    \cup [pc : {"read"}, caller : Users, target : Users]
    \cup [pc : {"update"}, caller : Users, target : Users, role : Roles, status : Standings]
    \cup [pc : {"rehash"}, caller : Users, new : Passwords]
    \cup [pc : {"get", "change"}, caller : Users, old : Passwords, new : Passwords]

AccountTypes ==
    /\ user \in [Users -> Row]
    /\ act \in [Handlers -> Acts]
    /\ changes \in Nat
    /\ robbed \subseteq Handlers
    /\ late \in BOOLEAN
    /\ answered \in [Users -> Passwords]
    /\ crossed \subseteq Users

\* What is known of a request by the point it stands at.
LEMMA ActFields ==
    ASSUME NEW a \in Acts
    PROVE  /\ a.pc \in {"idle", "read", "update", "rehash", "get", "change"}
           /\ a.pc # "idle" => a.caller \in Users
           /\ a.pc \in {"read", "update"} => a.target \in Users
           /\ a.pc = "update" => a.role \in Roles /\ a.status \in Standings
           /\ a.pc \in {"rehash", "get", "change"} => a.new \in Passwords
           /\ a.pc \in {"get", "change"} => [a EXCEPT !.pc = "change"] \in Acts
           /\ a.pc = "get" =>
                 /\ [a EXCEPT !.pc = "change"].pc = "change"
                 /\ [a EXCEPT !.pc = "change"].caller = a.caller
<1>1. CASE a = Idle
  BY <1>1 DEF Idle, Resting
<1>2. CASE a \in [pc : {"read"}, caller : Users, target : Users]
  BY <1>2
<1>3. CASE a \in [pc : {"update"}, caller : Users, target : Users, role : Roles, status : Standings]
  BY <1>3
<1>4. CASE a \in [pc : {"rehash"}, caller : Users, new : Passwords]
  BY <1>4
<1>5. CASE a \in [pc : {"get", "change"}, caller : Users, old : Passwords, new : Passwords]
  BY <1>5 DEF Acts
<1> QED
  BY <1>1, <1>2, <1>3, <1>4, <1>5 DEF Acts

\* A step of one request leaves the others where they are.
LEMMA DoMoves ==
    ASSUME AccountTypes, NEW h \in Handlers, NEW a \in Acts, Do(h, a)
    PROVE  /\ act' \in [Handlers -> Acts]
           /\ act'[h] = a
           /\ \A g \in Handlers \ {h} : act'[g] = act[g]
  BY DEF AccountTypes, Do

LEMMA AccountTypesKept ==
    ASSUME AccountTypes, AccountsNext
    PROVE  AccountTypes'
<1> USE DEF AccountTypes
<1>i. Idle \in Acts
  BY DEF Acts
<1>1. ASSUME NEW h \in Handlers, NEW u \in Users, NEW v \in Users, Authorize(h, u, v) PROVE AccountTypes'
  <2>1. [pc |-> "read", caller |-> u, target |-> v] \in Acts
    BY DEF Acts
  <2> QED
    BY <1>1, <2>1, DoMoves DEF Authorize
<1>2. ASSUME NEW h \in Handlers, Decide(h) PROVE AccountTypes'
  <2>1. act[h].caller \in Users /\ act[h].target \in Users
    BY <1>2, ActFields DEF Decide
  <2>2. PICK role \in Roles, status \in Standings :
           \/ Do(h, Idle)
           \/ Do(h, [pc |-> "update", caller |-> act[h].caller, target |-> act[h].target,
                     role |-> role, status |-> status])
    BY <1>2 DEF Decide
  <2>3. [pc |-> "update", caller |-> act[h].caller, target |-> act[h].target,
         role |-> role, status |-> status] \in Acts
    BY <2>1 DEF Acts
  <2> QED
    BY <1>2, <1>i, <2>2, <2>3, DoMoves DEF Decide
<1>3. ASSUME NEW h \in Handlers, UpdateProfile(h) PROVE AccountTypes'
  <2>1. act[h].target \in Users /\ act[h].role \in Roles /\ act[h].status \in Standings
    BY <1>3, ActFields DEF UpdateProfile
  <2>2. user' \in [Users -> Row]
    BY <1>3, <2>1 DEF UpdateProfile, Row
  <2> QED
    BY <1>3, <1>i, <2>2, DoMoves DEF UpdateProfile
<1>4. ASSUME NEW h \in Handlers, NEW u \in Users, LogIn(h, u) PROVE AccountTypes'
  <2>1. [pc |-> "rehash", caller |-> u, new |-> user[u].password] \in Acts
    BY DEF Acts, Row
  <2> QED
    BY <1>4, <2>1, DoMoves DEF LogIn
<1>5. ASSUME NEW h \in Handlers, Rehash(h) PROVE AccountTypes'
  <2>1. act[h].caller \in Users /\ act[h].new \in Passwords
    BY <1>5, ActFields DEF Rehash
  <2>2. user' \in [Users -> Row]
    BY <1>5, <2>1 DEF Rehash, Row
  <2> QED
    BY <1>5, <1>i, <2>2, DoMoves DEF Rehash
<1>6. ASSUME NEW h \in Handlers, NEW u \in Users, NEW p \in Passwords, NEW q \in Passwords, AskChange(h, u, p, q)
      PROVE AccountTypes'
  <2>1. [pc |-> "get", caller |-> u, old |-> p, new |-> q] \in Acts
    BY DEF Acts
  <2> QED
    BY <1>6, <2>1, DoMoves DEF AskChange
<1>7. ASSUME NEW h \in Handlers, Compare(h) PROVE AccountTypes'
  <2>1. [act[h] EXCEPT !.pc = "change"] \in Acts
    BY <1>7, ActFields DEF Compare
  <2> QED
    BY <1>7, <1>i, <2>1, DoMoves DEF Compare
<1>8. ASSUME NEW h \in Handlers, ChangePassword(h) PROVE AccountTypes'
  <2>1. act[h].caller \in Users /\ act[h].new \in Passwords
    BY <1>8, ActFields DEF ChangePassword
  <2>2. user' \in [Users -> Row] /\ answered' \in [Users -> Passwords]
    BY <1>8, <2>1 DEF ChangePassword, Row
  <2> QED
    BY <1>8, <1>i, <2>2, DoMoves DEF ChangePassword
<1> QED
  BY <1>1, <1>2, <1>3, <1>4, <1>5, <1>6, <1>7, <1>8 DEF AccountsNext

LEMMA AccountTypesInit == AccountsInit => AccountTypes
<1> SUFFICES ASSUME AccountsInit PROVE AccountTypes
  OBVIOUS
<1>1. PICK p \in Passwords :
         /\ user = [u \in Users |-> [role |-> IF u \in Admin0 THEN "admin" ELSE "user", status |-> "active",
                                     password |-> p, old |-> TRUE]]
         /\ answered = [u \in Users |-> p]
  BY DEF AccountsInit
<1>2. user \in [Users -> Row]
  BY <1>1 DEF Row, Roles, Standings
<1>3. act \in [Handlers -> Acts]
  BY DEF AccountsInit, Acts
<1> QED
  BY <1>1, <1>2, <1>3 DEF AccountsInit, AccountTypes

-----------------------------------------------------------------------------
(* Accounts: somebody may administer *)

\* A request that was not robbed has an administrator as its caller, and does
\* not take the role from that caller.
CallersAdminister ==
    \A h \in Handlers \ robbed : act[h].pc \in {"read", "update"} =>
        /\ MayAdminister(act[h].caller)
        /\ act[h].pc = "update" /\ act[h].target = act[h].caller =>
              act[h].role = "admin" /\ act[h].status = "active"

AdminInv == AccountTypes /\ CallersAdminister /\ SomeAdminLeft

LEMMA AdminInvInit == AccountsInit => AdminInv
<1> SUFFICES ASSUME AccountsInit PROVE AdminInv
  OBVIOUS
<1>1. \A u \in Admin0 : u \in Users /\ MayAdminister(u)
  BY AccountsAssumption DEF AccountsInit, MayAdminister, MayLogIn
<1>2. SomeAdminLeft
  BY <1>1, AccountsAssumption DEF SomeAdminLeft
<1>3. CallersAdminister
  BY DEF AccountsInit, CallersAdminister, Idle, Resting
<1> QED
  BY <1>2, <1>3, AccountTypesInit DEF AdminInv

\* Steps that touch neither a role nor a standing and move one request to a
\* place where it administers nothing.
LEMMA AdminInvHarmless ==
    ASSUME AdminInv, AccountTypes', NEW h \in Handlers,
           \A g \in Handlers \ {h} : act'[g] = act[g],
           act'[h].pc \notin {"read", "update"},
           \A u \in Users : user'[u].role = user[u].role /\ user'[u].status = user[u].status,
           robbed' = robbed, late' = late
    PROVE  AdminInv'
<1>1. \A u \in Users : MayAdminister(u)' <=> MayAdminister(u)
  BY DEF MayAdminister, MayLogIn
<1>2. SomeAdminLeft'
  BY <1>1 DEF AdminInv, SomeAdminLeft
<1>3. \A g \in Handlers : act[g].pc \in {"read", "update"} => act[g].caller \in Users
  BY ActFields DEF AdminInv, AccountTypes
<1>4. CallersAdminister'
  BY <1>1, <1>3 DEF AdminInv, CallersAdminister
<1> QED
  BY <1>2, <1>4 DEF AdminInv

LEMMA AdminInvKept ==
    ASSUME AdminInv, AccountsNext
    PROVE  AdminInv'
<1>t. AccountTypes'
  BY AccountTypesKept DEF AdminInv
<1>i. Idle \in Acts /\ Idle.pc = "idle"
  BY DEF Acts, Idle, Resting
<1>c. \A g \in Handlers : act[g].pc \in {"read", "update"} => act[g].caller \in Users
  BY ActFields DEF AdminInv, AccountTypes
<1>1. ASSUME NEW h \in Handlers, NEW u \in Users, NEW v \in Users, Authorize(h, u, v) PROVE AdminInv'
  <2>1. [pc |-> "read", caller |-> u, target |-> v] \in Acts
    BY DEF Acts
  <2>2. /\ act'[h] = [pc |-> "read", caller |-> u, target |-> v]
        /\ \A g \in Handlers \ {h} : act'[g] = act[g]
    BY <1>1, <2>1, DoMoves DEF Authorize, AdminInv
  <2>3. \A x \in Users : MayAdminister(x)' <=> MayAdminister(x)
    BY <1>1 DEF Authorize, MayAdminister, MayLogIn
  <2>4. MayAdminister(u) /\ robbed' = robbed \ {h} /\ late' = late
    BY <1>1 DEF Authorize
  <2>5. CallersAdminister'
    <3> SUFFICES ASSUME NEW g \in Handlers \ robbed', act'[g].pc \in {"read", "update"}
                 PROVE  /\ MayAdminister(act[g].caller)'
                        /\ act'[g].pc = "update" /\ act'[g].target = act'[g].caller =>
                              act'[g].role = "admin" /\ act'[g].status = "active"
      BY DEF CallersAdminister
    <3>1. CASE g = h
      BY <2>2, <2>3, <2>4, <3>1 DEF MayAdminister, MayLogIn
    <3>2. CASE g # h
      <4>1. act'[g] = act[g] /\ g \in Handlers \ robbed
        BY <2>2, <2>4, <3>2
      <4>2. MayAdminister(act[g].caller) /\ act[g].caller \in Users
        BY <1>c, <4>1 DEF AdminInv, CallersAdminister
      <4> QED
        BY <2>3, <4>1, <4>2 DEF AdminInv, CallersAdminister
    <3> QED
      BY <3>1, <3>2
  <2>6. SomeAdminLeft'
    BY <2>3, <2>4 DEF AdminInv, SomeAdminLeft
  <2> QED
    BY <1>t, <2>5, <2>6 DEF AdminInv
\* The check on the caller is what keeps an administrator from demoting herself.
<1>2. ASSUME NEW h \in Handlers, Decide(h) PROVE AdminInv'
  <2> DEFINE new(role, status) == [pc |-> "update", caller |-> act[h].caller, target |-> act[h].target,
                                   role |-> role, status |-> status]
  <2>1. act[h].caller \in Users /\ act[h].target \in Users
    BY <1>2, ActFields DEF Decide, AdminInv, AccountTypes
  <2>2. /\ user' = user /\ robbed' = robbed /\ late' = late /\ act[h].pc = "read"
    BY <1>2 DEF Decide
  <2>3. CASE Do(h, Idle)
    BY <1>t, <1>i, <2>2, <2>3, DoMoves, AdminInvHarmless DEF AdminInv
  <2>4. ASSUME NEW role \in Roles, NEW status \in Standings,
               ~ /\ user[act[h].target].role = "admin"
                 /\ act[h].caller = act[h].target
                 /\ (role # "admin" \/ status # "active"),
               Do(h, new(role, status))
        PROVE  AdminInv'
    <3>1. new(role, status) \in Acts
      BY <2>1 DEF Acts
    <3>2. act'[h] = new(role, status) /\ \A g \in Handlers \ {h} : act'[g] = act[g]
      BY <2>4, <3>1, DoMoves DEF AdminInv
    <3>3. \A x \in Users : MayAdminister(x)' <=> MayAdminister(x)
      BY <2>2 DEF MayAdminister, MayLogIn
    <3>4. SomeAdminLeft'
      BY <2>2, <3>3 DEF AdminInv, SomeAdminLeft
    <3>5. CallersAdminister'
      <4> SUFFICES ASSUME NEW g \in Handlers \ robbed, act'[g].pc \in {"read", "update"}
                   PROVE  /\ MayAdminister(act[g].caller)'
                          /\ act'[g].pc = "update" /\ act'[g].target = act'[g].caller =>
                                act'[g].role = "admin" /\ act'[g].status = "active"
        BY <2>2 DEF CallersAdminister
      <4>1. CASE g = h
        <5>1. MayAdminister(act[h].caller)
          BY <2>2, <4>1 DEF AdminInv, CallersAdminister
        <5>2. /\ act'[g].caller = act[h].caller /\ act'[g].target = act[h].target
              /\ act'[g].role = role /\ act'[g].status = status
          BY <3>2, <4>1
        <5>3. user[act[h].caller].role = "admin"
          BY <5>1 DEF MayAdminister
        <5>4. MayAdminister(act[g].caller)'
          BY <2>2, <5>1, <5>2 DEF MayAdminister, MayLogIn
        <5> QED
          BY <2>4, <5>2, <5>3, <5>4
      <4>2. CASE g # h
        <5>1. act'[g] = act[g]
          BY <3>2, <4>2
        <5>2. MayAdminister(act[g].caller) /\ act[g].caller \in Users
          BY <1>c, <5>1 DEF AdminInv, CallersAdminister
        <5> QED
          BY <3>3, <5>1, <5>2 DEF AdminInv, CallersAdminister
      <4> QED
        BY <4>1, <4>2
    <3> QED
      BY <1>t, <3>4, <3>5 DEF AdminInv
  <2>5. PICK role \in Roles, status \in Standings :
           IF user[act[h].target].role = "admin" /\ act[h].caller = act[h].target
                /\ (role # "admin" \/ status # "active")
           THEN Do(h, Idle) ELSE Do(h, new(role, status))
    BY <1>2 DEF Decide
  <2> QED
    BY <2>3, <2>4, <2>5
\* Whoever loses the role has all requests robbed; the caller of this one still has it
\* unless this one was robbed, which the history remembers.
<1>3. ASSUME NEW h \in Handlers, UpdateProfile(h) PROVE AdminInv'
  <2> DEFINE t == act[h].target
  <2> DEFINE stays == act[h].role = "admin" /\ act[h].status = "active"
  <2>1. /\ act[h].pc = "update" /\ t \in Users /\ act[h].caller \in Users
        /\ act[h].role \in Roles /\ act[h].status \in Standings
    BY <1>3, ActFields DEF UpdateProfile, AdminInv, AccountTypes
  <2>2. act'[h] = Idle /\ \A g \in Handlers \ {h} : act'[g] = act[g]
    BY <1>3, <1>i, DoMoves DEF UpdateProfile, AdminInv
  <2>3. \A x \in Users : MayAdminister(x)' <=> IF x = t THEN stays ELSE MayAdminister(x)
    BY <1>3, <2>1 DEF UpdateProfile, MayAdminister, MayLogIn, AdminInv, AccountTypes, Row
  <2>4. /\ robbed \subseteq robbed'
        /\ ~stays => \A g \in Handlers : act[g].pc \in {"read", "update"} /\ act[g].caller = t => g \in robbed'
        /\ late' = (late \/ h \in robbed)
    BY <1>3 DEF UpdateProfile
  <2>5. CallersAdminister'
    <3> SUFFICES ASSUME NEW g \in Handlers, g \notin robbed', act'[g].pc \in {"read", "update"}
                 PROVE  /\ MayAdminister(act[g].caller)'
                        /\ act'[g].pc = "update" /\ act'[g].target = act'[g].caller =>
                              act'[g].role = "admin" /\ act'[g].status = "active"
      BY DEF CallersAdminister
    <3>1. g # h /\ act'[g] = act[g]
      BY <1>i, <2>2
    <3>2. MayAdminister(act[g].caller) /\ act[g].caller \in Users
      BY <1>c, <2>4, <3>1 DEF AdminInv, CallersAdminister
    <3>3. act[g].caller = t => stays
      BY <2>4, <3>1
    <3>4. MayAdminister(act[g].caller)'
      <4>1. \A x \in Users : x = act[g].caller => MayAdminister(x)'
        BY <2>3, <3>2, <3>3
      <4> QED
        BY <3>1, <3>2, <4>1 DEF MayAdminister, MayLogIn
    <3> QED
      BY <2>4, <3>1, <3>4 DEF AdminInv, CallersAdminister
  <2>6. SomeAdminLeft'
    <3>1. CASE h \in robbed
      BY <2>4, <3>1 DEF SomeAdminLeft
    <3>2. CASE h \notin robbed
      <4>1. MayAdminister(act[h].caller) /\ (t = act[h].caller => stays)
        BY <2>1, <3>2 DEF AdminInv, CallersAdminister
      <4>2. \A x \in Users : x = act[h].caller => MayAdminister(x)'
        BY <2>3, <4>1
      <4> QED
        BY <2>1, <4>2 DEF SomeAdminLeft
    <3> QED
      BY <3>1, <3>2
  <2> QED
    BY <1>t, <2>5, <2>6 DEF AdminInv
<1>4. ASSUME NEW h \in Handlers, NEW u \in Users, LogIn(h, u) PROVE AdminInv'
  <2>1. [pc |-> "rehash", caller |-> u, new |-> user[u].password] \in Acts
    BY DEF AdminInv, AccountTypes, Acts, Row
  <2>2. user' = user /\ robbed' = robbed /\ late' = late /\ act[h].pc = "idle"
    BY <1>4 DEF LogIn, Resting
  <2>3. act'[h].pc \notin {"read", "update"} /\ \A g \in Handlers \ {h} : act'[g] = act[g]
    BY <1>4, <2>1, <2>2, DoMoves DEF LogIn, AdminInv
  <2> QED
    BY <1>t, <2>2, <2>3, AdminInvHarmless
<1>5. ASSUME NEW h \in Handlers, Rehash(h) PROVE AdminInv'
  <2>1. robbed' = robbed /\ late' = late
    BY <1>5 DEF Rehash
  <2>2. act'[h].pc \notin {"read", "update"} /\ \A g \in Handlers \ {h} : act'[g] = act[g]
    BY <1>5, <1>i, DoMoves DEF Rehash, AdminInv
  <2>3. \A u \in Users : user'[u].role = user[u].role /\ user'[u].status = user[u].status
    BY <1>5 DEF Rehash, AdminInv, AccountTypes, Row
  <2> QED
    BY <1>t, <2>1, <2>2, <2>3, AdminInvHarmless
<1>6. ASSUME NEW h \in Handlers, NEW u \in Users, NEW p \in Passwords, NEW q \in Passwords, AskChange(h, u, p, q)
      PROVE AdminInv'
  <2>1. [pc |-> "get", caller |-> u, old |-> p, new |-> q] \in Acts
    BY DEF Acts
  <2>2. user' = user /\ robbed' = robbed /\ late' = late
    BY <1>6 DEF AskChange
  <2>3. act'[h].pc \notin {"read", "update"} /\ \A g \in Handlers \ {h} : act'[g] = act[g]
    BY <1>6, <2>1, DoMoves DEF AskChange, AdminInv
  <2> QED
    BY <1>t, <2>2, <2>3, AdminInvHarmless
<1>7. ASSUME NEW h \in Handlers, Compare(h) PROVE AdminInv'
  <2>1. [act[h] EXCEPT !.pc = "change"] \in Acts /\ [act[h] EXCEPT !.pc = "change"].pc = "change"
    BY <1>7, ActFields DEF Compare, AdminInv, AccountTypes
  <2>2. user' = user /\ robbed' = robbed /\ late' = late
    BY <1>7 DEF Compare
  <2>3. act'[h].pc \notin {"read", "update"} /\ \A g \in Handlers \ {h} : act'[g] = act[g]
    BY <1>7, <1>i, <2>1, DoMoves DEF Compare, AdminInv
  <2> QED
    BY <1>t, <2>2, <2>3, AdminInvHarmless
<1>8. ASSUME NEW h \in Handlers, ChangePassword(h) PROVE AdminInv'
  <2>1. robbed' = robbed /\ late' = late
    BY <1>8 DEF ChangePassword
  <2>2. act'[h].pc \notin {"read", "update"} /\ \A g \in Handlers \ {h} : act'[g] = act[g]
    BY <1>8, <1>i, DoMoves DEF ChangePassword, AdminInv
  <2>3. \A u \in Users : user'[u].role = user[u].role /\ user'[u].status = user[u].status
    BY <1>8 DEF ChangePassword, AdminInv, AccountTypes, Row
  <2> QED
    BY <1>t, <2>1, <2>2, <2>3, AdminInvHarmless
<1> QED
  BY <1>1, <1>2, <1>3, <1>4, <1>5, <1>6, <1>7, <1>8 DEF AccountsNext

\* There is always an active administrator, as long as no request is carried out
\* for a caller who lost the role on the way (handleAdminUpdateUser).
THEOREM SomebodyAdministers == AccountsSpec => []SomeAdminLeft
<1>1. AdminInv /\ UNCHANGED accountsVars => AdminInv'
  BY DEF AdminInv, AccountTypes, CallersAdminister, SomeAdminLeft, MayAdminister, MayLogIn, accountsVars
<1>2. AdminInv /\ [AccountsNext]_accountsVars => AdminInv'
  BY <1>1, AdminInvKept
<1>3. AdminInv => SomeAdminLeft
  BY DEF AdminInv
<1> QED
  BY <1>2, <1>3, AdminInvInit, PTL DEF AccountsSpec

-----------------------------------------------------------------------------
(* Accounts: the password in the row *)

Concerns(a, u) == a.pc \in {"get", "rehash", "change"} /\ a.caller = u

\* About a password nobody has crossed there is one request at most, and the hash
\* a log-in is about to write is that of the password in the row.
AloneOnPassword ==
    \A h \in Handlers, u \in Users \ crossed : Concerns(act[h], u) =>
        /\ \A g \in Handlers \ {h} : ~Concerns(act[g], u)
        /\ act[h].pc = "rehash" => act[h].new = user[u].password

PasswordInv == AccountTypes /\ AloneOnPassword /\ PasswordAsAnswered

LEMMA PasswordInvInit == AccountsInit => PasswordInv
<1> SUFFICES ASSUME AccountsInit PROVE PasswordInv
  OBVIOUS
<1>1. PasswordAsAnswered
  BY DEF AccountsInit, PasswordAsAnswered
<1>2. AloneOnPassword
  BY DEF AccountsInit, AloneOnPassword, Concerns, Idle, Resting
<1> QED
  BY <1>1, <1>2, AccountTypesInit DEF PasswordInv

\* A request that starts to concern a password where others do crosses it.
LEMMA PasswordInvStarted ==
    ASSUME PasswordInv, AccountTypes', NEW h \in Handlers, NEW u \in Users,
           \A g \in Handlers \ {h} : act'[g] = act[g],
           \A x \in Users : Concerns(act'[h], x) => x = u,
           act'[h].pc = "rehash" => act'[h].new = user[u].password,
           crossed' = IF OnPassword(u) = {} THEN crossed ELSE crossed \cup {u},
           user' = user, answered' = answered
    PROVE  PasswordInv'
<1>1. PasswordAsAnswered'
  BY DEF PasswordInv, PasswordAsAnswered
<1>2. u \notin crossed' => \A g \in Handlers : ~Concerns(act[g], u)
  BY DEF OnPassword, Concerns
<1>3. AloneOnPassword'
  <2> SUFFICES ASSUME NEW g \in Handlers, NEW x \in Users \ crossed', Concerns(act'[g], x)
               PROVE  /\ \A k \in Handlers \ {g} : ~Concerns(act'[k], x)
                      /\ act'[g].pc = "rehash" => act'[g].new = user[x].password
    BY DEF AloneOnPassword
  <2>1. CASE g = h
    BY <1>2, <2>1
  <2>2. CASE g # h
    <3>1. Concerns(act[g], x) /\ x \notin crossed
      BY <2>2
    <3>2. x # u
      BY <1>2, <3>1
    <3> QED
      BY <2>2, <3>1, <3>2 DEF PasswordInv, AloneOnPassword
  <2> QED
    BY <2>1, <2>2
<1> QED
  BY <1>1, <1>3 DEF PasswordInv

\* A request that goes on or gives up starts to concern nothing.
LEMMA PasswordInvOther ==
    ASSUME PasswordInv, AccountTypes', NEW h \in Handlers,
           \A g \in Handlers \ {h} : act'[g] = act[g],
           act'[h].pc # "rehash",
           \A x \in Users : Concerns(act'[h], x) => Concerns(act[h], x),
           \A x \in Users : user'[x].password = user[x].password,
           crossed' = crossed, answered' = answered
    PROVE  PasswordInv'
<1>1. PasswordAsAnswered'
  BY DEF PasswordInv, PasswordAsAnswered
<1>2. AloneOnPassword'
  BY DEF PasswordInv, AloneOnPassword
<1> QED
  BY <1>1, <1>2 DEF PasswordInv

\* A write of a password ends the only request that concerns it, or is of a password
\* that has been crossed.
LEMMA PasswordInvWritten ==
    ASSUME PasswordInv, AccountTypes', NEW h \in Handlers,
           \A g \in Handlers \ {h} : act'[g] = act[g],
           act'[h] = Idle,
           Concerns(act[h], act[h].caller), act[h].caller \in Users,
           \A x \in Users \ {act[h].caller} : user'[x] = user[x] /\ answered'[x] = answered[x],
           act[h].caller \notin crossed => user'[act[h].caller].password = answered'[act[h].caller],
           crossed' = crossed
    PROVE  PasswordInv'
<1>1. PasswordAsAnswered'
  BY DEF PasswordInv, PasswordAsAnswered
<1>2. AloneOnPassword'
  <2> SUFFICES ASSUME NEW g \in Handlers, NEW x \in Users \ crossed, Concerns(act'[g], x)
               PROVE  /\ \A k \in Handlers \ {g} : ~Concerns(act'[k], x)
                      /\ act'[g].pc = "rehash" => act'[g].new = user'[x].password
    BY DEF AloneOnPassword
  <2>0. ~Concerns(Idle, x)
    BY DEF Concerns, Idle, Resting
  <2>1. g # h /\ Concerns(act[g], x)
    BY <2>0
  <2>2. x # act[h].caller
    BY <2>1 DEF PasswordInv, AloneOnPassword
  <2> QED
    BY <2>0, <2>1, <2>2 DEF PasswordInv, AloneOnPassword
<1> QED
  BY <1>1, <1>2 DEF PasswordInv

LEMMA PasswordInvKept ==
    ASSUME PasswordInv, AccountsNext
    PROVE  PasswordInv'
<1>t. AccountTypes /\ AccountTypes'
  BY AccountTypesKept DEF PasswordInv
<1>i. Idle \in Acts /\ Idle.pc = "idle"
  BY DEF Acts, Idle, Resting
<1>1. ASSUME NEW h \in Handlers, NEW u \in Users, NEW v \in Users, Authorize(h, u, v) PROVE PasswordInv'
  <2>1. [pc |-> "read", caller |-> u, target |-> v] \in Acts
    BY DEF Acts
  <2>2. act'[h].pc = "read" /\ \A g \in Handlers \ {h} : act'[g] = act[g]
    BY <1>1, <1>t, <2>1, DoMoves DEF Authorize
  <2>3. user' = user /\ crossed' = crossed /\ answered' = answered
    BY <1>1 DEF Authorize
  <2>4. \A x \in Users : ~Concerns(act'[h], x)
    BY <2>2 DEF Concerns
  <2> QED
    BY <1>t, <2>2, <2>3, <2>4, PasswordInvOther
<1>2. ASSUME NEW h \in Handlers, Decide(h) PROVE PasswordInv'
  <2>1. act[h].caller \in Users /\ act[h].target \in Users
    BY <1>2, <1>t, ActFields DEF Decide, AccountTypes
  <2>2. user' = user /\ crossed' = crossed /\ answered' = answered
    BY <1>2 DEF Decide
  <2>3. PICK role \in Roles, status \in Standings :
           \/ Do(h, Idle)
           \/ Do(h, [pc |-> "update", caller |-> act[h].caller, target |-> act[h].target,
                     role |-> role, status |-> status])
    BY <1>2 DEF Decide
  <2>4. [pc |-> "update", caller |-> act[h].caller, target |-> act[h].target,
         role |-> role, status |-> status] \in Acts
    BY <2>1 DEF Acts
  <2>5. act'[h].pc \in {"idle", "update"} /\ \A g \in Handlers \ {h} : act'[g] = act[g]
    BY <1>t, <1>i, <2>3, <2>4, DoMoves
  <2>6. \A x \in Users : ~Concerns(act'[h], x)
    BY <2>5 DEF Concerns
  <2> QED
    BY <1>t, <2>2, <2>5, <2>6, PasswordInvOther
<1>3. ASSUME NEW h \in Handlers, UpdateProfile(h) PROVE PasswordInv'
  <2>1. crossed' = crossed /\ answered' = answered
    BY <1>3 DEF UpdateProfile
  <2>2. \A x \in Users : user'[x].password = user[x].password
    BY <1>3, <1>t DEF UpdateProfile, AccountTypes, Row
  <2>3. act'[h].pc = "idle" /\ \A g \in Handlers \ {h} : act'[g] = act[g]
    BY <1>3, <1>t, <1>i, DoMoves DEF UpdateProfile
  <2>4. \A x \in Users : ~Concerns(act'[h], x)
    BY <2>3 DEF Concerns
  <2> QED
    BY <1>t, <2>1, <2>2, <2>3, <2>4, PasswordInvOther
<1>4. ASSUME NEW h \in Handlers, NEW u \in Users, LogIn(h, u) PROVE PasswordInv'
  <2>1. CASE UNCHANGED <<act, crossed>>
    BY <1>4, <1>t, <2>1
    DEF LogIn, PasswordInv, AloneOnPassword, PasswordAsAnswered
  <2>2. CASE /\ Do(h, [pc |-> "rehash", caller |-> u, new |-> user[u].password])
             /\ crossed' = IF OnPassword(u) = {} THEN crossed ELSE crossed \cup {u}
    <3>1. [pc |-> "rehash", caller |-> u, new |-> user[u].password] \in Acts
      BY <1>t DEF AccountTypes, Acts, Row
    <3>2. /\ act'[h] = [pc |-> "rehash", caller |-> u, new |-> user[u].password]
          /\ \A g \in Handlers \ {h} : act'[g] = act[g]
      BY <1>t, <2>2, <3>1, DoMoves
    <3>3. user' = user /\ answered' = answered
      BY <1>4 DEF LogIn
    <3>4. \A x \in Users : Concerns(act'[h], x) => x = u
      BY <3>2 DEF Concerns
    <3>5. act'[h].new = user[u].password
      BY <3>2
    <3> QED
      BY <1>t, <2>2, <3>2, <3>3, <3>4, <3>5, PasswordInvStarted
  <2> QED
    BY <1>4, <2>1, <2>2 DEF LogIn
<1>5. ASSUME NEW h \in Handlers, Rehash(h) PROVE PasswordInv'
  <2>1. act[h].pc = "rehash" /\ act[h].caller \in Users /\ act[h].new \in Passwords
    BY <1>5, <1>t, ActFields DEF Rehash, AccountTypes
  <2>2. act'[h] = Idle /\ \A g \in Handlers \ {h} : act'[g] = act[g]
    BY <1>5, <1>t, <1>i, DoMoves DEF Rehash
  <2>3. /\ crossed' = crossed /\ answered' = answered
        /\ user'[act[h].caller].password = act[h].new
        /\ \A x \in Users \ {act[h].caller} : user'[x] = user[x]
    BY <1>5, <1>t, <2>1 DEF Rehash, AccountTypes, Row
  <2>4. Concerns(act[h], act[h].caller)
    BY <2>1 DEF Concerns
  <2>5. act[h].caller \notin crossed => user'[act[h].caller].password = answered'[act[h].caller]
    BY <2>1, <2>3, <2>4 DEF PasswordInv, AloneOnPassword, PasswordAsAnswered
  <2> QED
    BY <1>t, <2>1, <2>2, <2>3, <2>4, <2>5, PasswordInvWritten
<1>6. ASSUME NEW h \in Handlers, NEW u \in Users, NEW p \in Passwords, NEW q \in Passwords, AskChange(h, u, p, q)
      PROVE PasswordInv'
  <2>1. [pc |-> "get", caller |-> u, old |-> p, new |-> q] \in Acts
    BY DEF Acts
  <2>2. /\ act'[h] = [pc |-> "get", caller |-> u, old |-> p, new |-> q]
        /\ \A g \in Handlers \ {h} : act'[g] = act[g]
    BY <1>6, <1>t, <2>1, DoMoves DEF AskChange
  <2>3. /\ user' = user /\ answered' = answered
        /\ crossed' = IF OnPassword(u) = {} THEN crossed ELSE crossed \cup {u}
    BY <1>6 DEF AskChange
  <2>4. /\ act'[h].pc # "rehash"
        /\ \A x \in Users : Concerns(act'[h], x) => x = u
    BY <2>2 DEF Concerns
  <2> QED
    BY <1>t, <2>2, <2>3, <2>4, PasswordInvStarted
<1>7. ASSUME NEW h \in Handlers, Compare(h) PROVE PasswordInv'
  <2>1. /\ act[h].pc = "get" /\ [act[h] EXCEPT !.pc = "change"] \in Acts
        /\ [act[h] EXCEPT !.pc = "change"].pc = "change"
        /\ [act[h] EXCEPT !.pc = "change"].caller = act[h].caller
    BY <1>7, <1>t, ActFields DEF Compare, AccountTypes
  <2>2. user' = user /\ crossed' = crossed /\ answered' = answered
    BY <1>7 DEF Compare
  <2>3. /\ act'[h] = [act[h] EXCEPT !.pc = "change"] \/ act'[h] = Idle
        /\ \A g \in Handlers \ {h} : act'[g] = act[g]
    BY <1>7, <1>t, <1>i, <2>1, DoMoves DEF Compare
  <2>4. /\ act'[h].pc # "rehash"
        /\ \A x \in Users : Concerns(act'[h], x) => Concerns(act[h], x)
    BY <1>i, <2>1, <2>3 DEF Concerns
  <2> QED
    BY <1>t, <2>2, <2>3, <2>4, PasswordInvOther
<1>8. ASSUME NEW h \in Handlers, ChangePassword(h) PROVE PasswordInv'
  <2>1. act[h].pc = "change" /\ act[h].caller \in Users /\ act[h].new \in Passwords
    BY <1>8, <1>t, ActFields DEF ChangePassword, AccountTypes
  <2>2. act'[h] = Idle /\ \A g \in Handlers \ {h} : act'[g] = act[g]
    BY <1>8, <1>t, <1>i, DoMoves DEF ChangePassword
  <2>3. /\ crossed' = crossed
        /\ user'[act[h].caller].password = answered'[act[h].caller]
        /\ \A x \in Users \ {act[h].caller} : user'[x] = user[x] /\ answered'[x] = answered[x]
    BY <1>8, <1>t, <2>1 DEF ChangePassword, AccountTypes, Row
  <2>4. Concerns(act[h], act[h].caller)
    BY <2>1 DEF Concerns
  <2> QED
    BY <1>t, <2>1, <2>2, <2>3, <2>4, PasswordInvWritten
<1> QED
  BY <1>1, <1>2, <1>3, <1>4, <1>5, <1>6, <1>7, <1>8 DEF AccountsNext

\* The password in the row is the one last answered for, unless two requests about
\* it overlapped (handleLogin, handleChangePassword).
THEOREM PasswordHonoured == AccountsSpec => []PasswordAsAnswered
<1>1. PasswordInv /\ UNCHANGED accountsVars => PasswordInv'
  BY DEF PasswordInv, AccountTypes, AloneOnPassword, PasswordAsAnswered, Concerns, accountsVars
<1>2. PasswordInv /\ [AccountsNext]_accountsVars => PasswordInv'
  BY <1>1, PasswordInvKept
<1>3. PasswordInv => PasswordAsAnswered
  BY DEF PasswordInv
<1> QED
  BY <1>2, <1>3, PasswordInvInit, PTL DEF AccountsSpec

-----------------------------------------------------------------------------
(* Catalogue: the ETag *)

Newest == Max({0} \cup versions)

\* The last conjunct stands for the maximum: there is one in every set that grows
\* by one element at a time, which needs no induction.
VersionsGrow ==
    /\ nextId \in Nat \ {0}
    /\ versions \subseteq 1 .. nextId - 1
    /\ \E top \in {0} \cup versions : \A id \in {0} \cup versions : id <= top

\* An id is given to one transaction, and one that is committed is gone.
IdsOnce ==
    \A a \in Admins : tx[a].pc = "commit" =>
        /\ tx[a].id \in 1 .. nextId - 1
        /\ tx[a].id \notin versions
        /\ \A b \in Admins \ {a} : tx[b].pc = "commit" => tx[b].id # tx[a].id

CatalogueTypes ==
    /\ tx \in [Admins -> [pc : {"idle", "bump", "commit"}, target : Models \cup {"none"},
                          new : [there : BOOLEAN, enabled : BOOLEAN, write : Nat, at : Nat],
                          id : Nat]]
    /\ model \in [Models -> [there : BOOLEAN, enabled : BOOLEAN, write : Nat, at : Nat]]
    /\ ms \in Nat
    /\ disorder \in BOOLEAN
    /\ DOMAIN fetch = Browsers /\ DOMAIN cached = Browsers

\* No fingerprint is ahead of the table, and one that is not behind it, and was
\* shown with its list, shows the list as it is.
EtagsBehind ==
    \A b \in Browsers :
        /\ fetch[b].pc = "list" => fetch[b].etag[1] \in Nat /\ fetch[b].etag[1] <= Newest
        /\ cached[b].etag # <<>> =>
              /\ cached[b].etag[1] \in Nat /\ cached[b].etag[1] <= Newest
              /\ ~disorder /\ cached[b].etag[1] = Newest => cached[b].view = View

CatalogueInv == CatalogueTypes /\ VersionsGrow /\ IdsOnce /\ EtagsBehind

\* The maximum of a set of naturals that has one.
LEMMA MaxOfNaturals ==
    ASSUME NEW S \in SUBSET Nat, \E top \in S : \A x \in S : x <= top
    PROVE  Max(S) \in S /\ \A x \in S : x <= Max(S)
<1>1. PICK top \in S : \A x \in S : x <= top
  OBVIOUS
<1>2. top \in S /\ \A x \in S : top >= x
  BY <1>1
<1>3. Max(S) \in S /\ \A x \in S : Max(S) >= x
  BY <1>2, Zenon DEF Max
<1> QED
  BY <1>3

LEMMA CatalogueInvInit == CatalogueInit => CatalogueInv
<1> SUFFICES ASSUME CatalogueInit PROVE CatalogueInv
  OBVIOUS
<1>1. CatalogueTypes
  BY DEF CatalogueInit, CatalogueTypes, NoTx, Absent
<1>2. VersionsGrow
  BY DEF CatalogueInit, VersionsGrow
<1>3. IdsOnce /\ EtagsBehind
  BY DEF CatalogueInit, IdsOnce, EtagsBehind, NoTx, NotCached
<1> QED
  BY <1>1, <1>2, <1>3 DEF CatalogueInv

LEMMA CatalogueTypesKept ==
    ASSUME CatalogueInv, CatalogueNext
    PROVE  CatalogueTypes'
<1> USE DEF CatalogueInv, CatalogueTypes, SetTx
<1>1. ASSUME NEW a \in Admins, NEW m \in Models, UpsertModel(a, m) PROVE CatalogueTypes'
  BY <1>1 DEF UpsertModel
<1>2. ASSUME NEW a \in Admins, NEW m \in Models, DeleteModel(a, m) PROVE CatalogueTypes'
  BY <1>2 DEF DeleteModel, Absent
<1>3. ASSUME NEW a \in Admins, WriteOther(a) PROVE CatalogueTypes'
  BY <1>3 DEF WriteOther, NoTx, Absent
<1>4. ASSUME NEW a \in Admins, Bump(a) PROVE CatalogueTypes'
  BY <1>4 DEF Bump, VersionsGrow
<1>5. ASSUME NEW a \in Admins, Commit(a) PROVE CatalogueTypes'
  BY <1>5 DEF Commit, NoTx, Absent
<1>6. ASSUME NEW a \in Admins, Rollback(a) PROVE CatalogueTypes'
  BY <1>6 DEF Rollback, NoTx, Absent
<1>7. ASSUME Tick PROVE CatalogueTypes'
  BY <1>7 DEF Tick
<1>8. ASSUME NEW b \in Browsers, Check(b) \/ ListModels(b) PROVE CatalogueTypes'
  BY <1>8 DEF Check, ListModels
<1> QED
  BY <1>1, <1>2, <1>3, <1>4, <1>5, <1>6, <1>7, <1>8 DEF CatalogueNext

\* A transaction that starts, fails or waits changes nothing that is committed.
LEMMA CatalogueInvPrivate ==
    ASSUME CatalogueInv, CatalogueTypes', NEW a \in Admins,
           \A b \in Admins \ {a} : tx'[b] = tx[b], tx'[a].pc # "commit",
           UNCHANGED <<model, versions, nextId, fetch, cached, disorder>>
    PROVE  CatalogueInv'
<1>1. VersionsGrow'
  BY DEF CatalogueInv, VersionsGrow
<1>2. IdsOnce'
  BY DEF CatalogueInv, IdsOnce
<1>3. Newest' = Newest /\ View' = View
  BY DEF Newest, View, Enabled
<1>4. EtagsBehind'
  BY <1>3 DEF CatalogueInv, EtagsBehind
<1> QED
  BY <1>1, <1>2, <1>4 DEF CatalogueInv

LEMMA CatalogueInvKept ==
    ASSUME CatalogueInv, CatalogueNext
    PROVE  CatalogueInv'
<1>t. CatalogueTypes /\ CatalogueTypes'
  BY CatalogueTypesKept DEF CatalogueInv
<1>n. /\ Newest \in {0} \cup versions /\ Newest \in Nat /\ \A id \in versions : id <= Newest
      /\ versions \subseteq Nat
  <2>1. {0} \cup versions \in SUBSET Nat /\ \E top \in {0} \cup versions : \A id \in {0} \cup versions : id <= top
    BY DEF CatalogueInv, VersionsGrow
  <2> QED
    BY <2>1, MaxOfNaturals DEF Newest
<1>s. \A a \in Admins : \A t : SetTx(a, t) => tx'[a] = t /\ \A b \in Admins \ {a} : tx'[b] = tx[b]
  BY <1>t DEF CatalogueTypes, SetTx
<1>1. ASSUME NEW a \in Admins, NEW m \in Models, UpsertModel(a, m) PROVE CatalogueInv'
  <2>1. tx'[a].pc = "bump" /\ \A b \in Admins \ {a} : tx'[b] = tx[b]
    BY <1>1, <1>s DEF UpsertModel
  <2> QED
    BY <1>1, <1>t, <2>1, CatalogueInvPrivate DEF UpsertModel
<1>2. ASSUME NEW a \in Admins, NEW m \in Models, DeleteModel(a, m) PROVE CatalogueInv'
  <2>1. tx'[a].pc = "bump" /\ \A b \in Admins \ {a} : tx'[b] = tx[b]
    BY <1>2, <1>s DEF DeleteModel
  <2> QED
    BY <1>2, <1>t, <2>1, CatalogueInvPrivate DEF DeleteModel
<1>3. ASSUME NEW a \in Admins, WriteOther(a) \/ Rollback(a) PROVE CatalogueInv'
  <2>1. tx'[a].pc # "commit" /\ \A b \in Admins \ {a} : tx'[b] = tx[b]
    BY <1>3, <1>s DEF WriteOther, Rollback, NoTx
  <2> QED
    BY <1>3, <1>t, <2>1, CatalogueInvPrivate DEF WriteOther, Rollback
<1>4. ASSUME NEW a \in Admins, Bump(a) PROVE CatalogueInv'
  <2>0. nextId \in Nat \ {0} /\ versions \subseteq 1 .. nextId - 1
    BY DEF CatalogueInv, VersionsGrow
  <2>1. /\ tx'[a] = [tx[a] EXCEPT !.pc = "commit", !.id = nextId]
        /\ \A b \in Admins \ {a} : tx'[b] = tx[b]
        /\ nextId' = nextId + 1
        /\ UNCHANGED <<model, versions, fetch, cached, disorder>>
    BY <1>4, <1>s DEF Bump
  <2>2. tx'[a].id = nextId
    BY <1>t, <2>1 DEF CatalogueTypes
  <2>8. nextId \notin versions /\ nextId \in 1 .. nextId' - 1
    BY <2>0, <2>1
  <2>9. \A b \in Admins \ {a} : tx'[b] = tx[b]
    BY <2>1
  <2>10. versions' = versions
    BY <2>1
  <2>3. VersionsGrow'
    BY <2>0, <2>1 DEF CatalogueInv, VersionsGrow
  <2>4. \A b \in Admins : tx[b].pc = "commit" => tx[b].id \in 1 .. nextId - 1 /\ tx[b].id # nextId
    BY <2>0 DEF CatalogueInv, IdsOnce
  <2>5. IdsOnce'
    <3> SUFFICES ASSUME NEW c \in Admins, tx'[c].pc = "commit"
                 PROVE  /\ tx'[c].id \in 1 .. nextId' - 1
                        /\ tx'[c].id \notin versions'
                        /\ \A b \in Admins \ {c} : tx'[b].pc = "commit" => tx'[b].id # tx'[c].id
      BY DEF IdsOnce
    <3>1. CASE c = a
      BY <2>2, <2>4, <2>8, <2>9, <2>10, <3>1
    <3>2. CASE c # a
      <4>1. tx'[c] = tx[c] /\ tx[c].id \in 1 .. nextId - 1 /\ tx[c].id \notin versions
        BY <2>1, <3>2 DEF CatalogueInv, IdsOnce
      <4>2. \A b \in Admins \ {c} : tx'[b].pc = "commit" => tx'[b].id # tx'[c].id
        <5>1. \A b \in Admins \ {a, c} : tx[b].pc = "commit" => tx[b].id # tx[c].id
          BY <2>9, <3>2 DEF CatalogueInv, IdsOnce
        <5>2. tx[c].id # nextId
          BY <2>0, <4>1
        <5> QED
          BY <2>2, <2>9, <3>2, <4>1, <5>1, <5>2
      <4> QED
        BY <2>0, <2>1, <4>1, <4>2
    <3> QED
      BY <3>1, <3>2
  <2>6. Newest' = Newest /\ View' = View
    BY <2>1 DEF Newest, View, Enabled
  <2>7. EtagsBehind'
    BY <2>1, <2>6 DEF CatalogueInv, EtagsBehind
  <2> QED
    BY <1>t, <2>3, <2>5, <2>7 DEF CatalogueInv
\* In order, a commit is ahead of everything a browser has; out of order nothing is claimed.
<1>5. ASSUME NEW a \in Admins, Commit(a) PROVE CatalogueInv'
  <2> DEFINE own == tx[a].id
  <2>1. own \in 1 .. nextId - 1 /\ own \notin versions /\ own \in Nat /\ own > 0
    BY <1>5 DEF Commit, CatalogueInv, IdsOnce, VersionsGrow
  <2>2. /\ tx'[a] = NoTx /\ \A b \in Admins \ {a} : tx'[b] = tx[b]
        /\ UNCHANGED <<nextId, fetch, cached>>
    BY <1>5, <1>s DEF Commit
  <2>3. versions' = versions \cup {own}
    BY <1>5, <2>1 DEF Commit
  <2>4. VersionsGrow'
    <3>1. nextId' \in Nat \ {0} /\ versions' \subseteq 1 .. nextId' - 1
      BY <2>1, <2>2, <2>3 DEF CatalogueInv, VersionsGrow
    <3>2. PICK top \in {0} \cup versions : \A x \in {0} \cup versions : x <= top
      BY DEF CatalogueInv, VersionsGrow
    <3>3. top \in Nat
      BY <1>n, <3>2
    <3>4. \E up \in {0} \cup versions' : \A x \in {0} \cup versions' : x <= up
      <4>1. CASE own <= top
        BY <1>n, <2>3, <3>2, <4>1
      <4>2. CASE top < own
        BY <1>n, <2>1, <2>3, <3>2, <3>3, <4>2
      <4> QED
        BY <2>1, <3>3, <4>1, <4>2
    <3> QED
      BY <3>1, <3>4 DEF VersionsGrow
  <2>5. IdsOnce'
    <3>1. ~ NoTx.pc = "commit"
      BY DEF NoTx
    <3>2. \A b \in Admins \ {a} : tx[b].pc = "commit" => tx[b].id # own
      BY <1>5 DEF Commit, CatalogueInv, IdsOnce
    <3> QED
      BY <2>2, <2>3, <3>1, <3>2 DEF CatalogueInv, IdsOnce
  <2>6. Newest' \in Nat /\ own <= Newest' /\ Newest <= Newest'
    <3>1. Newest' \in Nat /\ \A x \in versions' : x <= Newest'
      <4>1. /\ {0} \cup versions' \in SUBSET Nat
            /\ \E top \in {0} \cup versions' : \A x \in {0} \cup versions' : x <= top
        <5>1. \A x \in versions' : x \in Nat
          BY <1>n, <2>1, <2>3
        <5>2. {0} \cup versions' \subseteq Nat
          BY <5>1
        <5>3. \E top \in {0} \cup versions' : \A x \in {0} \cup versions' : x <= top
          BY <2>4, Zenon DEF VersionsGrow
        <5> QED
          BY <5>2, <5>3
      <4> QED
        BY <4>1, MaxOfNaturals DEF Newest
    <3>2. own \in versions' /\ versions \subseteq versions'
      BY <2>3
    <3>3. own <= Newest'
      BY <3>1, <3>2
    <3>4. \A x \in {0} \cup versions : x <= Newest'
      BY <3>1, <3>2
    <3>5. Newest <= Newest'
      BY <1>n, <3>4
    <3> QED
      BY <3>1, <3>3, <3>5
  <2>7. ~disorder' => ~disorder /\ Newest < own
    <3>1. ~disorder' => ~disorder /\ \A x \in versions : ~(x > own)
      BY <1>5, <2>1 DEF Commit
    <3>2. (\A x \in versions : ~(x > own)) => Newest < own
      BY <1>n, <2>1
    <3> QED
      BY <3>1, <3>2
  <2>8. EtagsBehind'
    <3> SUFFICES ASSUME NEW b \in Browsers
                 PROVE  /\ fetch[b].pc = "list" => fetch[b].etag[1] \in Nat /\ fetch[b].etag[1] <= Newest'
                        /\ cached[b].etag # <<>> =>
                              /\ cached[b].etag[1] \in Nat /\ cached[b].etag[1] <= Newest'
                              /\ ~disorder' /\ cached[b].etag[1] = Newest' => cached[b].view = View'
      BY <2>2 DEF EtagsBehind
    <3>1. fetch[b].pc = "list" => fetch[b].etag[1] \in Nat /\ fetch[b].etag[1] <= Newest'
      BY <1>n, <2>6 DEF CatalogueInv, EtagsBehind
    <3>2. cached[b].etag # <<>> => cached[b].etag[1] \in Nat /\ cached[b].etag[1] <= Newest
      BY DEF CatalogueInv, EtagsBehind
    <3>3. cached[b].etag # <<>> /\ ~disorder' => cached[b].etag[1] < Newest'
      BY <1>n, <2>1, <2>6, <2>7, <3>2
    <3> QED
      BY <1>n, <2>6, <3>1, <3>2, <3>3
  <2> QED
    BY <1>t, <2>4, <2>5, <2>8 DEF CatalogueInv
<1>6. ASSUME Tick PROVE CatalogueInv'
  <2>1. Newest' = Newest /\ View' = View
    BY <1>6 DEF Tick, Newest, View, Enabled
  <2> QED
    BY <1>6, <1>t, <2>1 DEF Tick, CatalogueInv, VersionsGrow, IdsOnce, EtagsBehind
<1>7. ASSUME NEW b \in Browsers, Check(b) PROVE CatalogueInv'
  <2>1. UNCHANGED <<versions, nextId, tx, cached, disorder>> /\ Newest' = Newest /\ View' = View
    BY <1>7 DEF Check, Newest, View, Enabled
  <2>2. CASE fetch' = fetch
    BY <1>t, <2>1, <2>2 DEF CatalogueInv, VersionsGrow, IdsOnce, EtagsBehind
  <2>3. CASE fetch' = [fetch EXCEPT ![b] = [pc |-> "list", etag |-> Fingerprint]]
    <3>1. Fingerprint[1] = Newest
      BY DEF Fingerprint, Newest
    <3>2. /\ fetch'[b].etag = Fingerprint
          /\ \A c \in Browsers \ {b} : fetch'[c] = fetch[c]
      BY <1>t, <2>3 DEF CatalogueTypes
    <3>3. EtagsBehind'
      BY <1>n, <2>1, <3>1, <3>2 DEF CatalogueInv, EtagsBehind
    <3> QED
      BY <1>t, <2>1, <3>3 DEF CatalogueInv, VersionsGrow, IdsOnce
  <2> QED
    BY <1>7, <2>2, <2>3 DEF Check
\* The list is at least as new as the fingerprint it is sent with.
<1>8. ASSUME NEW b \in Browsers, ListModels(b) PROVE CatalogueInv'
  <2>1. /\ UNCHANGED <<versions, nextId, tx, disorder>> /\ Newest' = Newest /\ View' = View
        /\ fetch[b].pc = "list"
    BY <1>8 DEF ListModels, Newest, View, Enabled
  <2>2. /\ cached'[b].etag = fetch[b].etag /\ cached'[b].view = View
        /\ fetch'[b].pc = "idle"
        /\ \A c \in Browsers \ {b} : fetch'[c] = fetch[c] /\ cached'[c] = cached[c]
    BY <1>8, <1>t DEF ListModels, CatalogueTypes
  <2>3. EtagsBehind'
    BY <2>1, <2>2 DEF CatalogueInv, EtagsBehind
  <2> QED
    BY <1>t, <2>1, <2>3 DEF CatalogueInv, VersionsGrow, IdsOnce
<1> QED
  BY <1>1, <1>2, <1>3, <1>4, <1>5, <1>6, <1>7, <1>8 DEF CatalogueNext

\* A browser that is answered 304 shows the catalogue as it is, as long as commits
\* keep the order of the version ids (handleListModels, ModelRepo.Fingerprint).
THEOREM NotModifiedIsTrue == CatalogueSpec => []FingerprintHonest
<1>1. CatalogueInv /\ UNCHANGED catalogueVars => CatalogueInv'
  <2> SUFFICES ASSUME CatalogueInv, UNCHANGED catalogueVars PROVE CatalogueInv'
    OBVIOUS
  <2>1. Newest' = Newest /\ View' = View
    BY DEF Newest, View, Enabled, catalogueVars
  <2>2. CatalogueTypes' /\ VersionsGrow' /\ IdsOnce'
    BY DEF CatalogueInv, CatalogueTypes, VersionsGrow, IdsOnce, catalogueVars
  <2>3. EtagsBehind'
    BY <2>1 DEF CatalogueInv, EtagsBehind, catalogueVars
  <2> QED
    BY <2>2, <2>3 DEF CatalogueInv
<1>2. CatalogueInv /\ [CatalogueNext]_catalogueVars => CatalogueInv'
  BY <1>1, CatalogueInvKept
<1>3. CatalogueInv => FingerprintHonest
  <2>1. Fingerprint # <<>> /\ Fingerprint[1] = Newest
    BY DEF Fingerprint, Newest
  <2> QED
    BY <2>1 DEF CatalogueInv, EtagsBehind, FingerprintHonest
<1> QED
  BY <1>2, <1>3, CatalogueInvInit, PTL DEF CatalogueSpec

-----------------------------------------------------------------------------
(* Submission: the inductive invariant *)

Points == {"idle", "lookup", "count", "balance", "snapshot", "card", "create", "hold", "unheld"}

SubmissionTypes ==
    /\ request \in [Requests -> Submitting]
    /\ row \in [Tokens -> {"none", "queued", "running", "ended"}]
    /\ held \in [Tokens -> Nat]
    /\ requeued \subseteq Tokens
    /\ cardsMade \in Nat /\ canvasRev \in Nat
    /\ composed \subseteq 1 .. cardsMade

\* Whoever is on the way has a token; only compositions read a snapshot and make a card.
OnTheWay ==
    \A r \in Requests :
        /\ request[r].pc # "idle" => request[r].token \in Tokens
        /\ request[r].pc \in {"idle", "lookup", "count"} => ~request[r].ofScript
        /\ request[r].pc \in {"snapshot", "card"} \/ request[r].ofScript =>
               request[r].token \in ComposeTokens

\* Request r has inserted the row of its token and has not held for it yet.
Holding(r) == request[r].pc \in {"hold", "unheld"}

\* At most one request is between the row and the hold of a token.
HeldByOne ==
    /\ \A k \in Tokens : held[k] <= 1 /\ (row[k] = "none" => held[k] = 0)
    /\ \A r \in Requests : Holding(r) =>
          /\ held[request[r].token] = 0 /\ row[request[r].token] # "none"
          /\ \A q \in Requests \ {r} : Holding(q) => request[q].token # request[r].token

\* A snapshot without a card is true as long as its revision is.
SnapshotTrue ==
    \A r \in Requests :
        /\ request[r].seenRev <= canvasRev
        /\ request[r].pc = "card" => request[r].ofScript /\ request[r].seenCard = 0
        /\ /\ request[r].pc \in {"balance", "card"}
           /\ request[r].ofScript /\ request[r].seenCard = 0
           /\ request[r].seenRev = canvasRev
           => composed = {}

SubmissionInv == SubmissionTypes /\ OnTheWay /\ HeldByOne /\ SnapshotTrue

-----------------------------------------------------------------------------

LEMMA SubmissionInvInit == SubmissionInit => SubmissionInv
<1> SUFFICES ASSUME SubmissionInit PROVE SubmissionInv
  OBVIOUS
<1> USE DEF SubmissionInit
<1>1. Unsent \in Submitting
  BY DEF Unsent, Submitting
<1>2. SubmissionTypes
  BY <1>1 DEF SubmissionTypes
<1>3. OnTheWay /\ HeldByOne /\ SnapshotTrue
  BY DEF OnTheWay, HeldByOne, Holding, SnapshotTrue, Unsent
<1> QED
  BY <1>2, <1>3 DEF SubmissionInv

\* A request that moves on keeps what it has read; the others stay where they are.
LEMMA GotoMoves ==
    ASSUME SubmissionTypes, NEW r \in Requests, NEW pc \in Points, Goto(r, pc)
    PROVE  /\ request' \in [Requests -> Submitting]
           /\ request'[r].pc = pc
           /\ request'[r].token = request[r].token
           /\ request'[r].seenRev = request[r].seenRev
           /\ request'[r].seenCard = request[r].seenCard
           /\ request'[r].ofScript = request[r].ofScript
           /\ \A q \in Requests \ {r} : request'[q] = request[q]
  BY DEF SubmissionTypes, Goto, Submitting, Points

LEMMA AnswerMoves ==
    ASSUME SubmissionTypes, NEW r \in Requests, Answer(r)
    PROVE  /\ request' \in [Requests -> Submitting]
           /\ request'[r] = Unsent
           /\ \A q \in Requests \ {r} : request'[q] = request[q]
  BY DEF SubmissionTypes, Answer, Submitting, Unsent

\* SubmissionTypes, action by action.
LEMMA SubmissionTypesKept ==
    ASSUME SubmissionTypes, SubmissionNext
    PROVE  SubmissionTypes'
<1>1. ASSUME NEW r \in Requests, NEW k \in Tokens, Submit(r, k) PROVE SubmissionTypes'
  BY <1>1 DEF Submit, Submitting, SubmissionTypes, At
<1>2. ASSUME NEW r \in Requests, Lookup(r) PROVE SubmissionTypes'
  <2>1. PICK pc \in Points : Answer(r) \/ Goto(r, pc)
    BY <1>2 DEF Lookup, Points
  <2> QED
    BY <1>2, <2>1, AnswerMoves, GotoMoves DEF Lookup, SubmissionTypes
<1>3. ASSUME NEW r \in Requests, Refuse(r) PROVE SubmissionTypes'
  BY <1>3, AnswerMoves DEF Refuse, SubmissionTypes
<1>4. ASSUME NEW r \in Requests, Count(r) PROVE SubmissionTypes'
  <2>1. PICK pc \in Points : Answer(r) \/ Goto(r, pc)
    BY <1>4 DEF Count, Points
  <2> QED
    BY <1>4, <2>1, AnswerMoves, GotoMoves DEF Count, SubmissionTypes
<1>5. ASSUME NEW r \in Requests, Snapshot(r) PROVE SubmissionTypes'
  <2>1. PICK script \in BOOLEAN, c \in IF composed = {} THEN {0} ELSE composed :
           request' = [request EXCEPT ![r] = [@ EXCEPT !.pc = "balance", !.seenRev = canvasRev,
                                                       !.seenCard = c, !.ofScript = script]]
    BY <1>5 DEF Snapshot
  <2>2. c \in Nat
    BY DEF SubmissionTypes
  <2> QED
    BY <1>5, <2>1, <2>2 DEF Snapshot, Submitting, SubmissionTypes
<1>6. ASSUME NEW r \in Requests, Balance(r) PROVE SubmissionTypes'
  <2>a. AfterBalance(r) \in Points
    BY DEF AfterBalance, Points
  <2>1. Answer(r) \/ Goto(r, AfterBalance(r))
    BY <1>6 DEF Balance
  <2>2. request' \in [Requests -> Submitting]
    BY <2>a, <2>1, AnswerMoves, GotoMoves
  <2> QED
    BY <1>6, <2>2 DEF Balance, SubmissionTypes
<1>7. ASSUME NEW r \in Requests, CreateCard(r) PROVE SubmissionTypes'
  <2>1. Answer(r) \/ Goto(r, "create")
    BY <1>7 DEF CreateCard
  <2>2. request' \in [Requests -> Submitting]
    BY <2>1, AnswerMoves, GotoMoves DEF Points
  <2>3. /\ cardsMade' \in Nat /\ canvasRev' \in Nat
        /\ composed' \subseteq 1 .. cardsMade'
    <3>1. CASE UNCHANGED <<composed, cardsMade, canvasRev>>
      BY <3>1 DEF SubmissionTypes
    <3>2. CASE /\ composed' = composed \cup {cardsMade + 1}
               /\ cardsMade' = cardsMade + 1 /\ canvasRev' = canvasRev + 1
      BY <3>2 DEF SubmissionTypes
    <3> QED
      BY <1>7, <3>1, <3>2 DEF CreateCard
  <2> QED
    BY <1>7, <2>2, <2>3 DEF CreateCard, SubmissionTypes
<1>8. ASSUME NEW r \in Requests, Create(r) PROVE SubmissionTypes'
  <2>1. Answer(r) \/ Goto(r, "hold")
    BY <1>8 DEF Create
  <2>2. request' \in [Requests -> Submitting]
    BY <2>1, AnswerMoves, GotoMoves DEF Points
  <2> QED
    BY <1>8, <2>2 DEF Create, SubmissionTypes
<1>9. ASSUME NEW r \in Requests, Hold(r) PROVE SubmissionTypes'
  <2>1. Answer(r) \/ Goto(r, "unheld")
    BY <1>9 DEF Hold
  <2>2. request' \in [Requests -> Submitting]
    BY <2>1, AnswerMoves, GotoMoves DEF Points
  <2>3. held' \in [Tokens -> Nat]
    BY <1>9 DEF Hold, SubmissionTypes
  <2> QED
    BY <1>9, <2>2, <2>3 DEF Hold, SubmissionTypes
<1>10. ASSUME NEW r \in Requests, Compensate(r) PROVE SubmissionTypes'
  <2>1. row' \in [Tokens -> {"none", "queued", "running", "ended"}]
    BY <1>10 DEF Compensate, SubmissionTypes
  <2> QED
    BY <1>10, <2>1, AnswerMoves DEF Compensate, SubmissionTypes
<1>11. ASSUME NEW k \in Tokens, ClaimRow(k) \/ EndRow(k) \/ RequeueRow(k) PROVE SubmissionTypes'
  BY <1>11 DEF ClaimRow, EndRow, RequeueRow, SubmissionTypes
<1>12. ASSUME Edit PROVE SubmissionTypes'
  BY <1>12 DEF Edit, SubmissionTypes
<1> QED
  BY <1>1, <1>2, <1>3, <1>4, <1>5, <1>6, <1>7, <1>8, <1>9, <1>10, <1>11, <1>12 DEF SubmissionNext

\* A step of another request, or of nobody, disturbs nothing a request relies on
\* unless it writes to the tables.
LEMMA OnTheWayKept ==
    ASSUME SubmissionInv, SubmissionNext
    PROVE  OnTheWay'
<1> USE DEF SubmissionInv, OnTheWay
<1>1. ASSUME NEW r \in Requests, NEW k \in Tokens, Submit(r, k) PROVE OnTheWay'
  BY <1>1 DEF Submit, Submitting, SubmissionTypes, At
<1>2. ASSUME NEW r \in Requests, Lookup(r) PROVE OnTheWay'
  <2>1. CASE Answer(r)
    BY <2>1, AnswerMoves DEF Unsent
  <2>2. CASE request[r].token \in ComposeTokens /\ Goto(r, "snapshot")
    BY <1>2, <2>2, GotoMoves DEF Lookup, At, Points
  <2>3. CASE Goto(r, "count")
    BY <1>2, <2>3, GotoMoves DEF Lookup, At, Points
  <2> QED
    BY <1>2, <2>1, <2>2, <2>3 DEF Lookup
<1>3. ASSUME NEW r \in Requests, Refuse(r) \/ Compensate(r) PROVE OnTheWay'
  BY <1>3, AnswerMoves DEF Refuse, Compensate, Unsent
<1>4. ASSUME NEW r \in Requests, Count(r) PROVE OnTheWay'
  <2>1. CASE Answer(r)
    BY <2>1, AnswerMoves DEF Unsent
  <2>2. CASE Goto(r, "balance")
    BY <1>4, <2>2, GotoMoves DEF Count, At, Points
  <2> QED
    BY <1>4, <2>1, <2>2 DEF Count
<1>5. ASSUME NEW r \in Requests, Snapshot(r) PROVE OnTheWay'
  BY <1>5 DEF Snapshot, At, SubmissionTypes, Submitting
<1>6. ASSUME NEW r \in Requests, Balance(r) PROVE OnTheWay'
  <2>1. CASE Answer(r)
    BY <2>1, AnswerMoves DEF Unsent
  <2>2. CASE request[r].ofScript /\ Goto(r, "card")
    BY <1>6, <2>2, GotoMoves DEF Balance, At, Points
  <2>3. CASE Goto(r, "create")
    BY <1>6, <2>3, GotoMoves DEF Balance, At, Points
  <2> QED
    BY <1>6, <2>1, <2>2, <2>3 DEF Balance, AfterBalance
<1>7. ASSUME NEW r \in Requests, CreateCard(r) PROVE OnTheWay'
  <2>1. CASE Answer(r)
    BY <2>1, AnswerMoves DEF Unsent
  <2>2. CASE Goto(r, "create")
    BY <1>7, <2>2, GotoMoves DEF CreateCard, At, Points
  <2> QED
    BY <1>7, <2>1, <2>2 DEF CreateCard
<1>8. ASSUME NEW r \in Requests, Create(r) PROVE OnTheWay'
  <2>1. CASE Answer(r)
    BY <2>1, AnswerMoves DEF Unsent
  <2>2. CASE Goto(r, "hold")
    BY <1>8, <2>2, GotoMoves DEF Create, At, Points
  <2> QED
    BY <1>8, <2>1, <2>2 DEF Create
<1>9. ASSUME NEW r \in Requests, Hold(r) PROVE OnTheWay'
  <2>1. CASE Answer(r)
    BY <2>1, AnswerMoves DEF Unsent
  <2>2. CASE Goto(r, "unheld")
    BY <1>9, <2>2, GotoMoves DEF Hold, At, Points
  <2> QED
    BY <1>9, <2>1, <2>2 DEF Hold
<1>10. ASSUME NEW k \in Tokens, ClaimRow(k) \/ EndRow(k) \/ RequeueRow(k) PROVE OnTheWay'
  BY <1>10 DEF ClaimRow, EndRow, RequeueRow
<1>11. ASSUME Edit PROVE OnTheWay'
  BY <1>11 DEF Edit
<1> QED
  BY <1>1, <1>2, <1>3, <1>4, <1>5, <1>6, <1>7, <1>8, <1>9, <1>10, <1>11 DEF SubmissionNext

LEMMA HeldByOneKept ==
    ASSUME SubmissionInv, SubmissionNext
    PROVE  HeldByOne'
<1> USE DEF SubmissionInv, HeldByOne, Holding
<1>1. ASSUME NEW r \in Requests, NEW k \in Tokens, Submit(r, k) PROVE HeldByOne'
  BY <1>1 DEF Submit, Submitting, SubmissionTypes, At
<1>2. ASSUME NEW r \in Requests, Lookup(r) PROVE HeldByOne'
  <2>1. CASE Answer(r)
    BY <1>2, <2>1, AnswerMoves DEF Lookup, Unsent
  <2>2. CASE Goto(r, "snapshot") \/ Goto(r, "count")
    BY <1>2, <2>2, GotoMoves DEF Lookup, Points
  <2> QED
    BY <1>2, <2>1, <2>2 DEF Lookup
<1>3. ASSUME NEW r \in Requests, Refuse(r) PROVE HeldByOne'
  BY <1>3, AnswerMoves DEF Refuse, Unsent
<1>4. ASSUME NEW r \in Requests, Count(r) PROVE HeldByOne'
  <2>1. CASE Answer(r)
    BY <1>4, <2>1, AnswerMoves DEF Count, Unsent
  <2>2. CASE Goto(r, "balance")
    BY <1>4, <2>2, GotoMoves DEF Count, Points
  <2> QED
    BY <1>4, <2>1, <2>2 DEF Count
<1>5. ASSUME NEW r \in Requests, Snapshot(r) PROVE HeldByOne'
  BY <1>5 DEF Snapshot, SubmissionTypes, Submitting
<1>6. ASSUME NEW r \in Requests, Balance(r) PROVE HeldByOne'
  <2>1. CASE Answer(r)
    BY <1>6, <2>1, AnswerMoves DEF Balance, Unsent
  <2>2. CASE Goto(r, "card") \/ Goto(r, "create")
    BY <1>6, <2>2, GotoMoves DEF Balance, Points
  <2> QED
    BY <1>6, <2>1, <2>2 DEF Balance, AfterBalance
<1>7. ASSUME NEW r \in Requests, CreateCard(r) PROVE HeldByOne'
  <2>1. CASE Answer(r)
    BY <1>7, <2>1, AnswerMoves DEF CreateCard, Unsent
  <2>2. CASE Goto(r, "create")
    BY <1>7, <2>2, GotoMoves DEF CreateCard, Points
  <2> QED
    BY <1>7, <2>1, <2>2 DEF CreateCard
\* A row is inserted once: whoever else is between row and hold has another token.
<1>8. ASSUME NEW r \in Requests, Create(r) PROVE HeldByOne'
  <2>0. request[r].token \in Tokens
    BY <1>8 DEF Create, At, OnTheWay
  <2>1. CASE row[request[r].token] # "none"
    BY <1>8, <2>1, AnswerMoves DEF Create, Unsent
  <2>2. CASE row[request[r].token] = "none"
    <3>1. Goto(r, "hold") /\ row' = [row EXCEPT ![request[r].token] = "queued"] /\ held' = held
      BY <1>8, <2>2 DEF Create
    <3>2. \A k \in Tokens : row'[k] = IF k = request[r].token THEN "queued" ELSE row[k]
      BY <2>0, <3>1 DEF SubmissionTypes
    <3>3. \A q \in Requests : Holding(q) => request[q].token # request[r].token
      BY <2>2
    <3>4. \A q \in Requests : Holding(q) => request[q].token \in Tokens
      BY DEF OnTheWay
    <3> QED
      BY <2>0, <2>2, <3>1, <3>2, <3>3, <3>4, GotoMoves DEF Points
  <2> QED
    BY <2>1, <2>2
<1>9. ASSUME NEW r \in Requests, Hold(r) PROVE HeldByOne'
  <2>0. request[r].token \in Tokens /\ Holding(r)
    BY <1>9 DEF Hold, At, OnTheWay
  <2>1. CASE Answer(r) /\ held' = [held EXCEPT ![request[r].token] = @ + 1]
    <3>1. \A k \in Tokens : held'[k] = IF k = request[r].token THEN 1 ELSE held[k]
      BY <2>0, <2>1 DEF SubmissionTypes
    <3>2. \A q \in Requests \ {r} : Holding(q) =>
             request[q].token \in Tokens /\ request[q].token # request[r].token
      BY <2>0 DEF OnTheWay
    <3> QED
      BY <1>9, <2>0, <2>1, <3>1, <3>2, AnswerMoves DEF Hold, Unsent
  <2>2. CASE Goto(r, "unheld") /\ held' = held
    BY <1>9, <2>0, <2>2, GotoMoves DEF Hold, Points
  <2> QED
    BY <1>9, <2>1, <2>2 DEF Hold
<1>10. ASSUME NEW r \in Requests, Compensate(r) PROVE HeldByOne'
  <2>1. \A k \in Tokens : row'[k] = "none" <=> row[k] = "none"
    BY <1>10 DEF Compensate, SubmissionTypes
  <2>2. \A q \in Requests : Holding(q) => request[q].token \in Tokens
    BY DEF OnTheWay
  <2> QED
    BY <1>10, <2>1, <2>2, AnswerMoves DEF Compensate, Unsent
<1>11. ASSUME NEW k \in Tokens, ClaimRow(k) \/ EndRow(k) \/ RequeueRow(k) PROVE HeldByOne'
  <2>1. \A x \in Tokens : row'[x] = "none" <=> row[x] = "none"
    BY <1>11 DEF ClaimRow, EndRow, RequeueRow, Active, SubmissionTypes
  <2>2. \A q \in Requests : Holding(q) => request[q].token \in Tokens
    BY DEF OnTheWay
  <2>3. request' = request /\ held' = held
    BY <1>11 DEF ClaimRow, EndRow, RequeueRow
  <2> QED
    BY <2>1, <2>2, <2>3
<1>12. ASSUME Edit PROVE HeldByOne'
  BY <1>12 DEF Edit
<1> QED
  BY <1>1, <1>2, <1>3, <1>4, <1>5, <1>6, <1>7, <1>8, <1>9, <1>10, <1>11, <1>12 DEF SubmissionNext

LEMMA SnapshotTrueKept ==
    ASSUME SubmissionInv, SubmissionNext
    PROVE  SnapshotTrue'
<1> USE DEF SubmissionInv, SnapshotTrue
<1>0. \A r \in Requests : Answer(r) /\ canvasRev' = canvasRev /\ composed' = composed => SnapshotTrue'
  BY AnswerMoves DEF Unsent, SubmissionTypes
<1>1. ASSUME NEW r \in Requests, NEW k \in Tokens, Submit(r, k) PROVE SnapshotTrue'
  BY <1>1 DEF Submit, Submitting, SubmissionTypes, At
<1>2. ASSUME NEW r \in Requests, Lookup(r) PROVE SnapshotTrue'
  <2>1. CASE Goto(r, "snapshot") \/ Goto(r, "count")
    BY <1>2, <2>1, GotoMoves DEF Lookup, Points
  <2> QED
    BY <1>0, <1>2, <2>1 DEF Lookup
<1>3. ASSUME NEW r \in Requests, Refuse(r) \/ Compensate(r) PROVE SnapshotTrue'
  BY <1>0, <1>3 DEF Refuse, Compensate
<1>4. ASSUME NEW r \in Requests, Count(r) PROVE SnapshotTrue'
  <2>1. CASE Goto(r, "balance")
    BY <1>4, <2>1, GotoMoves DEF Count, Points, OnTheWay, At
  <2> QED
    BY <1>0, <1>4, <2>1 DEF Count
\* Cards are numbered from 1: card 0 is what a snapshot has that finds none.
<1>5. ASSUME NEW r \in Requests, Snapshot(r) PROVE SnapshotTrue'
  <2>1. PICK script \in BOOLEAN, c \in IF composed = {} THEN {0} ELSE composed :
           request' = [request EXCEPT ![r] = [@ EXCEPT !.pc = "balance", !.seenRev = canvasRev,
                                                       !.seenCard = c, !.ofScript = script]]
    BY <1>5 DEF Snapshot
  <2>2. c = 0 => composed = {}
    BY DEF SubmissionTypes
  <2> QED
    BY <1>5, <2>1, <2>2 DEF Snapshot, SubmissionTypes, Submitting
<1>6. ASSUME NEW r \in Requests, Balance(r) PROVE SnapshotTrue'
  <2>1. CASE request[r].ofScript /\ request[r].seenCard = 0 /\ Goto(r, "card")
    BY <1>6, <2>1, GotoMoves DEF Balance, Points, At
  <2>2. CASE Goto(r, "create")
    BY <1>6, <2>2, GotoMoves DEF Balance, Points
  <2> QED
    BY <1>0, <1>6, <2>1, <2>2 DEF Balance, AfterBalance
<1>7. ASSUME NEW r \in Requests, CreateCard(r) PROVE SnapshotTrue'
  <2>1. CASE Goto(r, "create") /\ canvasRev' = canvasRev + 1
    BY <2>1, GotoMoves DEF Points, SubmissionTypes, Submitting
  <2> QED
    BY <1>0, <1>7, <2>1 DEF CreateCard
<1>8. ASSUME NEW r \in Requests, Create(r) PROVE SnapshotTrue'
  <2>1. CASE Goto(r, "hold")
    BY <1>8, <2>1, GotoMoves DEF Create, Points
  <2> QED
    BY <1>0, <1>8, <2>1 DEF Create
<1>9. ASSUME NEW r \in Requests, Hold(r) PROVE SnapshotTrue'
  <2>1. CASE Goto(r, "unheld")
    BY <1>9, <2>1, GotoMoves DEF Hold, Points
  <2> QED
    BY <1>0, <1>9, <2>1 DEF Hold
<1>10. ASSUME NEW k \in Tokens, ClaimRow(k) \/ EndRow(k) \/ RequeueRow(k) PROVE SnapshotTrue'
  BY <1>10 DEF ClaimRow, EndRow, RequeueRow
<1>11. ASSUME Edit PROVE SnapshotTrue'
  BY <1>11 DEF Edit, SubmissionTypes, Submitting
<1> QED
  BY <1>1, <1>2, <1>3, <1>4, <1>5, <1>6, <1>7, <1>8, <1>9, <1>10, <1>11 DEF SubmissionNext

LEMMA StutterKeeps == SubmissionInv /\ UNCHANGED submissionVars => SubmissionInv'
  BY DEF SubmissionInv, SubmissionTypes, OnTheWay, HeldByOne, Holding, SnapshotTrue, submissionVars

LEMMA SubmissionInvKept == SubmissionSpec => []SubmissionInv
<1>1. SubmissionInv /\ [SubmissionNext]_submissionVars => SubmissionInv'
  BY SubmissionTypesKept, OnTheWayKept, HeldByOneKept, SnapshotTrueKept, StutterKeeps DEF SubmissionInv
<1> QED
  BY SubmissionInvInit, <1>1, PTL DEF SubmissionSpec

-----------------------------------------------------------------------------
(* The limit *)

\* The tasks that count against the limit, and the requests that are let through.
Counted == RunningByModel \ requeued
LetThrough == {r \in Requests : /\ request[r].token \in GenerateTokens
                                /\ request[r].pc \in {"balance", "create"}}

LEMMA CountsFinite ==
    ASSUME NEW A \in SUBSET GenerateTokens, NEW B \in SUBSET Requests
    PROVE  /\ IsFiniteSet(A) /\ Cardinality(A) \in Nat
           /\ IsFiniteSet(B) /\ Cardinality(B) \in Nat
           /\ Cardinality(B) <= Cardinality(Requests) /\ Cardinality(Requests) \in Nat
  BY SubmissionAssumption, FS_Subset, FS_CardinalityType

\* Where neither grows, their sum does not.
LEMMA FewerKeep ==
    ASSUME OvershootBounded, Counted' \subseteq Counted, LetThrough' \subseteq LetThrough
    PROVE  OvershootBounded'
<1>1. /\ Counted \in SUBSET GenerateTokens /\ LetThrough \in SUBSET Requests
      /\ Counted' \in SUBSET GenerateTokens /\ LetThrough' \in SUBSET Requests
  BY DEF Counted, LetThrough, RunningByModel
<1>2. /\ Cardinality(Counted') <= Cardinality(Counted)
      /\ Cardinality(LetThrough') <= Cardinality(LetThrough)
  BY <1>1, CountsFinite, FS_Subset
<1>3. /\ Cardinality(Counted) \in Nat /\ Cardinality(LetThrough) \in Nat
      /\ Cardinality(Counted') \in Nat /\ Cardinality(LetThrough') \in Nat
      /\ Cardinality(Requests) \in Nat
  BY <1>1, CountsFinite
<1> QED
  BY <1>2, <1>3, SubmissionAssumption DEF OvershootBounded, Counted, LetThrough

\* The step that is let through has seen room below the limit.
LEMMA CountKeeps ==
    ASSUME SubmissionInv, NEW r \in Requests, Count(r), Goto(r, "balance"), OvershootBounded,
           MaxConcurrent > 0 => Cardinality(RunningByModel) < MaxConcurrent
    PROVE  OvershootBounded'
<1>1. /\ Counted' \in SUBSET GenerateTokens /\ LetThrough' \in SUBSET Requests
      /\ RunningByModel \in SUBSET GenerateTokens
  BY DEF Counted, LetThrough, RunningByModel
<1>2. Counted' \subseteq RunningByModel
  BY DEF Count, Counted, RunningByModel, Active
<1>3. Cardinality(Counted') <= Cardinality(RunningByModel)
  BY <1>1, <1>2, CountsFinite, FS_Subset
<1>4. /\ Cardinality(Counted') \in Nat /\ Cardinality(LetThrough') \in Nat
      /\ Cardinality(RunningByModel) \in Nat /\ Cardinality(Requests) \in Nat
      /\ Cardinality(LetThrough') <= Cardinality(Requests)
  BY <1>1, CountsFinite
<1> QED
  BY <1>3, <1>4, SubmissionAssumption DEF OvershootBounded, Counted, LetThrough

\* The row takes the place of the request that inserts it.
LEMMA CreateKeeps ==
    ASSUME SubmissionInv, NEW r \in Requests, Create(r), Goto(r, "hold"), OvershootBounded,
           row' = [row EXCEPT ![request[r].token] = "queued"]
    PROVE  OvershootBounded'
<1> DEFINE k == request[r].token
<1>0. k \in Tokens
  BY DEF SubmissionInv, OnTheWay, Create, At
<1>1. \A x \in Tokens : row'[x] = IF x = k THEN "queued" ELSE row[x]
  BY <1>0 DEF SubmissionInv, SubmissionTypes
<1>2. LetThrough' = LetThrough \ {r}
  BY GotoMoves DEF SubmissionInv, LetThrough, Points
<1>3. CASE k \notin GenerateTokens
  <2>1. Counted' \subseteq Counted
    BY <1>1, <1>3 DEF Counted, RunningByModel, Active, Create, Tokens
  <2> QED
    BY <2>1, <1>2, FewerKeep
<1>4. CASE k \in GenerateTokens
  <2>1. r \in LetThrough
    BY <1>4 DEF LetThrough, Create, At
  <2>2. Counted' \subseteq Counted \cup {k}
    BY <1>1, <1>4 DEF Counted, RunningByModel, Active, Create, Tokens
  <2>3. /\ Counted \in SUBSET GenerateTokens /\ LetThrough \in SUBSET Requests
        /\ Counted' \in SUBSET GenerateTokens /\ Counted \cup {k} \in SUBSET GenerateTokens
        /\ LetThrough' \in SUBSET Requests
    BY <1>4 DEF Counted, LetThrough, RunningByModel
  <2>4. /\ Cardinality(Counted') \in Nat /\ Cardinality(LetThrough) \in Nat
        /\ Cardinality(Counted) \in Nat /\ Cardinality(Requests) \in Nat
        /\ Cardinality(LetThrough') \in Nat
        /\ IsFiniteSet(Counted) /\ IsFiniteSet(Counted \cup {k}) /\ IsFiniteSet(LetThrough)
    BY <2>3, CountsFinite
  <2>5. Cardinality(Counted') <= Cardinality(Counted) + 1
    <3>1. Cardinality(Counted') <= Cardinality(Counted \cup {k})
      BY <2>2, <2>4, FS_Subset
    <3>2. Cardinality(Counted \cup {k}) = IF k \in Counted THEN Cardinality(Counted)
                                                           ELSE Cardinality(Counted) + 1
      BY <2>4, FS_AddElement
    <3> QED
      BY <2>4, <3>1, <3>2
  <2>6. Cardinality(LetThrough') = Cardinality(LetThrough) - 1
    BY <1>2, <2>1, <2>4, FS_RemoveElement
  <2> QED
    BY <2>4, <2>5, <2>6, SubmissionAssumption DEF OvershootBounded, Counted, LetThrough
<1> QED
  BY <1>3, <1>4

LEMMA BoundKept ==
    ASSUME SubmissionInv, SubmissionNext, OvershootBounded
    PROVE  OvershootBounded'
<1> USE DEF SubmissionInv
<1>0. UNCHANGED <<row, requeued>> => Counted' = Counted
  BY DEF Counted, RunningByModel, Active
<1>a. \A r \in Requests : Answer(r) => LetThrough' \subseteq LetThrough
  BY AnswerMoves DEF LetThrough, Unsent
<1>g. \A r \in Requests : \A pc \in Points \ {"balance", "create"} :
         Goto(r, pc) => LetThrough' \subseteq LetThrough
  BY GotoMoves DEF LetThrough
<1>1. ASSUME NEW r \in Requests, NEW k \in Tokens, Submit(r, k) PROVE OvershootBounded'
  <2>1. LetThrough' \subseteq LetThrough
    BY <1>1 DEF Submit, Submitting, SubmissionTypes, LetThrough
  <2> QED
    BY <1>0, <1>1, <2>1, FewerKeep DEF Submit
<1>2. ASSUME NEW r \in Requests, Lookup(r) PROVE OvershootBounded'
  <2>1. LetThrough' \subseteq LetThrough
    BY <1>2, <1>a, <1>g DEF Lookup, Points
  <2> QED
    BY <1>0, <1>2, <2>1, FewerKeep DEF Lookup
<1>3. ASSUME NEW r \in Requests, Refuse(r) PROVE OvershootBounded'
  BY <1>0, <1>3, <1>a, FewerKeep DEF Refuse
<1>4. ASSUME NEW r \in Requests, Count(r) PROVE OvershootBounded'
  <2>1. CASE Answer(r)
    BY <1>0, <1>4, <1>a, <2>1, FewerKeep DEF Count
  <2>2. CASE /\ ~(MaxConcurrent > 0 /\ Cardinality(RunningByModel) >= MaxConcurrent)
             /\ Goto(r, "balance")
    <3>1. RunningByModel \in SUBSET GenerateTokens /\ {} \in SUBSET Requests
      BY DEF RunningByModel
    <3>2. Cardinality(RunningByModel) \in Nat
      BY <3>1, CountsFinite
    <3>3. MaxConcurrent > 0 => Cardinality(RunningByModel) < MaxConcurrent
      BY <2>2, <3>2, SubmissionAssumption
    <3> QED
      BY <1>4, <2>2, <3>3, CountKeeps
  <2> QED
    BY <1>4, <2>1, <2>2 DEF Count
<1>5. ASSUME NEW r \in Requests, Snapshot(r) PROVE OvershootBounded'
  <2>1. request[r].token \notin GenerateTokens
    BY <1>5, SubmissionAssumption DEF Snapshot, At, OnTheWay
  <2>2. LetThrough' \subseteq LetThrough
    BY <1>5, <2>1 DEF Snapshot, SubmissionTypes, Submitting, LetThrough
  <2> QED
    BY <1>0, <1>5, <2>2, FewerKeep DEF Snapshot
<1>6. ASSUME NEW r \in Requests, Balance(r) PROVE OvershootBounded'
  <2>2. ASSUME Goto(r, AfterBalance(r)) PROVE LetThrough' \subseteq LetThrough
    <3>1. AfterBalance(r) \in Points
      BY DEF AfterBalance, Points
    <3>2. request'[r].token = request[r].token /\ \A q \in Requests \ {r} : request'[q] = request[q]
      BY <2>2, <3>1, GotoMoves
    <3> QED
      BY <1>6, <3>2 DEF Balance, At, LetThrough
  <2>3. LetThrough' \subseteq LetThrough
    BY <1>6, <1>a, <2>2 DEF Balance
  <2> QED
    BY <1>0, <1>6, <2>3, FewerKeep DEF Balance
<1>7. ASSUME NEW r \in Requests, CreateCard(r) PROVE OvershootBounded'
  <2>1. request[r].token \notin GenerateTokens
    BY <1>7, SubmissionAssumption DEF CreateCard, At, OnTheWay
  <2>2. ASSUME Goto(r, "create") PROVE LetThrough' \subseteq LetThrough
    BY <2>1, <2>2, GotoMoves DEF LetThrough, Points
  <2>3. LetThrough' \subseteq LetThrough
    BY <1>7, <1>a, <2>2 DEF CreateCard
  <2> QED
    BY <1>0, <1>7, <2>3, FewerKeep DEF CreateCard
<1>8. ASSUME NEW r \in Requests, Create(r) PROVE OvershootBounded'
  <2>1. CASE Answer(r) /\ UNCHANGED row
    BY <1>0, <1>8, <1>a, <2>1, FewerKeep DEF Create
  <2>2. CASE Goto(r, "hold") /\ row' = [row EXCEPT ![request[r].token] = "queued"]
    BY <1>8, <2>2, CreateKeeps
  <2> QED
    BY <1>8, <2>1, <2>2 DEF Create
<1>9. ASSUME NEW r \in Requests, Hold(r) PROVE OvershootBounded'
  <2>1. LetThrough' \subseteq LetThrough
    BY <1>9, <1>a, <1>g DEF Hold, Points
  <2> QED
    BY <1>0, <1>9, <2>1, FewerKeep DEF Hold
<1>10. ASSUME NEW r \in Requests, Compensate(r) PROVE OvershootBounded'
  <2>1. Counted' \subseteq Counted
    BY <1>10 DEF Compensate, Counted, RunningByModel, Active, SubmissionTypes, Tokens
  <2> QED
    BY <1>10, <1>a, <2>1, FewerKeep DEF Compensate
\* A task that is queued again no longer counts.
<1>11. ASSUME NEW k \in Tokens, ClaimRow(k) \/ EndRow(k) \/ RequeueRow(k) PROVE OvershootBounded'
  <2>1. Counted' \subseteq Counted
    BY <1>11 DEF ClaimRow, EndRow, RequeueRow, Counted, RunningByModel, Active, SubmissionTypes, Tokens
  <2>2. LetThrough' = LetThrough
    BY <1>11 DEF ClaimRow, EndRow, RequeueRow, LetThrough
  <2> QED
    BY <2>1, <2>2, FewerKeep
<1>12. ASSUME Edit PROVE OvershootBounded'
  <2>1. LetThrough' = LetThrough
    BY <1>12 DEF Edit, LetThrough
  <2> QED
    BY <1>0, <1>12, <2>1, FewerKeep DEF Edit
<1> QED
  BY <1>1, <1>2, <1>3, <1>4, <1>5, <1>6, <1>7, <1>8, <1>9, <1>10, <1>11, <1>12 DEF SubmissionNext

-----------------------------------------------------------------------------
(* The theorems *)

\* The limit on concurrent tasks is exceeded by requests that overlap and by nothing else: by
\* less than there are requests under way (submitTask, CountRunningByModel).
THEOREM LimitOvershotByRacesOnly == SubmissionSpec => []OvershootBounded
<1>1. SubmissionInit => OvershootBounded
  <2> SUFFICES ASSUME SubmissionInit PROVE OvershootBounded
    OBVIOUS
  <2>1. Counted = {} /\ LetThrough = {}
    BY DEF SubmissionInit, Counted, RunningByModel, Active, Tokens, LetThrough, Unsent
  <2>2. Cardinality(Requests) \in Nat
    BY SubmissionAssumption, FS_CardinalityType
  <2>3. Cardinality(Counted) = 0 /\ Cardinality(LetThrough) = 0
    BY <2>1, FS_EmptySet
  <2> QED
    BY <2>2, <2>3, SubmissionAssumption DEF OvershootBounded, Counted, LetThrough
<1>2. SubmissionInv /\ OvershootBounded /\ [SubmissionNext]_submissionVars => OvershootBounded'
  <2>1. UNCHANGED submissionVars /\ OvershootBounded => OvershootBounded'
    <3> SUFFICES ASSUME UNCHANGED submissionVars, OvershootBounded PROVE OvershootBounded'
      OBVIOUS
    <3>1. Counted' = Counted /\ LetThrough' = LetThrough
      BY DEF submissionVars, Counted, RunningByModel, Active, LetThrough
    <3> QED
      BY <3>1, FewerKeep
  <2> QED
    BY <2>1, BoundKept
<1> QED
  BY <1>1, <1>2, SubmissionInvKept, PTL DEF SubmissionSpec

\* However often a token is sent, and while its first request is still under way, credits are
\* held for it once (GetByClientToken, uk_tasks_client_token).
THEOREM TokensHeldOnce == SubmissionSpec => []TokenHeldOnce
<1>1. SubmissionInv => TokenHeldOnce
  BY DEF SubmissionInv, HeldByOne, TokenHeldOnce
<1> QED
  BY SubmissionInvKept, <1>1, PTL

\* A composition makes a card only where none is, with any number of compositions and edits
\* between its snapshot and its card (handleCanvasCompose, ApplyOps).
THEOREM CardMadeAlone == SubmissionSpec => OneComposedCard
<1>1. SubmissionInv /\ [SubmissionNext]_submissionVars =>
         (cardsMade' > cardsMade => composed = {}) \/ UNCHANGED submissionVars
  <2> SUFFICES ASSUME SubmissionInv, SubmissionNext, cardsMade' > cardsMade PROVE composed = {}
    BY DEF submissionVars
  <2>1. ~(cardsMade' = cardsMade)
    BY DEF SubmissionInv, SubmissionTypes
  <2>2. PICK r \in Requests : CreateCard(r)
    BY <2>1 DEF SubmissionNext, Submit, Lookup, Refuse, Count, Snapshot, Balance, Create, Hold,
                Compensate, ClaimRow, EndRow, RequeueRow, Edit
  <2>3. request[r].pc = "card" /\ request[r].seenRev = canvasRev
    BY <2>1, <2>2 DEF CreateCard, At
  <2> QED
    BY <2>3 DEF SubmissionInv, SnapshotTrue
<1> QED
  BY SubmissionInvKept, <1>1, PTL DEF SubmissionSpec, OneComposedCard

-----------------------------------------------------------------------------
(* Numbers *)

\* A set of numbers that is not empty has a least one.
LEMMA LeastNumber ==
    ASSUME NEW S \in SUBSET Nat, S # {}
    PROVE  \E n \in S : \A m \in S : n <= m
<1> DEFINE R == {ss \in Nat \X Nat : ss[1] < ss[2]}
<1>1. IsWellFoundedOn(R, Nat)
  BY NatLessThanWellFounded DEF OpToRel
<1>2. \A m, n \in Nat : <<m, n>> \in R <=> m < n
  OBVIOUS
<1> HIDE DEF R
<1>3. PICK n \in S : \A m \in S : ~ (<<m, n>> \in R)
  BY <1>1, WFMin
<1>4. ASSUME NEW m \in S
      PROVE  n <= m
  <2>1. m \in Nat /\ n \in Nat /\ ~ (m < n)
    BY <1>2, <1>3
  <2> QED
    BY <2>1
<1> QED
  BY <1>4

\* What holds of zero and of each number whose predecessor it holds of holds of all.
LEMMA Induction ==
    ASSUME NEW K \in Nat, NEW S, 0 \in S, \A n \in 1 .. K : n - 1 \in S => n \in S
    PROVE  0 .. K \subseteq S
<1> DEFINE R == {n \in Nat : n <= K /\ n \notin S}
<1>1. SUFFICES ASSUME R # {} PROVE FALSE
  OBVIOUS
<1>2. PICK n \in R : \A m \in R : n <= m
  BY <1>1, LeastNumber
<1>3. n \in 1 .. K /\ n - 1 \in Nat /\ n - 1 <= K /\ ~(n <= n - 1)
  BY <1>2
<1>4. n - 1 \in S
  BY <1>2, <1>3
<1> QED
  BY <1>2, <1>3, <1>4

\* Recursion whose n-th result is in X[n]: from e, the n-th of K steps is F[n].
Leads(X, e, K, F, f) ==
    /\ f = [n \in 0 .. K |-> f[n]]
    /\ f[0] = e
    /\ \A n \in 0 .. K : f[n] \in X[n]
    /\ \A n \in 1 .. K : f[n] = F[n][f[n - 1]]

LEMMA Recursion ==
    ASSUME NEW K \in Nat, NEW X, NEW e \in X[0], NEW F,
           \A n \in 1 .. K : F[n] \in [X[n - 1] -> X[n]]
    PROVE  \E f : Leads(X, e, K, F, f)
<1> DEFINE S == {k \in Nat : k <= K /\ ~ \E f : Leads(X, e, k, F, f)}
<1>1. S = {}
  <2>1. SUFFICES ASSUME S # {} PROVE FALSE
    OBVIOUS
  <2>2. PICK k \in S : \A m \in S : k <= m
    BY <2>1, LeastNumber
  <2>3. k # 0
    <3>1. Leads(X, e, 0, F, [n \in 0 .. 0 |-> e])
      BY DEF Leads
    <3> QED
      BY <2>2, <3>1
  <2>4. k - 1 \in Nat /\ k - 1 < k /\ k - 1 <= K /\ k \in 1 .. K
    BY <2>3
  <2>5. PICK f : Leads(X, e, k - 1, F, f)
    <3>1. k - 1 \notin S
      <4> HIDE DEF S
      <4> QED
        BY <2>2, <2>4
    <3> QED
      BY <2>4, <3>1
  <2> DEFINE last == F[k][f[k - 1]]
             g == [n \in 0 .. k |-> IF n = k THEN last ELSE f[n]]
  <2>e. f[0] = e /\ (\A n \in 0 .. k - 1 : f[n] \in X[n]) /\ \A n \in 1 .. k - 1 : f[n] = F[n][f[n - 1]]
    BY <2>5 DEF Leads
  <2>6. last \in X[k]
    BY <2>4, <2>e
  <2>7. g[0] = e /\ (\A n \in 0 .. k : g[n] \in X[n]) /\ g = [n \in 0 .. k |-> g[n]]
    BY <2>3, <2>4, <2>e, <2>6
  <2>8. ASSUME NEW n \in 1 .. k PROVE g[n] = F[n][g[n - 1]]
    <3>1. g[n - 1] = f[n - 1]
      BY <2>4
    <3>2. CASE n = k
      BY <3>1, <3>2
    <3>3. CASE n # k
      <4>1. n \in 1 .. k - 1
        BY <2>4, <3>3
      <4> QED
        BY <2>e, <3>1, <3>3, <4>1
    <3> QED
      BY <3>2, <3>3
  <2>9. Leads(X, e, k, F, g)
    BY <2>7, <2>8 DEF Leads
  <2> QED
    BY <2>2, <2>9
<1>2. K \notin S
  BY <1>1
<1> HIDE DEF S
<1>3. \E f : Leads(X, e, K, F, f)
  BY <1>2 DEF S
<1> QED
  BY <1>3

-----------------------------------------------------------------------------
(* Pages: the order of a list *)

Walks == [pc : {"idle", "walking", "done"}, cursor : [at : Nat, id : Nat]]

PageTypes ==
    /\ at \in [Ids -> Nat]
    /\ hidden \subseteq Ids
    /\ now \in Nat \ {0}
    /\ walk \in Walks
    /\ shown \in [Ids -> Nat]
    /\ expected \subseteq Ids

\* Before is a strict order of all rows.
LEMMA BeforeOrders ==
    ASSUME PageTypes, NEW i \in Ids, NEW j \in Ids, NEW k \in Ids
    PROVE  /\ ~Before(i, i)
           /\ i = j \/ Before(i, j) \/ Before(j, i)
           /\ Before(i, j) /\ Before(j, k) => Before(i, k)
BY DEF PageTypes, Ids, Before

\* Rows have a last one,
LEMMA LastExists ==
    ASSUME PageTypes, NEW S \in SUBSET Ids, S # {}
    PROVE  \E i \in S : \A j \in S \ {i} : Before(j, i)
<1> DEFINE T == {at[i] : i \in S}
<1>1. T \subseteq Nat /\ T # {}
  BY DEF PageTypes
<1>2. PICK t \in T : \A u \in T : t <= u
  BY <1>1, LeastNumber
<1> DEFINE U == {i \in S : at[i] = t}
<1>3. U \subseteq Nat /\ U # {}
  <2>1. U # {}
    BY <1>2
  <2>2. S \subseteq Nat
    BY PagesAssumption DEF Ids, PagesAssumption
  <2> QED
    BY <2>1, <2>2
<1>4. PICK i \in U : \A j \in U : i <= j
  BY <1>3, LeastNumber
<1>5. ASSUME NEW j \in S \ {i}
      PROVE  Before(j, i)
  <2>1. at[j] \in Nat /\ at[i] = t /\ t \in Nat /\ t <= at[j] /\ i \in Nat /\ j \in Nat
    BY <1>1, <1>2, <1>3, <1>4 DEF Ids
  <2>2. at[j] = t => j \in U /\ i <= j
    BY <1>4
  <2> QED
    BY <1>5, <2>1, <2>2 DEF Before
<1> QED
  BY <1>4, <1>5

\* and LastOf finds it.
LEMMA LastFound ==
    ASSUME PageTypes, NEW S \in SUBSET Ids, S # {}
    PROVE  LastOf(S) \in S /\ \A j \in S \ {LastOf(S)} : Before(j, LastOf(S))
BY LastExists DEF LastOf

\* The rows of a list have a first one.
LEMMA FirstExists ==
    ASSUME PageTypes, NEW S \in SUBSET Ids, S # {}
    PROVE  \E i \in S : \A j \in S : ~Before(j, i)
<1> DEFINE Above(i) == Cardinality({j \in S : Before(j, i)})
           T == {Above(i) : i \in S}
<1>0. IsFiniteSet(S)
  <2>1. IsFiniteSet(1 .. MaxRow)
    BY PagesAssumption, FS_Interval DEF PagesAssumption
  <2> QED
    BY <2>1, FS_Subset DEF Ids
<1>1. \A i \in S : Above(i) \in Nat
  BY <1>0, FS_Subset, FS_CardinalityType
<1>2. T \subseteq Nat /\ T # {}
  BY <1>1
<1> HIDE DEF Above
<1>3. PICK i \in S : \A j \in S : Above(i) <= Above(j)
  <2>1. PICK t \in T : \A u \in T : t <= u
    BY <1>2, LeastNumber
  <2> QED
    BY <2>1
<1>4. ASSUME NEW j \in S, Before(j, i)
      PROVE  FALSE
  <2>1. {k \in S : Before(k, j)} \subseteq {k \in S : Before(k, i)}
    BY <1>4, BeforeOrders
  <2>2. j \in {k \in S : Before(k, i)} /\ j \notin {k \in S : Before(k, j)}
    BY <1>4, BeforeOrders
  <2>3. Above(j) <= Above(i) /\ Above(j) # Above(i)
    <3>1. IsFiniteSet({k \in S : Before(k, i)})
      BY <1>0, FS_Subset
    <3> QED
      BY <2>1, <2>2, <3>1, FS_Subset DEF Above
  <2> QED
    BY <1>1, <1>3, <2>3
<1> QED
  BY <1>3, <1>4

\* A page that is not the last one has rows, and those it leaves out come after its last.
LEMMA PageCuts ==
    ASSUME PageTypes, NEW rows \in SUBSET Ids
    PROVE  /\ Page(rows) \subseteq rows
           /\ ~HasMore(rows) => Page(rows) = rows
           /\ HasMore(rows) =>
                 /\ LastOf(Page(rows)) \in Page(rows)
                 /\ \A i \in Page(rows) \ {LastOf(Page(rows))} : Before(i, LastOf(Page(rows)))
                 /\ \A i \in rows \ Page(rows) : Before(LastOf(Page(rows)), i)
<1>1. Page(rows) \subseteq rows
  BY DEF Page
<1>2. IsFiniteSet(rows)
  <2>1. IsFiniteSet(1 .. MaxRow)
    BY PagesAssumption, FS_Interval DEF PagesAssumption
  <2> QED
    BY <2>1, FS_Subset DEF Ids
<1>3. \A i \in rows : IsFiniteSet({j \in rows : Before(j, i)})
  BY <1>2, FS_Subset
<1>4. ASSUME ~HasMore(rows), NEW i \in rows
      PROVE  i \in Page(rows)
  <2>1. i \notin {j \in rows : Before(j, i)}
    BY BeforeOrders
  <2>2. Cardinality({j \in rows : Before(j, i)}) < Cardinality(rows)
    <3>1. {j \in rows : Before(j, i)} \in SUBSET rows /\ {j \in rows : Before(j, i)} # rows
      BY <2>1
    <3>2. Cardinality({j \in rows : Before(j, i)}) \in Nat /\ Cardinality(rows) \in Nat
      BY <1>2, <1>3, FS_CardinalityType
    <3>3. Cardinality({j \in rows : Before(j, i)}) <= Cardinality(rows)
      BY <1>2, <3>1, FS_Subset
    <3>4. Cardinality({j \in rows : Before(j, i)}) # Cardinality(rows)
      BY <1>2, <3>1, FS_Subset
    <3> QED
      BY <3>2, <3>3, <3>4
  <2>3. Cardinality({j \in rows : Before(j, i)}) \in Nat /\ Cardinality(rows) \in Nat
    BY <1>2, <1>3, FS_CardinalityType
  <2> QED
    BY <1>4, <2>2, <2>3, PagesAssumption DEF HasMore, Page, PagesAssumption
<1>5. ASSUME HasMore(rows)
      PROVE  Page(rows) # {}
  <2>1. rows # {}
    BY <1>5, FS_EmptySet, PagesAssumption DEF HasMore, PagesAssumption
  <2>2. PICK i \in rows : \A j \in rows : ~Before(j, i)
    BY <2>1, FirstExists
  <2>3. {j \in rows : Before(j, i)} = {}
    BY <2>2
  <2>4. Cardinality({j \in rows : Before(j, i)}) = 0
    BY <2>3, FS_EmptySet
  <2> QED
    BY <2>4, PagesAssumption DEF Page, PagesAssumption
<1>6. ASSUME HasMore(rows), NEW i \in rows \ Page(rows)
      PROVE  Before(LastOf(Page(rows)), i)
  <2> DEFINE last == LastOf(Page(rows))
  <2>1. last \in Page(rows)
    BY <1>1, <1>5, <1>6, LastFound
  <2> HIDE DEF last
  <2>2. ASSUME Before(i, last)
        PROVE  FALSE
    <3>1. {j \in rows : Before(j, i)} \subseteq {j \in rows : Before(j, last)}
      BY <1>1, <2>1, <2>2, BeforeOrders
    <3>2. Cardinality({j \in rows : Before(j, i)}) <= Cardinality({j \in rows : Before(j, last)})
      BY <1>1, <1>3, <2>1, <3>1, FS_Subset
    <3>3. Cardinality({j \in rows : Before(j, last)}) < Limit
      BY <2>1 DEF Page
    <3>4. ~ (Cardinality({j \in rows : Before(j, i)}) < Limit)
      BY <1>6 DEF Page
    <3>5. /\ Cardinality({j \in rows : Before(j, i)}) \in Nat
          /\ Cardinality({j \in rows : Before(j, last)}) \in Nat
      BY <1>1, <1>3, <2>1, FS_CardinalityType
    <3> QED
      BY <3>2, <3>3, <3>4, <3>5, PagesAssumption DEF PagesAssumption
  <2> QED
    BY <1>1, <1>6, <2>1, <2>2, BeforeOrders DEF last
<1> QED
  BY <1>1, <1>4, <1>5, <1>6, LastFound

-----------------------------------------------------------------------------
(* Pages: the invariant *)

\* What the cursor has passed: row i is not after it.
Passed(i) == at[i] > walk.cursor.at \/ (at[i] = walk.cursor.at /\ i >= walk.cursor.id)

\* A row that has been shown exists, has been shown once, and the cursor has passed it.
ShownOnce ==
    \A i \in Ids :
        /\ shown[i] \in {0, 1}
        /\ shown[i] = 1 => at[i] > 0 /\ walk.pc # "idle" /\ (walk.pc = "walking" => Passed(i))

\* A row that is expected is listed, and has been shown or is still to come.
ShownOrAhead ==
    \A i \in expected :
        /\ i \in Listed
        /\ walk.pc = "walking" => shown[i] = 1 \/ ~Passed(i)
        /\ walk.pc = "done" => shown[i] = 1
        /\ walk.pc # "idle"

PagesInv == PageTypes /\ ShownOnce /\ ShownOrAhead

LEMMA PagesStart == PagesInit => PagesInv
BY PagesAssumption DEF PagesInit, PagesInv, PageTypes, ShownOnce, ShownOrAhead, Walks, Start, Ids, PagesAssumption

\* Rows that come, go and move between two pages.
LEMMA InsertKeeps ==
    ASSUME PagesInv, NEW i \in Ids, Insert(i)
    PROVE  PagesInv'
<1>1. PICK t \in {now, now - 1} \ {0} : at' = [at EXCEPT ![i] = t]
  BY DEF Insert
<1>2. t \in Nat
  BY <1>1 DEF PagesInv, PageTypes
<1>3. PageTypes'
  BY <1>1, <1>2 DEF PagesInv, PageTypes, Insert
<1>4. \A j \in Ids : at[j] > 0 => at'[j] = at[j]
  BY <1>1 DEF PagesInv, PageTypes, Insert
<1>5. ShownOnce'
  BY <1>4 DEF PagesInv, ShownOnce, Passed, Insert
<1>6. ShownOrAhead'
  BY <1>4 DEF PagesInv, PageTypes, ShownOrAhead, Listed, Passed, Insert
<1> QED
  BY <1>3, <1>5, <1>6 DEF PagesInv

LEMMA HideKeeps ==
    ASSUME PagesInv, NEW i \in Ids, Hide(i)
    PROVE  PagesInv'
<1>1. PageTypes'
  BY DEF PagesInv, PageTypes, Hide
<1>2. ShownOnce'
  BY DEF PagesInv, ShownOnce, Passed, Hide
<1>3. ShownOrAhead'
  BY DEF PagesInv, PageTypes, ShownOrAhead, Listed, Passed, Hide
<1> QED
  BY <1>1, <1>2, <1>3 DEF PagesInv

LEMMA RevealKeeps ==
    ASSUME PagesInv, NEW i \in Ids, Reveal(i)
    PROVE  PagesInv'
<1>1. PageTypes'
  BY DEF PagesInv, PageTypes, Reveal
<1>2. ShownOnce'
  BY DEF PagesInv, ShownOnce, Passed, Reveal
<1>3. ShownOrAhead'
  BY DEF PagesInv, PageTypes, ShownOrAhead, Listed, Passed, Reveal
<1> QED
  BY <1>1, <1>2, <1>3 DEF PagesInv

\* A row that moves to the top leaves the cursor behind it even further.
LEMMA TouchKeeps ==
    ASSUME PagesInv, NEW i \in Ids, Touch(i)
    PROVE  PagesInv'
<1>1. PageTypes'
  BY DEF PagesInv, PageTypes, Touch
<1>2. ShownOnce'
  <2> SUFFICES ASSUME NEW j \in Ids
               PROVE  /\ shown'[j] \in {0, 1}
                      /\ shown'[j] = 1 =>
                            at'[j] > 0 /\ walk'.pc # "idle" /\ (walk'.pc = "walking" => Passed(j)')
    BY DEF ShownOnce
  <2>1. at'[j] \in Nat /\ at[j] \in Nat /\ at'[j] >= at[j] /\ (at'[j] # at[j] => at'[j] > at[j])
    BY DEF PagesInv, PageTypes, Touch
  <2>2. walk.cursor.at \in Nat /\ walk.cursor.id \in Nat
    BY DEF PagesInv, PageTypes, Walks
  <2> QED
    BY <2>1, <2>2 DEF PagesInv, ShownOnce, Passed, Touch
<1>3. ShownOrAhead'
  BY DEF PagesInv, PageTypes, ShownOrAhead, Listed, Passed, Touch
<1> QED
  BY <1>1, <1>2, <1>3 DEF PagesInv

LEMMA ElapseKeeps ==
    ASSUME PagesInv, Elapse
    PROVE  PagesInv'
BY DEF PagesInv, PageTypes, ShownOnce, ShownOrAhead, Listed, Passed, Elapse

LEMMA AgainKeeps ==
    ASSUME PagesInv, Again
    PROVE  PagesInv'
<1>1. PageTypes'
  BY DEF PagesInv, PageTypes, Walks, Again
<1> QED
  BY <1>1 DEF PagesInv, PageTypes, Walks, ShownOnce, ShownOrAhead, Again

\* A page moves the cursor past the rows it shows and past no others.
LEMMA FetchKeeps ==
    ASSUME PagesInv, Fetch
    PROVE  PagesInv'
<1> DEFINE rows == After(walk.cursor)
           page == Page(rows)
<1>1. rows \subseteq Listed /\ rows \subseteq Ids
  BY DEF After, Listed
<1>2. /\ page \subseteq rows
      /\ ~HasMore(rows) => page = rows
      /\ HasMore(rows) =>
            /\ LastOf(page) \in page
            /\ \A i \in page \ {LastOf(page)} : Before(i, LastOf(page))
            /\ \A i \in rows \ page : Before(LastOf(page), i)
  BY <1>1, PageCuts DEF PagesInv
<1>3. /\ shown' = [i \in Ids |-> shown[i] + IF i \in page THEN 1 ELSE 0]
      /\ walk' = IF HasMore(rows)
                 THEN [pc |-> "walking", cursor |-> [at |-> at[LastOf(page)], id |-> LastOf(page)]]
                 ELSE [pc |-> "done", cursor |-> Start]
      /\ expected' = IF walk.pc = "idle" THEN rows ELSE expected
      /\ at' = at /\ hidden' = hidden /\ now' = now
      /\ walk.pc \in {"idle", "walking"}
  BY DEF Fetch
<1>4. \A i \in Ids : i \in rows <=> i \in Listed /\ ~Passed(i)
  BY PagesAssumption DEF PagesInv, PageTypes, Walks, After, Passed, Listed, Ids, PagesAssumption
<1>5. PagesInv
  OBVIOUS
<1> HIDE DEF rows, page
<1>6. Ids \subseteq Nat
  BY PagesAssumption DEF Ids, PagesAssumption
<1>7. PageTypes'
  <2>1. walk' \in Walks
    <3>1. CASE HasMore(rows)
      BY <1>1, <1>2, <1>3, <1>6, <3>1 DEF PagesInv, PageTypes, Walks
    <3>2. CASE ~HasMore(rows)
      BY <1>3, <3>2, PagesAssumption DEF Walks, Start, PagesAssumption
    <3> QED
      BY <3>1, <3>2
  <2> QED
    BY <1>1, <1>3, <2>1 DEF PagesInv, PageTypes
<1>8. \A i \in Ids : i \in rows => shown[i] = 0
  BY <1>3, <1>4 DEF PagesInv, ShownOnce
<1>9. ASSUME HasMore(rows), NEW i \in Ids
      PROVE  Passed(i)' <=> (i = LastOf(page) \/ Before(i, LastOf(page)))
  <2>1. LastOf(page) \in Ids
    BY <1>1, <1>2, <1>9
  <2>2. walk'.cursor.at = at[LastOf(page)] /\ walk'.cursor.id = LastOf(page)
    BY <1>3, <1>9
  <2>3. /\ at[i] \in Nat /\ at[LastOf(page)] \in Nat /\ i \in Nat /\ LastOf(page) \in Nat
        /\ at' = at
    BY <1>3, <1>6, <2>1 DEF PagesInv, PageTypes
  <2> QED
    BY <2>2, <2>3 DEF Passed, Before
<1>10. ASSUME HasMore(rows), NEW i \in Ids, Passed(i)
       PROVE  Before(i, LastOf(page))
  <2>1. LastOf(page) \in Ids /\ ~Passed(LastOf(page))
    BY <1>1, <1>2, <1>4, <1>10
  <2>2. /\ at[i] \in Nat /\ at[LastOf(page)] \in Nat /\ i \in Nat /\ LastOf(page) \in Nat
        /\ walk.cursor.at \in Nat /\ walk.cursor.id \in Nat
    BY <1>6, <2>1 DEF PagesInv, PageTypes, Walks
  <2> QED
    BY <1>10, <2>1, <2>2 DEF Passed, Before
<1>11. ShownOnce'
  <2> SUFFICES ASSUME NEW i \in Ids
               PROVE  /\ shown'[i] \in {0, 1}
                      /\ shown'[i] = 1 =>
                            at'[i] > 0 /\ walk'.pc # "idle" /\ (walk'.pc = "walking" => Passed(i)')
    BY DEF ShownOnce
  <2>1. CASE i \in page
    <3>1. shown'[i] = 1 /\ at'[i] > 0
      BY <1>1, <1>2, <1>3, <1>8, <2>1 DEF Listed
    <3>2. HasMore(rows) => Passed(i)'
      BY <1>2, <1>9, <2>1
    <3> QED
      BY <1>3, <3>1, <3>2
  <2>2. CASE i \notin page
    <3>1. shown'[i] = shown[i]
      BY <1>3, <2>2 DEF PagesInv, PageTypes
    <3>2. ASSUME shown[i] = 1, HasMore(rows)
          PROVE  Passed(i)'
      BY <1>3, <1>9, <1>10, <3>2 DEF PagesInv, ShownOnce
    <3> QED
      BY <1>3, <3>1, <3>2 DEF PagesInv, ShownOnce
  <2> QED
    BY <2>1, <2>2
<1>12. ShownOrAhead'
  <2> SUFFICES ASSUME NEW i \in expected'
               PROVE  /\ i \in Listed'
                      /\ walk'.pc = "walking" => shown'[i] = 1 \/ ~Passed(i)'
                      /\ walk'.pc = "done" => shown'[i] = 1
                      /\ walk'.pc # "idle"
    BY DEF ShownOrAhead
  <2>1. i \in Ids /\ i \in Listed /\ (i \in rows \/ shown[i] = 1)
    BY <1>1, <1>3, <1>4 DEF PagesInv, ShownOrAhead, Listed
  <2>2. Listed' = Listed
    BY <1>3 DEF Listed
  <2>3. CASE i \in page
    <3>1. shown'[i] = 1
      BY <1>1, <1>2, <1>3, <1>8, <2>3
    <3> QED
      BY <1>3, <2>1, <2>2, <3>1
  <2>4. CASE i \notin page /\ i \in rows
    <3>1. HasMore(rows) /\ Before(LastOf(page), i)
      BY <1>2, <2>4
    <3>2. ~Passed(i)'
      <4>1. LastOf(page) \in Ids
        BY <1>1, <1>2, <3>1
      <4>2. ~Before(i, i)
        BY <2>1, BeforeOrders DEF PagesInv
      <4> QED
        BY <1>9, <2>1, <3>1, <4>1, <4>2, BeforeOrders DEF PagesInv
    <3> QED
      BY <1>3, <2>1, <2>2, <3>1, <3>2
  <2>5. CASE i \notin page /\ i \notin rows
    <3>1. shown'[i] = 1
      BY <1>3, <2>1, <2>5
    <3> QED
      BY <1>3, <2>1, <2>2, <3>1
  <2> QED
    BY <2>3, <2>4, <2>5
<1> QED
  BY <1>7, <1>11, <1>12 DEF PagesInv

LEMMA PagesKeep == PagesInv /\ [PagesNext]_pagesVars => PagesInv'
<1> SUFFICES ASSUME PagesInv, [PagesNext]_pagesVars
             PROVE  PagesInv'
  OBVIOUS
<1>1. ASSUME NEW i \in Ids, Insert(i) \/ Hide(i) \/ Reveal(i) \/ Touch(i)
      PROVE  PagesInv'
  BY <1>1, InsertKeeps, HideKeeps, RevealKeeps, TouchKeeps
<1>2. CASE Elapse
  BY <1>2, ElapseKeeps
<1>3. CASE Fetch
  BY <1>3, FetchKeeps
<1>4. CASE Again
  BY <1>4, AgainKeeps
<1>5. CASE UNCHANGED pagesVars
  BY <1>5 DEF pagesVars, PagesInv, PageTypes, ShownOnce, ShownOrAhead, Listed, Passed
<1> QED
  BY <1>1, <1>2, <1>3, <1>4, <1>5 DEF PagesNext

LEMMA PagesAlways == PagesSpec => []PagesInv
<1> QED
  BY PagesStart, PagesKeep, PTL DEF PagesSpec

\* A walk through a list shows no row twice and leaves none out that was there all along
\* and was not touched, for any number of rows, any page size and any changes on the
\* way (cursor.go, pageSlice).
THEOREM WalkIsComplete == PagesSpec => []PagesComplete
<1>1. PagesInv => PagesComplete
  <2> SUFFICES ASSUME PagesInv
               PROVE  PagesComplete
    OBVIOUS
  <2>1. \A i \in Ids : shown[i] <= 1
    BY DEF PagesInv, ShownOnce
  <2>2. walk.pc = "done" => \A i \in expected : shown[i] = 1
    BY DEF PagesInv, ShownOrAhead
  <2> QED
    BY <2>1, <2>2 DEF PagesComplete
<1> QED
  BY <1>1, PagesAlways, PTL

-----------------------------------------------------------------------------
(* Upstream: what is true of a driver's answer *)

\* CanBeStored, for any model.
StorableFor(m, product) ==
    /\ Opens(m, product.kind) \/ (DriverName(m) = "google_lro" /\ product.kind = "url")
    /\ product.type = CASE m.family \in {"video", "compose"} -> "video" [] m.family = "chat" -> "text" [] OTHER -> "image"

\* What a provider spoke of, and the code that follows from it.
Heard(about, code) ==
    /\ about \in {"moderation", "flagged"} => code = "content_rejected"
    /\ about = "rate" => code = "upstream_rate_limited"

Honest(status, end) ==
    /\ status \in Terminal => status = end
    /\ status \in {"queued", "running"} => end = "none"

Answered(m, a) ==
    /\ Honest(a.status, a.end)
    /\ a.status = "succeeded" => a.products # {} /\ \A product \in a.products : StorableFor(m, product)
    /\ Heard(a.said, a.code)

\* Where the executor asks again there is a job, and the driver is one it can ask.
Asking ==
    /\ served \in ServedModels
    /\ stage \in {"settling", "polling"} => job \in Jobs(Driver)
    /\ stage = "polling" => served.family = "video"
    /\ stage = "settling" => served.family = "predictions"

UpstreamInv == Asking /\ Answered(served, answer)

LEMMA AnsweredIsGood == UpstreamInv => OutcomeIsReal /\ RejectedIsNotRepeated
BY DEF UpstreamInv, Answered, Honest, Heard, StorableFor, OutcomeIsReal, EndAsItWas, CanBeStored, Driver,
       RejectedIsNotRepeated

-----------------------------------------------------------------------------
(* Upstream: the operators *)

\* The family decides (IsAsync, DriverName): all asynchronous drivers are for videos.
LEMMA Routes ==
    ASSUME NEW m \in ServedModels
    PROVE  /\ IsAsync(m) <=> m.family = "video"
           /\ m.family = "video" => DriverName(m) \in VideoProtocols
           /\ m.family # "video" => DriverName(m) = m.family
           /\ m.family \in Families
<1>1. /\ m.family \in Families
      /\ m.family = "video" => m.protocol \in VideoProtocols
  BY UpstreamAssumption DEF UpstreamAssumption
<1>2. CASE m.family = "video"
  <2>1. DriverName(m) = m.protocol
    BY <1>1, <1>2 DEF DriverName, VideoProtocols
  <2>2. [name |-> m.protocol, family |-> "video"] \in AsyncDrivers
    BY <1>1, <1>2 DEF AsyncDrivers, VideoProtocols
  <2>3. IsAsync(m)
    BY <1>2, <2>1, <2>2 DEF IsAsync
  <2> QED
    BY <1>1, <1>2, <2>1, <2>3
<1>3. CASE m.family # "video"
  <2>1. DriverName(m) = m.family
    BY <1>3 DEF DriverName
  <2>2. ASSUME NEW d \in AsyncDrivers, d.name = m.family
        PROVE  /\ d.family # m.family
               /\ \E s \in SyncDrivers : s.name = d.name
    <3>1. d.name \in {"mock", "predictions"} /\ d.family = "video"
      BY <1>1, <1>3, <2>2 DEF AsyncDrivers, Families
    <3>2. [name |-> d.name, family |-> d.name] \in SyncDrivers
      BY <3>1 DEF SyncDrivers
    <3> QED
      BY <1>3, <3>1, <3>2
  <2> QED
    BY <1>1, <1>3, <2>1, <2>2 DEF IsAsync
<1> QED
  BY <1>2, <1>3

\* What is known of a job.
LEMMA JobOfFacts ==
    ASSUME NEW d, NEW raw, NEW j \in JobsOf(d, raw)
    PROVE  /\ j.raw = raw
           /\ j.end = EndOf(d, raw, j.error)
           /\ j.error \in {NoError} \cup Errors(d)
           /\ raw \notin {"failed", "true", "error"} => j.error = NoError
           /\ raw = "error" => j.error \in Errors(d)
           /\ EndOf(d, raw, NoError) = "succeeded" => j.items \in Items(d)
<1>1. PICK e \in CASE raw \in {"failed", "true"} -> {NoError} \cup Errors(d) [] raw = "error" -> Errors(d) [] OTHER -> {NoError},
           items \in IF EndOf(d, raw, NoError) = "succeeded" THEN Items(d) ELSE {{}} :
             j = [raw |-> raw, end |-> EndOf(d, raw, e), error |-> e, items |-> items]
  BY DEF JobsOf
<1>2. CASE raw \in {"failed", "true"}
  <2>1. e \in {NoError} \cup Errors(d)
    BY <1>1, <1>2
  <2> QED
    BY <1>1, <1>2, <2>1
<1>3. CASE raw = "error"
  <2>1. e \in Errors(d)
    BY <1>1, <1>3
  <2> QED
    BY <1>1, <1>3, <2>1
<1>4. CASE raw \notin {"failed", "true", "error"}
  <2>1. e = NoError
    BY <1>1, <1>4
  <2> QED
    BY <1>1, <1>4, <2>1
<1> QED
  BY <1>2, <1>3, <1>4

LEMMA JobFacts ==
    ASSUME NEW d, NEW j \in Jobs(d)
    PROVE  /\ j.raw \in Raws(d)
           /\ j.end = EndOf(d, j.raw, j.error)
           /\ j.error \in {NoError} \cup Errors(d)
           /\ j.raw \notin {"failed", "true", "error"} => j.error = NoError
           /\ j.raw = "error" => j.error \in Errors(d)
           /\ EndOf(d, j.raw, NoError) = "succeeded" => j.items \in Items(d)
<1>1. PICK raw \in Raws(d) : j \in JobsOf(d, raw)
  BY DEF Jobs
<1> QED
  BY <1>1, JobOfFacts

\* An end is reported as it is, and no end is made up (Normalize).
LEMMA WordsAreHonest ==
    ASSUME NEW d, d # "google_lro", NEW raw, NEW e
    PROVE  /\ Honest(Normalize(d, raw), EndOf(d, raw, e))
           /\ Normalize(d, raw) \in Terminal => EndOf(d, raw, e) = Normalize(d, raw)
           /\ EndOf(d, raw, e) = EndOf(d, raw, NoError)
           /\ EndOf(d, raw, e) \in Terminal \cup {"none"}
BY DEF Honest, Normalize, EndOf, Terminal

LEMMA GoogleWords ==
    /\ Raws("google_lro") = {"false", "true"}
    /\ Normalize("google_lro", "false") = "running"
    /\ \A e : EndOf("google_lro", "false", e) = "none"
    /\ \A e : EndOf("google_lro", "true", e) = IF e = NoError THEN "succeeded" ELSE "failed"
<1>1. StatusMap("google_lro") = GoogleStatus
  BY DEF StatusMap
<1>2. DOMAIN GoogleStatus = {"false", "true"} /\ GoogleStatus["false"] = "running" /\ GoogleStatus["true"] = "succeeded"
  BY DEF GoogleStatus
<1>3. Raws("google_lro") = {"false", "true"}
  BY <1>1, <1>2 DEF Raws
<1>4. Normalize("google_lro", "false") = "running"
  BY <1>1, <1>2 DEF Normalize
<1>5. \A e : EndOf("google_lro", "false", e) = "none"
  BY <1>1, <1>2 DEF EndOf, Terminal
<1>6. \A e : EndOf("google_lro", "true", e) = IF e = NoError THEN "succeeded" ELSE "failed"
  BY <1>1, <1>2 DEF EndOf, Terminal
<1> QED
  BY <1>3, <1>4, <1>5, <1>6

\* classify: what the errors of a provider are about.
LEMMA ErrorsHeard ==
    /\ \A e \in Errors("ark") : Heard(Said(e), ArkClassify(e))
    /\ \A e \in Errors("openai_video") : Heard(Said(e), OpenaiVideoClassify(e))
    /\ \A e \in Errors("google_lro") : Heard(Said(e), GoogleClassify(e))
    /\ \A e \in Errors("predictions") : Heard(Said(e), PredictionsClassify(e))
    /\ \A e \in Errors("mock") : Heard(Said(e), CodeFor(e.code))
    /\ \A d \in {"chat", "images"}, e \in Errors("chat") \cup Errors("images") : Heard(Said(e), CompatClassify(e))
    /\ Said(NoError) = "nothing" \/ Said(NoError) = "none"
<1>1. \A e \in Errors("ark") : Heard(Said(e), ArkClassify(e))
  BY DEF Errors, ErrorTexts, Heard, Said, ArkClassify, ByTable, About, CodeFor
<1>2. \A e \in Errors("openai_video") : Heard(Said(e), OpenaiVideoClassify(e))
  BY DEF Errors, ErrorTexts, Heard, Said, OpenaiVideoClassify, ByTable, About, CodeFor
<1>3. \A e \in Errors("google_lro") : Heard(Said(e), GoogleClassify(e))
  BY DEF Errors, ErrorTexts, Heard, Said, GoogleClassify, ByTable, About, CodeFor
<1>4. \A e \in Errors("predictions") : Heard(Said(e), PredictionsClassify(e))
  BY DEF Errors, ErrorTexts, Heard, Said, PredictionsClassify, ByTable, About, CodeFor
<1>5. \A e \in Errors("mock") : Heard(Said(e), CodeFor(e.code))
  BY DEF Errors, ErrorTexts, Heard, Said, ByTable, About, CodeFor
<1>6. \A e \in Errors("chat") \cup Errors("images") : Heard(Said(e), CompatClassify(e))
  BY DEF Errors, ErrorTexts, Heard, Said, CompatClassify, ByTable, About, CodeFor
<1>7. Said(NoError) = "none"
  BY DEF Said, NoError
<1> QED
  BY <1>1, <1>2, <1>3, <1>4, <1>5, <1>6, <1>7

\* reclassify: what the body of an HTTP error says.
Body(text) == IF text = "flagged" THEN "nothing" ELSE text

LEMMA BodiesHeard ==
    ASSUME NEW code, NEW text \in ErrorTexts
    PROVE  /\ Heard(Body(text), ArkReclassify(code, text))
           /\ Heard(Body(text), OpenaiVideoReclassify(code, text))
           /\ Heard(Body(text), GoogleReclassify(code, text))
           /\ Heard(Body(text), CompatReclassify(code, text))
           /\ Heard(Body(text), PredictionsReclassify(code, text))
BY DEF ErrorTexts, Heard, Body, ByBody, CodeFor, About, ArkReclassify, OpenaiVideoReclassify, GoogleReclassify,
       CompatReclassify, PredictionsReclassify

\* Whoever has the product in hand opens an address or the bytes themselves (open).
LEMMA SyncStorable ==
    ASSUME NEW m \in ServedModels, m.family # "video",
           NEW product, product.kind \in {"url", "base64"}
    PROVE  /\ m.family = "compose" /\ product.type = "video" => StorableFor(m, product)
           /\ m.family = "chat" /\ product.type = "text" => StorableFor(m, product)
           /\ m.family \in {"images", "mock", "predictions"} /\ product.type = "image" => StorableFor(m, product)
<1>1. Opens(m, product.kind)
  <2>1. ~IsAsync(m)
    BY Routes
  <2> QED
    BY <2>1 DEF Opens
<1>2. m.family = "compose" /\ product.type = "video" => StorableFor(m, product)
  BY <1>1 DEF StorableFor
<1>3. m.family = "chat" /\ product.type = "text" => StorableFor(m, product)
  BY <1>1 DEF StorableFor
<1>4. m.family \in {"images", "mock", "predictions"} /\ product.type = "image" => StorableFor(m, product)
  BY <1>1 DEF StorableFor
<1> QED
  BY <1>2, <1>3, <1>4

\* artifactRefs and its like: every product can be opened by whoever opens it, and is of
\* the type the model is for.
LEMMA ProductsStorable ==
    ASSUME NEW m \in ServedModels, NEW items
    PROVE  /\ m.family = "video" /\ DriverName(m) = "ark" /\ items \in Items("ark") =>
                 \A product \in ArkProducts(items) : StorableFor(m, product)
           /\ m.family = "video" /\ DriverName(m) = "openai_video" =>
                 \A product \in OpenaiVideoProducts(items) : StorableFor(m, product)
           /\ m.family = "video" /\ DriverName(m) = "google_lro" /\ items \in Items("google_lro") =>
                 \A product \in GoogleProducts(items) : StorableFor(m, product)
           /\ m.family = "video" /\ DriverName(m) = "predictions" /\ items \in Items("predictions") =>
                 \A product \in PredictionsProducts(items, "video") : StorableFor(m, product)
           /\ m.family = "video" /\ DriverName(m) = "mock" =>
                 \A product \in MockVideo(items) : StorableFor(m, product)
           /\ m.family = "predictions" /\ items \in Items("predictions") =>
                 \A product \in PredictionsProducts(items, "image") : StorableFor(m, product)
           /\ m.family = "images" /\ items \in Items("images") =>
                 \A product \in ImagesProducts(items) : StorableFor(m, product)
           /\ m.family = "chat" /\ items \in Items("chat") =>
                 \A product \in ChatProducts(items) : StorableFor(m, product)
           /\ m.family = "mock" /\ items \in Items("mock") =>
                 \A product \in MockImages(items) : StorableFor(m, product)
           /\ m.family = "compose" =>
                 \A product \in ComposeProducts(items) : StorableFor(m, product)
<1>1. m.family = "video" /\ DriverName(m) = "ark" /\ items \in Items("ark") =>
          \A product \in ArkProducts(items) : StorableFor(m, product)
  BY Routes DEF StorableFor, Opens, Made, AllOf, Filled, ArkProducts, ArkFetches, Items
<1>2. m.family = "video" /\ DriverName(m) = "openai_video" =>
          \A product \in OpenaiVideoProducts(items) : StorableFor(m, product)
  BY Routes DEF StorableFor, Opens, Made, AllOf, Filled, OpenaiVideoProducts, OpenaiVideoFetches
<1>3. m.family = "video" /\ DriverName(m) = "google_lro" /\ items \in Items("google_lro") =>
          \A product \in GoogleProducts(items) : StorableFor(m, product)
  BY Routes DEF StorableFor, Opens, Made, AllOf, Filled, GoogleProducts, GoogleFetches, Items
<1>4. m.family = "video" /\ DriverName(m) = "predictions" /\ items \in Items("predictions") =>
          \A product \in PredictionsProducts(items, "video") : StorableFor(m, product)
  BY Routes DEF StorableFor, Opens, Made, AllOf, Filled, PredictionsProducts, PredictionsFetches, Items
<1>5. m.family = "video" /\ DriverName(m) = "mock" =>
          \A product \in MockVideo(items) : StorableFor(m, product)
  BY Routes DEF StorableFor, Opens, Made, AllOf, Filled, MockVideo, MockFetches
<1>6. m.family = "predictions" /\ items \in Items("predictions") =>
          \A product \in PredictionsProducts(items, "image") : StorableFor(m, product)
  BY SyncStorable DEF PredictionsProducts, Made, AllOf, Filled, Items
<1>7. m.family = "images" /\ items \in Items("images") =>
          \A product \in ImagesProducts(items) : StorableFor(m, product)
  BY SyncStorable DEF ImagesProducts, Made, AllOf, Filled, Items
<1>8. m.family = "chat" /\ items \in Items("chat") =>
          \A product \in ChatProducts(items) : StorableFor(m, product)
  BY SyncStorable DEF ChatProducts, Made, AllOf, Filled, Items
<1>9. m.family = "mock" /\ items \in Items("mock") =>
          \A product \in MockImages(items) : StorableFor(m, product)
  BY SyncStorable DEF MockImages, Made, AllOf, Filled, Items
<1>10. m.family = "compose" =>
           \A product \in ComposeProducts(items) : StorableFor(m, product)
  BY SyncStorable DEF ComposeProducts, Made, AllOf, Filled
<1> QED
  BY <1>1, <1>2, <1>3, <1>4, <1>5, <1>6, <1>7, <1>8, <1>9, <1>10

-----------------------------------------------------------------------------
(* Upstream: the steps *)

\* A reply that is as the job is keeps what is true of an answer.
LEMMA ReplyAnswers ==
    ASSUME NEW m, NEW status, NEW code, NEW products, NEW about, NEW j,
           Reply(status, code, products, about, j),
           Honest(status, j.end), Heard(about, code),
           status = "succeeded" => products # {} /\ \A product \in products : StorableFor(m, product)
    PROVE  Answered(m, answer')
BY DEF Reply, Answered

LEMMA FailureAnswers ==
    ASSUME NEW m, NEW code, NEW about, NEW j, Fails(code, about, j), Heard(about, code)
    PROVE  Answered(m, answer')
<1>1. Reply("error", code, {}, about, j)
  BY DEF Fails
<1>2. Honest("error", j.end)
  BY DEF Honest, Terminal
<1> QED
  BY <1>1, <1>2, ReplyAnswers

\* do, StatusError, under each driver's reclassify.
LEMMA ExchangeAnswers ==
    ASSUME NEW m,
           \/ ExchangeFails(ArkReclassify) \/ ExchangeFails(OpenaiVideoReclassify) \/ ExchangeFails(GoogleReclassify)
           \/ ExchangeFails(CompatReclassify) \/ ExchangeFails(PredictionsReclassify)
    PROVE  Answered(m, answer')
<1>1. \/ Fails("internal_error", "nothing", job)
      \/ \E status \in {400, 401, 429, 500}, text \in ErrorTexts :
            \/ Fails(ArkReclassify(HttpCode(status), text), Body(text), job)
            \/ Fails(OpenaiVideoReclassify(HttpCode(status), text), Body(text), job)
            \/ Fails(GoogleReclassify(HttpCode(status), text), Body(text), job)
            \/ Fails(CompatReclassify(HttpCode(status), text), Body(text), job)
            \/ Fails(PredictionsReclassify(HttpCode(status), text), Body(text), job)
  BY DEF ExchangeFails, Body
<1>2. Heard("nothing", "internal_error")
  BY DEF Heard
<1>3. CASE Fails("internal_error", "nothing", job)
  BY <1>2, <1>3, FailureAnswers
<1>4. ASSUME NEW status, NEW text \in ErrorTexts,
             \/ Fails(ArkReclassify(HttpCode(status), text), Body(text), job)
             \/ Fails(OpenaiVideoReclassify(HttpCode(status), text), Body(text), job)
             \/ Fails(GoogleReclassify(HttpCode(status), text), Body(text), job)
             \/ Fails(CompatReclassify(HttpCode(status), text), Body(text), job)
             \/ Fails(PredictionsReclassify(HttpCode(status), text), Body(text), job)
      PROVE  Answered(m, answer')
  BY <1>4, BodiesHeard, FailureAnswers
<1> QED
  BY <1>1, <1>3, <1>4

\* A success needs products.
LEMMA SuccessAnswers ==
    ASSUME NEW m, NEW products, NEW j, NEW otherwise,
           Succeeds(products, j, otherwise), j.end = "succeeded",
           \A product \in products : StorableFor(m, product)
    PROVE  Answered(m, answer') /\ stage' \in {"ended", otherwise}
<1>1. Heard("nothing", "internal_error") /\ Heard("nothing", "none") /\ Honest("succeeded", j.end)
  BY DEF Heard, Honest
<1>2. CASE products = {}
  <2>1. Fails("internal_error", "nothing", j) /\ stage' = otherwise
    BY <1>2 DEF Succeeds
  <2> QED
    BY <1>1, <2>1, FailureAnswers
<1>3. CASE products # {}
  <2>1. Reply("succeeded", "none", products, "nothing", j) /\ stage' = "ended"
    BY <1>3 DEF Succeeds
  <2> QED
    BY <1>1, <1>3, <2>1, ReplyAnswers
<1> QED
  BY <1>2, <1>3

\* The answers of a driver that knows a job's words.
LEMMA JobAnswers ==
    ASSUME NEW d, d # "google_lro", NEW j \in Jobs(d)
    PROVE  /\ Honest(Normalize(d, j.raw), j.end)
           /\ Normalize(d, j.raw) \in Terminal => j.end = Normalize(d, j.raw)
           /\ Normalize(d, j.raw) = "succeeded" => j.items \in Items(d)
<1>1. j.end = EndOf(d, j.raw, j.error)
  BY JobFacts
<1>2. Normalize(d, j.raw) = "succeeded" => EndOf(d, j.raw, NoError) = "succeeded"
  BY WordsAreHonest DEF Terminal
<1> QED
  BY <1>1, <1>2, JobFacts, WordsAreHonest

LEMMA PlainHeard ==
    /\ Heard("nothing", "internal_error") /\ Heard("nothing", "none")
    /\ Honest("submitted", "none") /\ \A end : Honest("submitted", end)
BY DEF Heard, Honest, Terminal

LEMMA EndKeeps ==
    ASSUME UpstreamInv, UNCHANGED served, stage' = "ended", Answered(served, answer')
    PROVE  UpstreamInv'
BY DEF UpstreamInv, Asking

\* What every Submit comes to: an end, or a job to ask about.
LEMMA SubmittedKeeps ==
    ASSUME UpstreamInv, UNCHANGED served, IsAsync(served), job' \in Jobs(Driver),
           Reply("submitted", "none", {}, "nothing", job'), stage' = "polling"
    PROVE  UpstreamInv'
<1>1. Answered(served, answer')
  BY PlainHeard, ReplyAnswers
<1>2. served.family = "video" /\ Driver' = Driver
  BY Routes DEF UpstreamInv, Asking, Driver
<1> QED
  BY <1>1, <1>2 DEF UpstreamInv, Asking

\* Submit of the drivers that share it.
LEMMA SubmitJobKeeps ==
    ASSUME UpstreamInv, ArkSubmit \/ OpenaiVideoSubmit \/ GoogleSubmit
    PROVE  UpstreamInv'
<1>1. CASE ArkSubmit
  <2>1. /\ IsAsync(served) /\ Driver = "ark" /\ UNCHANGED served
        /\ \/ ExchangeFails(ArkReclassify) /\ stage' = "ended"
           \/ \E e \in Errors("ark") : Fails(ArkClassify(e), Said(e), job) /\ stage' = "ended"
           \/ /\ job' \in Jobs("ark")
              /\ \/ Fails("internal_error", "nothing", job') /\ stage' = "ended"
                 \/ /\ Normalize("ark", job'.raw) \in {"failed", "canceled"}
                    /\ Reply(Normalize("ark", job'.raw), "internal_error", {}, "nothing", job') /\ stage' = "ended"
                 \/ Reply("submitted", "none", {}, "nothing", job') /\ stage' = "polling"
    BY <1>1 DEF ArkSubmit, SubmitJob
  <2>2. CASE ExchangeFails(ArkReclassify) /\ stage' = "ended"
    BY <2>1, <2>2, ExchangeAnswers, EndKeeps
  <2>3. CASE \E e \in Errors("ark") : Fails(ArkClassify(e), Said(e), job) /\ stage' = "ended"
    BY <2>1, <2>3, ErrorsHeard, FailureAnswers, EndKeeps
  <2>4. CASE Fails("internal_error", "nothing", job') /\ stage' = "ended"
    BY <2>1, <2>4, PlainHeard, FailureAnswers, EndKeeps
  <2>5. CASE /\ job' \in Jobs("ark")
             /\ Normalize("ark", job'.raw) \in {"failed", "canceled"}
             /\ Reply(Normalize("ark", job'.raw), "internal_error", {}, "nothing", job') /\ stage' = "ended"
    BY <2>1, <2>5, JobAnswers, PlainHeard, ReplyAnswers, EndKeeps
  <2>6. CASE job' \in Jobs("ark") /\ Reply("submitted", "none", {}, "nothing", job') /\ stage' = "polling"
    BY <2>1, <2>6, SubmittedKeeps
  <2> QED
    BY <2>1, <2>2, <2>3, <2>4, <2>5, <2>6
<1>2. CASE OpenaiVideoSubmit
  <2>1. /\ IsAsync(served) /\ Driver = "openai_video" /\ UNCHANGED served
        /\ \/ ExchangeFails(OpenaiVideoReclassify) /\ stage' = "ended"
           \/ \E e \in Errors("openai_video") : Fails(OpenaiVideoClassify(e), Said(e), job) /\ stage' = "ended"
           \/ /\ job' \in Jobs("openai_video")
              /\ \/ Fails("internal_error", "nothing", job') /\ stage' = "ended"
                 \/ /\ Normalize("openai_video", job'.raw) \in {"failed", "canceled"}
                    /\ Reply(Normalize("openai_video", job'.raw), "internal_error", {}, "nothing", job')
                    /\ stage' = "ended"
                 \/ Reply("submitted", "none", {}, "nothing", job') /\ stage' = "polling"
    BY <1>2 DEF OpenaiVideoSubmit, SubmitJob
  <2>2. CASE ExchangeFails(OpenaiVideoReclassify) /\ stage' = "ended"
    BY <2>1, <2>2, ExchangeAnswers, EndKeeps
  <2>3. CASE \E e \in Errors("openai_video") : Fails(OpenaiVideoClassify(e), Said(e), job) /\ stage' = "ended"
    BY <2>1, <2>3, ErrorsHeard, FailureAnswers, EndKeeps
  <2>4. CASE Fails("internal_error", "nothing", job') /\ stage' = "ended"
    BY <2>1, <2>4, PlainHeard, FailureAnswers, EndKeeps
  <2>5. CASE /\ job' \in Jobs("openai_video")
             /\ Normalize("openai_video", job'.raw) \in {"failed", "canceled"}
             /\ Reply(Normalize("openai_video", job'.raw), "internal_error", {}, "nothing", job') /\ stage' = "ended"
    BY <2>1, <2>5, JobAnswers, PlainHeard, ReplyAnswers, EndKeeps
  <2>6. CASE job' \in Jobs("openai_video") /\ Reply("submitted", "none", {}, "nothing", job') /\ stage' = "polling"
    BY <2>1, <2>6, SubmittedKeeps
  <2> QED
    BY <2>1, <2>2, <2>3, <2>4, <2>5, <2>6
<1>3. CASE GoogleSubmit
  <2>1. /\ IsAsync(served) /\ Driver = "google_lro" /\ UNCHANGED served
        /\ \/ ExchangeFails(GoogleReclassify) /\ stage' = "ended"
           \/ \E e \in Errors("google_lro") : Fails(GoogleClassify(e), Said(e), job) /\ stage' = "ended"
           \/ /\ job' \in Jobs("google_lro")
              /\ \/ Fails("internal_error", "nothing", job') /\ stage' = "ended"
                 \/ Reply("submitted", "none", {}, "nothing", job') /\ stage' = "polling"
    BY <1>3 DEF GoogleSubmit, SubmitJob
  <2>2. CASE ExchangeFails(GoogleReclassify) /\ stage' = "ended"
    BY <2>1, <2>2, ExchangeAnswers, EndKeeps
  <2>3. CASE \E e \in Errors("google_lro") : Fails(GoogleClassify(e), Said(e), job) /\ stage' = "ended"
    BY <2>1, <2>3, ErrorsHeard, FailureAnswers, EndKeeps
  <2>4. CASE Fails("internal_error", "nothing", job') /\ stage' = "ended"
    BY <2>1, <2>4, PlainHeard, FailureAnswers, EndKeeps
  <2>5. CASE job' \in Jobs("google_lro") /\ Reply("submitted", "none", {}, "nothing", job') /\ stage' = "polling"
    BY <2>1, <2>5, SubmittedKeeps
  <2> QED
    BY <2>1, <2>2, <2>3, <2>4, <2>5
<1> QED
  BY <1>1, <1>2, <1>3

\* failureFor: the reason of a failed job, or that there is none.
LEMMA FailuresHeard ==
    /\ \A j \in Jobs("ark") : Heard(Said(j.error), ArkFailure(j))
    /\ \A j \in Jobs("openai_video") : Heard(Said(j.error), OpenaiVideoFailure(j))
    /\ \A j \in Jobs("google_lro") : j.error # NoError => Heard(Said(j.error), GoogleFailure(j))
    /\ \A j \in Jobs("predictions") : Heard(Said(j.error), PredictionsFailure(j))
    /\ \A j \in Jobs("mock") : Heard(Said(j.error), MockFailure(j))
<1>1. Heard(Said(NoError), "internal_error")
  BY DEF Said, NoError, Heard
<1>2. \A j \in Jobs("ark") : Heard(Said(j.error), ArkFailure(j))
  <2> SUFFICES ASSUME NEW j \in Jobs("ark")
               PROVE  Heard(Said(j.error), ArkFailure(j))
    OBVIOUS
  <2>1. j.error \in {NoError} \cup Errors("ark") /\ (j.raw = "expired" => j.error = NoError)
    BY JobFacts
  <2>2. CASE j.error = NoError
    BY <1>1, <2>2 DEF ArkFailure
  <2>3. CASE j.error # NoError
    BY <2>1, <2>3, ErrorsHeard DEF ArkFailure
  <2> QED
    BY <2>2, <2>3
<1>3. \A j \in Jobs("openai_video") : Heard(Said(j.error), OpenaiVideoFailure(j))
  BY <1>1, JobFacts, ErrorsHeard DEF OpenaiVideoFailure
<1>4. \A j \in Jobs("google_lro") : j.error # NoError => Heard(Said(j.error), GoogleFailure(j))
  BY JobFacts, ErrorsHeard DEF GoogleFailure
<1>5. \A j \in Jobs("predictions") : Heard(Said(j.error), PredictionsFailure(j))
  BY <1>1, JobFacts, ErrorsHeard DEF PredictionsFailure
<1>6. \A j \in Jobs("mock") : Heard(Said(j.error), MockFailure(j))
  BY <1>1, JobFacts, ErrorsHeard DEF MockFailure
<1> QED
  BY <1>2, <1>3, <1>4, <1>5, <1>6

LEMMA PredictionsSubmitKeeps ==
    ASSUME UpstreamInv, PredictionsSubmit
    PROVE  UpstreamInv'
<1>1. /\ IsAsync(served) /\ Driver = "predictions" /\ UNCHANGED served
      /\ \/ ExchangeFails(PredictionsReclassify) /\ stage' = "ended"
         \/ /\ job' \in Jobs("predictions")
            /\ \/ Fails(PredictionsFailure(job'), Said(job'.error), job') /\ stage' = "ended"
               \/ Fails("internal_error", "nothing", job') /\ stage' = "ended"
               \/ /\ Normalize("predictions", job'.raw) = "canceled"
                  /\ Reply("canceled", "none", {}, "nothing", job') /\ stage' = "ended"
               \/ Reply("submitted", "none", {}, "nothing", job') /\ stage' = "polling"
  BY DEF PredictionsSubmit
<1>2. CASE ExchangeFails(PredictionsReclassify) /\ stage' = "ended"
  BY <1>1, <1>2, ExchangeAnswers, EndKeeps
<1>3. CASE job' \in Jobs("predictions") /\ Fails(PredictionsFailure(job'), Said(job'.error), job') /\ stage' = "ended"
  BY <1>1, <1>3, FailuresHeard, FailureAnswers, EndKeeps
<1>4. CASE Fails("internal_error", "nothing", job') /\ stage' = "ended"
  BY <1>1, <1>4, PlainHeard, FailureAnswers, EndKeeps
<1>5. CASE /\ job' \in Jobs("predictions")
           /\ Normalize("predictions", job'.raw) = "canceled"
           /\ Reply("canceled", "none", {}, "nothing", job') /\ stage' = "ended"
  <2>1. Honest("canceled", job'.end)
    BY <1>5, JobAnswers
  <2> QED
    BY <1>1, <1>5, <2>1, PlainHeard, ReplyAnswers, EndKeeps
<1>6. CASE job' \in Jobs("predictions") /\ Reply("submitted", "none", {}, "nothing", job') /\ stage' = "polling"
  BY <1>1, <1>6, SubmittedKeeps
<1> QED
  BY <1>1, <1>2, <1>3, <1>4, <1>5, <1>6

LEMMA MockSubmitKeeps ==
    ASSUME UpstreamInv, MockSubmit
    PROVE  UpstreamInv'
<1>1. "queued" \in Raws("mock")
  BY DEF Raws, StatusMap, MockStatus
<1>2. JobsOf("mock", "queued") \subseteq Jobs("mock")
  BY <1>1 DEF Jobs
<1> QED
  BY <1>2, SubmittedKeeps DEF MockSubmit

-----------------------------------------------------------------------------
(* Upstream: polls *)

LEMMA PollKeeps ==
    ASSUME UpstreamInv, UNCHANGED <<served, job>>, stage = "polling", stage' \in {"ended", "polling"},
           Answered(served, answer')
    PROVE  UpstreamInv'
BY DEF UpstreamInv, Asking, Driver

LEMMA PollExchangeKeeps ==
    ASSUME UpstreamInv, NEW d,
           \/ PollExchangeFails(d, ArkReclassify) \/ PollExchangeFails(d, OpenaiVideoReclassify)
           \/ PollExchangeFails(d, GoogleReclassify) \/ PollExchangeFails(d, PredictionsReclassify)
    PROVE  UpstreamInv'
<1>1. /\ stage = "polling" /\ UNCHANGED <<served, job, stage>>
      /\ \/ ExchangeFails(ArkReclassify) \/ ExchangeFails(OpenaiVideoReclassify)
         \/ ExchangeFails(GoogleReclassify) \/ ExchangeFails(PredictionsReclassify)
  BY DEF PollExchangeFails
<1> QED
  BY <1>1, ExchangeAnswers, PollKeeps

\* What a poll of a driver that knows the job's words answers.
PollAnswer(d, code, products) ==
    \/ /\ Normalize(d, job.raw) = "succeeded"
       /\ Succeeds(products, job, "polling")
    \/ /\ Normalize(d, job.raw) = "failed"
       /\ Reply("failed", code, {}, Said(job.error), job) /\ stage' = "ended"
    \/ /\ Normalize(d, job.raw) \notin {"succeeded", "failed"}
       /\ Reply(Normalize(d, job.raw), "none", {}, "nothing", job)
       /\ stage' \in {"ended", "polling"}

LEMMA PollAnswerKeeps ==
    ASSUME UpstreamInv, NEW d, d # "google_lro", Driver = d, stage = "polling", UNCHANGED <<served, job>>,
           NEW code, NEW products, PollAnswer(d, code, products), Heard(Said(job.error), code),
           job.items \in Items(d) => \A product \in products : StorableFor(served, product)
    PROVE  UpstreamInv'
<1>1. job \in Jobs(d)
  BY DEF UpstreamInv, Asking
<1>2. CASE /\ Normalize(d, job.raw) = "succeeded"
           /\ Succeeds(products, job, "polling")
  <2>1. job.end = "succeeded" /\ job.items \in Items(d)
    BY <1>1, <1>2, JobAnswers DEF Terminal
  <2> QED
    BY <1>2, <2>1, SuccessAnswers, PollKeeps
<1>3. CASE /\ Normalize(d, job.raw) = "failed"
           /\ Reply("failed", code, {}, Said(job.error), job) /\ stage' = "ended"
  <2>1. Honest("failed", job.end)
    BY <1>1, <1>3, JobAnswers
  <2> QED
    BY <1>3, <2>1, ReplyAnswers, PollKeeps
<1>4. CASE /\ Normalize(d, job.raw) \notin {"succeeded", "failed"}
           /\ Reply(Normalize(d, job.raw), "none", {}, "nothing", job)
           /\ stage' \in {"ended", "polling"}
  <2>1. Honest(Normalize(d, job.raw), job.end)
    BY <1>1, JobAnswers
  <2> QED
    BY <1>4, <2>1, PlainHeard, ReplyAnswers, PollKeeps
<1> QED
  BY <1>2, <1>3, <1>4 DEF PollAnswer

LEMMA ArkPollKeeps ==
    ASSUME UpstreamInv, ArkPoll
    PROVE  UpstreamInv'
<1>1. CASE PollExchangeFails("ark", ArkReclassify)
  BY <1>1, PollExchangeKeeps
<1>2. CASE PollJob("ark", ArkFailure, ArkProducts)
  <2>1. /\ PollAnswer("ark", ArkFailure(job), ArkProducts(job.items))
        /\ stage = "polling" /\ Driver = "ark" /\ UNCHANGED <<served, job>>
    BY <1>2 DEF PollJob, PollAnswer
  <2>2. /\ Heard(Said(job.error), ArkFailure(job))
        /\ job.items \in Items("ark") => \A product \in ArkProducts(job.items) : StorableFor(served, product)
    BY <2>1, FailuresHeard, ProductsStorable DEF UpstreamInv, Asking, Driver
  <2> QED
    BY <2>1, <2>2, PollAnswerKeeps
<1> QED
  BY <1>1, <1>2 DEF ArkPoll

LEMMA OpenaiVideoPollKeeps ==
    ASSUME UpstreamInv, OpenaiVideoPoll
    PROVE  UpstreamInv'
<1>1. CASE PollExchangeFails("openai_video", OpenaiVideoReclassify)
  BY <1>1, PollExchangeKeeps
<1>2. CASE PollJob("openai_video", OpenaiVideoFailure, OpenaiVideoProducts)
  <2>1. /\ PollAnswer("openai_video", OpenaiVideoFailure(job), OpenaiVideoProducts(job.items))
        /\ stage = "polling" /\ Driver = "openai_video" /\ UNCHANGED <<served, job>>
    BY <1>2 DEF PollJob, PollAnswer
  <2>2. /\ Heard(Said(job.error), OpenaiVideoFailure(job))
        /\ \A product \in OpenaiVideoProducts(job.items) : StorableFor(served, product)
    BY <2>1, FailuresHeard, ProductsStorable DEF UpstreamInv, Asking, Driver
  <2> QED
    BY <2>1, <2>2, PollAnswerKeeps
<1> QED
  BY <1>1, <1>2 DEF OpenaiVideoPoll

LEMMA PredictionsPollKeeps ==
    ASSUME UpstreamInv, PredictionsPoll
    PROVE  UpstreamInv'
<1>1. CASE PollExchangeFails("predictions", PredictionsReclassify)
  BY <1>1, PollExchangeKeeps
<1>2. CASE PollJob("predictions", PredictionsFailure, LAMBDA items : PredictionsProducts(items, "video"))
  <2>1. /\ PollAnswer("predictions", PredictionsFailure(job), PredictionsProducts(job.items, "video"))
        /\ stage = "polling" /\ Driver = "predictions" /\ UNCHANGED <<served, job>>
    BY <1>2 DEF PollJob, PollAnswer
  <2>2. /\ Heard(Said(job.error), PredictionsFailure(job))
        /\ job.items \in Items("predictions") =>
              \A product \in PredictionsProducts(job.items, "video") : StorableFor(served, product)
    BY <2>1, FailuresHeard, ProductsStorable DEF UpstreamInv, Asking, Driver
  <2> QED
    BY <2>1, <2>2, PollAnswerKeeps
<1> QED
  BY <1>1, <1>2 DEF PredictionsPoll

LEMMA MockPollKeeps ==
    ASSUME UpstreamInv, MockPoll
    PROVE  UpstreamInv'
<1>1. /\ PollAnswer("mock", MockFailure(job), MockVideo(job.items))
      /\ stage = "polling" /\ Driver = "mock" /\ UNCHANGED <<served, job>>
  BY DEF MockPoll, PollJob, PollAnswer
<1>2. /\ Heard(Said(job.error), MockFailure(job))
      /\ \A product \in MockVideo(job.items) : StorableFor(served, product)
  BY <1>1, FailuresHeard, ProductsStorable DEF UpstreamInv, Asking, Driver
<1> QED
  BY <1>1, <1>2, PollAnswerKeeps

LEMMA GooglePollKeeps ==
    ASSUME UpstreamInv, GooglePoll
    PROVE  UpstreamInv'
<1>1. CASE PollExchangeFails("google_lro", GoogleReclassify)
  BY <1>1, PollExchangeKeeps
<1>2. CASE ~PollExchangeFails("google_lro", GoogleReclassify)
  <2>1. /\ stage = "polling" /\ Driver = "google_lro" /\ UNCHANGED <<served, job>>
        /\ \/ /\ job.raw # "true"
              /\ Reply(Normalize("google_lro", job.raw), "none", {}, "nothing", job) /\ stage' = "polling"
           \/ /\ job.raw = "true" /\ job.error # NoError
              /\ Reply("failed", GoogleFailure(job), {}, Said(job.error), job) /\ stage' = "ended"
           \/ /\ job.raw = "true" /\ job.error = NoError
              /\ Succeeds(GoogleProducts(job.items), job, "polling")
    BY <1>2 DEF GooglePoll
  <2>2. job \in Jobs("google_lro") /\ served \in ServedModels /\ served.family = "video"
    BY <2>1 DEF UpstreamInv, Asking
  <2>3. job.raw \in {"false", "true"} /\ job.end = EndOf("google_lro", job.raw, job.error)
    BY <2>2, JobFacts, GoogleWords
  <2>4. CASE /\ job.raw # "true"
             /\ Reply(Normalize("google_lro", job.raw), "none", {}, "nothing", job) /\ stage' = "polling"
    <3>1. Honest(Normalize("google_lro", job.raw), job.end) /\ Normalize("google_lro", job.raw) # "succeeded"
      BY <2>3, <2>4, GoogleWords DEF Honest, Terminal
    <3> QED
      BY <2>1, <2>4, <3>1, PlainHeard, ReplyAnswers, PollKeeps
  <2>5. CASE /\ job.raw = "true" /\ job.error # NoError
             /\ Reply("failed", GoogleFailure(job), {}, Said(job.error), job) /\ stage' = "ended"
    <3>1. Honest("failed", job.end)
      BY <2>3, <2>5, GoogleWords DEF Honest
    <3>2. Heard(Said(job.error), GoogleFailure(job))
      BY <2>2, <2>5, FailuresHeard
    <3> QED
      BY <2>1, <2>5, <3>1, <3>2, ReplyAnswers, PollKeeps
  <2>6. CASE /\ job.raw = "true" /\ job.error = NoError
             /\ Succeeds(GoogleProducts(job.items), job, "polling")
    <3>1. job.end = "succeeded" /\ job.items \in Items("google_lro")
      BY <2>2, <2>3, <2>6, GoogleWords, JobFacts
    <3>2. \A product \in GoogleProducts(job.items) : StorableFor(served, product)
      BY <2>1, <2>2, <3>1, ProductsStorable DEF Driver
    <3> QED
      BY <2>1, <2>6, <3>1, <3>2, SuccessAnswers, PollKeeps
  <2> QED
    BY <2>1, <2>4, <2>5, <2>6
<1> QED
  BY <1>1, <1>2

-----------------------------------------------------------------------------
(* Upstream: drivers that answer at once *)

LEMMA CompatInvokeKeeps ==
    ASSUME UpstreamInv, CompatInvoke
    PROVE  UpstreamInv'
<1> DEFINE products == IF Driver = "chat" THEN ChatProducts(job'.items) ELSE ImagesProducts(job'.items)
<1>1. /\ Driver \in {"chat", "images"} /\ UNCHANGED served
      /\ \/ ExchangeFails(CompatReclassify) /\ stage' = "ended"
         \/ /\ job' \in Jobs(Driver) /\ job'.raw = "error"
            /\ Fails(CompatClassify(job'.error), Said(job'.error), job') /\ stage' = "ended"
         \/ /\ job' \in Jobs(Driver) /\ job'.raw # "error"
            /\ Succeeds(products, job', "ended")
  BY DEF CompatInvoke
<1>2. served \in ServedModels /\ served.family = Driver
  <2>1. served \in ServedModels
    BY DEF UpstreamInv, Asking
  <2> QED
    BY <1>1, <2>1, Routes DEF Driver, VideoProtocols
<1>3. CASE ExchangeFails(CompatReclassify) /\ stage' = "ended"
  BY <1>1, <1>3, ExchangeAnswers, EndKeeps
<1>4. CASE /\ job' \in Jobs(Driver) /\ job'.raw = "error"
           /\ Fails(CompatClassify(job'.error), Said(job'.error), job') /\ stage' = "ended"
  <2>1. job'.error \in Errors("chat") \cup Errors("images")
    BY <1>1, <1>4, JobFacts
  <2> QED
    BY <1>1, <1>4, <2>1, ErrorsHeard, FailureAnswers, EndKeeps
<1>5. CASE /\ job' \in Jobs(Driver) /\ job'.raw # "error"
           /\ Succeeds(products, job', "ended")
  <2>1. StatusMap(Driver) = CompatStatus /\ Raws(Driver) = {"ok", "error"}
    BY <1>1 DEF StatusMap, Raws, CompatStatus
  <2>2. job'.raw = "ok" /\ Normalize(Driver, "ok") = "succeeded"
    BY <1>5, <2>1, JobFacts DEF Normalize, CompatStatus
  <2>3. job'.end = "succeeded" /\ job'.items \in Items(Driver)
    BY <1>1, <1>5, <2>2, JobAnswers DEF Terminal
  <2>4. \A product \in products : StorableFor(served, product)
    BY <1>1, <1>2, <2>3, ProductsStorable
  <2> QED
    BY <1>1, <1>5, <2>3, <2>4, SuccessAnswers, EndKeeps
<1> QED
  BY <1>1, <1>3, <1>4, <1>5

\* What syncDriver.Invoke of predictions does with a reading.
LEMMA ReadingKeeps ==
    ASSUME UpstreamInv, UNCHANGED served, served.family = "predictions", NEW j \in Jobs("predictions"),
           PredictionsReading(j), stage' = "settling" => job' = j
    PROVE  UpstreamInv'
<1>1. served \in ServedModels /\ Driver = "predictions"
  BY Routes DEF UpstreamInv, Asking, Driver
<1>2. \/ /\ Normalize("predictions", j.raw) = "succeeded"
         /\ Succeeds(PredictionsProducts(j.items, "image"), j, "ended")
      \/ Fails(PredictionsFailure(j), Said(j.error), j) /\ stage' = "ended"
      \/ Fails("internal_error", "nothing", j) /\ stage' = "ended"
      \/ stage' = "settling" /\ UNCHANGED answer
  BY DEF PredictionsReading
<1>3. CASE /\ Normalize("predictions", j.raw) = "succeeded"
           /\ Succeeds(PredictionsProducts(j.items, "image"), j, "ended")
  <2>1. j.end = "succeeded" /\ j.items \in Items("predictions")
    BY <1>3, JobAnswers DEF Terminal
  <2>2. \A product \in PredictionsProducts(j.items, "image") : StorableFor(served, product)
    BY <1>1, <2>1, ProductsStorable
  <2> QED
    BY <1>3, <2>1, <2>2, SuccessAnswers, EndKeeps
<1>4. CASE Fails(PredictionsFailure(j), Said(j.error), j) /\ stage' = "ended"
  BY <1>4, FailuresHeard, FailureAnswers, EndKeeps
<1>5. CASE Fails("internal_error", "nothing", j) /\ stage' = "ended"
  BY <1>5, PlainHeard, FailureAnswers, EndKeeps
<1>6. CASE stage' = "settling" /\ UNCHANGED answer
  BY <1>1, <1>6 DEF UpstreamInv, Asking, Driver
<1> QED
  BY <1>2, <1>3, <1>4, <1>5, <1>6

LEMMA PredictionsInvokeKeeps ==
    ASSUME UpstreamInv, PredictionsInvoke
    PROVE  UpstreamInv'
<1>1. /\ ~IsAsync(served) /\ Driver = "predictions" /\ UNCHANGED served
      /\ \/ ExchangeFails(PredictionsReclassify) /\ stage' = "ended"
         \/ job' \in Jobs("predictions") /\ PredictionsReading(job')
  BY DEF PredictionsInvoke
<1>2. served.family = "predictions"
  <2>1. served \in ServedModels
    BY DEF UpstreamInv, Asking
  <2> QED
    BY <1>1, <2>1, Routes DEF Driver
<1>3. CASE ExchangeFails(PredictionsReclassify) /\ stage' = "ended"
  BY <1>1, <1>3, ExchangeAnswers, EndKeeps
<1>4. CASE job' \in Jobs("predictions") /\ PredictionsReading(job')
  BY <1>1, <1>2, <1>4, ReadingKeeps
<1> QED
  BY <1>1, <1>3, <1>4

LEMMA PredictionsSettleKeeps ==
    ASSUME UpstreamInv, PredictionsSettle
    PROVE  UpstreamInv'
<1>1. /\ UNCHANGED <<served, job>>
      /\ \/ ExchangeFails(PredictionsReclassify) /\ stage' = "ended"
         \/ PredictionsReading(job)
  BY DEF PredictionsSettle
<1>2. served.family = "predictions" /\ job \in Jobs("predictions")
  <2>1. served \in ServedModels /\ served.family = "predictions" /\ job \in Jobs(Driver)
    BY DEF UpstreamInv, Asking, PredictionsSettle
  <2>2. Driver = "predictions"
    BY <2>1, Routes DEF Driver
  <2> QED
    BY <2>1, <2>2
<1>3. CASE ExchangeFails(PredictionsReclassify) /\ stage' = "ended"
  BY <1>1, <1>3, ExchangeAnswers, EndKeeps
<1>4. CASE PredictionsReading(job)
  BY <1>1, <1>2, <1>4, ReadingKeeps
<1> QED
  BY <1>1, <1>3, <1>4

LEMMA MockInvokeKeeps ==
    ASSUME UpstreamInv, MockInvoke
    PROVE  UpstreamInv'
<1>1. /\ ~IsAsync(served) /\ Driver = "mock" /\ UNCHANGED served
      /\ job' \in JobsOf("mock", "succeeded") \cup JobsOf("mock", "failed")
      /\ \/ Fails(MockFailure(job'), Said(job'.error), job') /\ stage' = "ended"
         \/ job'.raw # "failed" /\ Succeeds(MockImages(job'.items), job', "ended")
  BY DEF MockInvoke
<1>2. served \in ServedModels /\ served.family = "mock"
  <2>1. served \in ServedModels
    BY DEF UpstreamInv, Asking
  <2> QED
    BY <1>1, <2>1, Routes DEF Driver
<1>3. StatusMap("mock") = MockStatus
  BY DEF StatusMap
<1>4. job' \in Jobs("mock")
  <2>1. "succeeded" \in Raws("mock") /\ "failed" \in Raws("mock")
    BY <1>3 DEF Raws, MockStatus
  <2> QED
    BY <1>1, <2>1 DEF Jobs
<1>5. CASE Fails(MockFailure(job'), Said(job'.error), job') /\ stage' = "ended"
  BY <1>1, <1>4, <1>5, FailuresHeard, FailureAnswers, EndKeeps
<1>6. CASE job'.raw # "failed" /\ Succeeds(MockImages(job'.items), job', "ended")
  <2>1. job'.raw = "succeeded"
    BY <1>1, <1>6, JobOfFacts
  <2>2. Normalize("mock", "succeeded") = "succeeded"
    BY <1>3 DEF Normalize, MockStatus
  <2>3. job'.end = "succeeded" /\ job'.items \in Items("mock")
    BY <1>4, <2>1, <2>2, JobAnswers DEF Terminal
  <2>4. \A product \in MockImages(job'.items) : StorableFor(served, product)
    BY <1>2, <2>3, ProductsStorable
  <2> QED
    BY <1>1, <1>6, <2>3, <2>4, SuccessAnswers, EndKeeps
<1> QED
  BY <1>1, <1>5, <1>6

LEMMA ComposeInvokeKeeps ==
    ASSUME UpstreamInv, ComposeInvoke
    PROVE  UpstreamInv'
<1>1. /\ Driver = "compose" /\ UNCHANGED served
      /\ \/ Fails("internal_error", "nothing", job) /\ stage' = "ended"
         \/ job' \in JobsOf("compose", "ok") /\ Succeeds(ComposeProducts(job'.items), job', "ended")
  BY DEF ComposeInvoke
<1>2. served \in ServedModels /\ served.family = "compose"
  <2>1. served \in ServedModels
    BY DEF UpstreamInv, Asking
  <2> QED
    BY <1>1, <2>1, Routes DEF Driver, VideoProtocols
<1>3. CASE Fails("internal_error", "nothing", job) /\ stage' = "ended"
  BY <1>1, <1>3, PlainHeard, FailureAnswers, EndKeeps
<1>4. CASE job' \in JobsOf("compose", "ok") /\ Succeeds(ComposeProducts(job'.items), job', "ended")
  <2>1. StatusMap("compose") = CompatStatus
    BY DEF StatusMap
  <2>2. EndOf("compose", "ok", job'.error) = "succeeded"
    BY <2>1 DEF EndOf, CompatStatus, Terminal
  <2>3. job'.end = "succeeded"
    BY <1>4, <2>2, JobOfFacts
  <2> QED
    BY <1>1, <1>2, <1>4, <2>3, ProductsStorable, SuccessAnswers, EndKeeps
<1> QED
  BY <1>1, <1>3, <1>4

-----------------------------------------------------------------------------
(* Upstream: the theorems *)

LEMMA UpstreamStarts == UpstreamInit => UpstreamInv
BY DEF UpstreamInit, UpstreamInv, Asking, Answered, Honest, Heard, Terminal

LEMMA JobMovesKeeps ==
    ASSUME UpstreamInv, JobMoves
    PROVE  UpstreamInv'
BY DEF UpstreamInv, Asking, JobMoves, Driver

LEMMA UpstreamKeeps == UpstreamInv /\ [UpstreamNext]_upstreamVars => UpstreamInv'
<1> SUFFICES ASSUME UpstreamInv, [UpstreamNext]_upstreamVars
             PROVE  UpstreamInv'
  OBVIOUS
<1>1. CASE ArkSubmit \/ OpenaiVideoSubmit \/ GoogleSubmit
  BY <1>1, SubmitJobKeeps
<1>2. CASE PredictionsSubmit \/ MockSubmit
  BY <1>2, PredictionsSubmitKeeps, MockSubmitKeeps
<1>3. CASE ArkPoll \/ OpenaiVideoPoll \/ GooglePoll \/ PredictionsPoll \/ MockPoll
  BY <1>3, ArkPollKeeps, OpenaiVideoPollKeeps, GooglePollKeeps, PredictionsPollKeeps, MockPollKeeps
<1>4. CASE CompatInvoke \/ PredictionsInvoke \/ PredictionsSettle \/ MockInvoke \/ ComposeInvoke
  BY <1>4, CompatInvokeKeeps, PredictionsInvokeKeeps, PredictionsSettleKeeps, MockInvokeKeeps, ComposeInvokeKeeps
<1>5. CASE JobMoves
  BY <1>5, JobMovesKeeps
<1>6. CASE UNCHANGED upstreamVars
  BY <1>6 DEF upstreamVars, UpstreamInv, Asking, Driver
<1> QED
  BY <1>1, <1>2, <1>3, <1>4, <1>5, <1>6 DEF UpstreamNext

LEMMA UpstreamAlways == UpstreamSpec => []UpstreamInv
BY UpstreamStarts, UpstreamKeeps, PTL DEF UpstreamSpec

\* Whatever a provider answers and in whatever words, a driver reports the end of a job when it has
\* come and as it was, and a success has products that can be opened and are of the model's type,
\* for any set of the models that can be stored (IsAsync, Normalize, artifactRefs, FetchArtifact, open).
THEOREM OutcomesAreReal == UpstreamSpec => []OutcomeIsReal
BY UpstreamAlways, AnsweredIsGood, PTL

\* A refusal of the content is known as one and not sent again, and a limit of the rate is
\* known as one, on every path of every driver (classify, reclassify, failureFor).
THEOREM RejectionsAreKnown == UpstreamSpec => []RejectedIsNotRepeated
BY UpstreamAlways, AnsweredIsGood, PTL

-----------------------------------------------------------------------------
(* Offer: conditions, as the server and the browser read them *)

Words == {"yes", "no", "error"}
SeqOf(V, n) == {s \in Seq(V) : Len(s) = n}

LEMMA ListIsSequence ==
    ASSUME NEW s, IsList(s)
    PROVE  Len(s) \in Nat /\ DOMAIN s = 1 .. Len(s) /\ (s # <<>> => Len(s) # 0)
<1>1. PICK V : s \in Seq(V)
  BY DEF IsList
<1> QED
  BY <1>1

\* What a condition is made of has been looked at before it.
LEMMA ConditionPlaces ==
    ASSUME NEW c, IsCondition(c)
    PROVE  /\ Len(c) \in Nat \ {0} /\ DOMAIN c = 1 .. Len(c)
           /\ \A n \in DOMAIN c : c[n].op \in {"and", "or", "not"} =>
                 /\ Len(c[n].of) \in Nat /\ DOMAIN c[n].of = 1 .. Len(c[n].of)
                 /\ \A i \in DOMAIN c[n].of : c[n].of[i] \in 1 .. n - 1
<1>1. Len(c) \in Nat \ {0} /\ DOMAIN c = 1 .. Len(c)
  BY ListIsSequence DEF IsCondition
<1>2. ASSUME NEW n \in DOMAIN c, c[n].op \in {"and", "or", "not"}
      PROVE  /\ Len(c[n].of) \in Nat /\ DOMAIN c[n].of = 1 .. Len(c[n].of)
             /\ \A i \in DOMAIN c[n].of : c[n].of[i] \in 1 .. n - 1
  <2>1. IsList(c[n].of) /\ \A i \in DOMAIN c[n].of : c[n].of[i] \in 1 .. n - 1
    BY <1>2 DEF IsCondition
  <2> QED
    BY <2>1, ListIsSequence
<1> QED
  BY <1>1, <1>2

LEMMA DecidedOne ==
    ASSUME NEW c, Len(c.of) \in Nat, DOMAIN c.of = 1 .. Len(c.of), NEW inner, NEW go,
           \E i \in DOMAIN c.of : inner[c.of[i]] # go
    PROVE  \E i \in DOMAIN c.of : Decided(c, inner, go) = inner[c.of[i]] /\ inner[c.of[i]] # go
<1> DEFINE stops == {i \in DOMAIN c.of : inner[c.of[i]] # go}
<1>1. stops \in SUBSET Nat /\ stops # {}
  OBVIOUS
<1>2. \E i \in stops : \A j \in stops : i <= j
  <2> HIDE DEF stops
  <2> QED
    BY <1>1, LeastNumber
<1> DEFINE first == CHOOSE i \in stops : \A j \in stops : i <= j
<1>3. first \in stops
  BY <1>2
<1>4. Decided(c, inner, go) = inner[c.of[first]]
  BY <1>1, Zenon DEF Decided
<1> QED
  BY <1>3, <1>4

LEMMA DecidedNone ==
    ASSUME NEW c, NEW inner, NEW go, \A i \in DOMAIN c.of : inner[c.of[i]] = go
    PROVE  Decided(c, inner, go) = go
BY DEF Decided

LEMMA VerdictIsWord ==
    ASSUME NEW c, IsCondition(c), NEW n \in DOMAIN c, NEW inner \in SeqOf(Words, n - 1), NEW params, NEW files
    PROVE  Verdict(c[n], inner, params, files) \in Words
<1> DEFINE d == c[n]
<1>0. \A b : Yes(b) \in Words
  BY DEF Yes, Words
<1>1. \A m \in 1 .. n - 1 : inner[m] \in Words
  BY DEF SeqOf
<1>2. d.op \in {"and", "or", "not"} => /\ Len(d.of) \in Nat /\ DOMAIN d.of = 1 .. Len(d.of)
                                       /\ \A i \in DOMAIN d.of : inner[d.of[i]] \in Words
  BY <1>1, ConditionPlaces
<1>3. ASSUME NEW go \in Words, d.op \in {"and", "or"}
      PROVE  Decided(d, inner, go) \in Words
  <2>1. CASE \E i \in DOMAIN d.of : inner[d.of[i]] # go
    <3> HIDE DEF d
    <3> QED
      BY <1>2, <1>3, <2>1, DecidedOne
  <2>2. CASE \A i \in DOMAIN d.of : inner[d.of[i]] = go
    <3> HIDE DEF d
    <3> QED
      BY <1>3, <2>2, DecidedNone
  <2> QED
    BY <2>1, <2>2
<1>4. "yes" \in Words /\ "no" \in Words /\ "error" \in Words
  BY DEF Words
<1>5. Verdict(d, inner, params, files) \in Words
  <2> HIDE DEF d
  <2>1. CASE d.op = "and"
    BY <1>3, <1>4, <2>1 DEF Verdict
  <2>2. CASE d.op = "or"
    BY <1>3, <1>4, <2>2 DEF Verdict
  <2>3. CASE d.op = "not"
    BY <1>4, <2>3 DEF Verdict
  <2>4. CASE d.op \in {"gt", "lt"}
    BY <1>0, <1>4, <2>4 DEF Verdict
  <2>5. CASE d.op \notin {"and", "or", "not", "gt", "lt"}
    BY <1>0, <1>4, <2>5 DEF Verdict
  <2> QED
    BY <2>1, <2>2, <2>3, <2>4, <2>5
<1> QED
  BY <1>5

LEMMA VerdictsUnrolled ==
    ASSUME NEW c, IsCondition(c), NEW params, NEW files
    PROVE  LET v == Verdicts(c, params, files)
           IN  /\ \A n \in 0 .. Len(c) : v[n] \in SeqOf(Words, n)
               /\ \A n \in 1 .. Len(c) : v[n] = Append(v[n - 1], Verdict(c[n], v[n - 1], params, files))
<1> DEFINE K == Len(c)
           X == [n \in 0 .. K |-> SeqOf(Words, n)]
           G(x, n) == Append(x, Verdict(c[n], x, params, files))
           Step(g, n) == IF n = 0 THEN <<>> ELSE G(g[n - 1], n)
           F == [n \in 1 .. K |-> [x \in X[n - 1] |-> G(x, n)]]
           v == CHOOSE g : g = [n \in 0 .. K |-> Step(g, n)]
<1>1. K \in Nat /\ DOMAIN c = 1 .. K
  BY ConditionPlaces
<1>2. ASSUME NEW n \in 1 .. K PROVE F[n] \in [X[n - 1] -> X[n]]
  <2>1. n - 1 \in 0 .. K /\ n \in 0 .. K /\ n \in DOMAIN c
    BY <1>1
  <2>2. X[n - 1] = SeqOf(Words, n - 1) /\ X[n] = SeqOf(Words, n)
    BY <2>1
  <2>3. ASSUME NEW x \in SeqOf(Words, n - 1) PROVE G(x, n) \in SeqOf(Words, n)
    <3>1. Verdict(c[n], x, params, files) \in Words
      BY <2>1, VerdictIsWord
    <3>2. x \in Seq(Words) /\ Len(x) = n - 1
      BY DEF SeqOf
    <3> QED
      BY <3>1, <3>2 DEF SeqOf
  <2> HIDE DEF X, G
  <2> QED
    BY <2>2, <2>3
<1>3. <<>> \in X[0]
  BY <1>1 DEF SeqOf
<1>4. PICK g : Leads(X, <<>>, K, F, g)
  <2> HIDE DEF F, X, K
  <2> QED
    BY <1>1, <1>2, <1>3, Recursion
<1>5. /\ g = [n \in 0 .. K |-> g[n]] /\ g[0] = <<>>
      /\ \A n \in 0 .. K : g[n] \in X[n]
      /\ \A n \in 1 .. K : g[n] = F[n][g[n - 1]]
  <2> HIDE DEF F, X, K
  <2> QED
    BY <1>4 DEF Leads
<1>6. ASSUME NEW n \in 1 .. K PROVE g[n] = G(g[n - 1], n)
  <2>1. n - 1 \in 0 .. K
    BY <1>1
  <2> HIDE DEF X, G
  <2> QED
    BY <1>5, <2>1
<1>7. g = [n \in 0 .. K |-> Step(g, n)]
  <2>1. \A n \in 0 .. K : n = 0 \/ n \in 1 .. K
    BY <1>1
  <2>2. \A n \in 0 .. K : g[n] = Step(g, n)
    <3> HIDE DEF G, X, F, K
    <3> QED
      BY <1>5, <1>6, <2>1
  <2> HIDE DEF Step
  <2> QED
    BY <1>5, <2>2
<1>8. Verdicts(c, params, files) = v
  BY DEF Verdicts
<1>9. v = [n \in 0 .. K |-> Step(v, n)]
  <2> HIDE DEF Step
  <2> QED
    BY <1>7
<1> HIDE DEF v
<1>10. \A n \in 0 .. K : v[n] = Step(v, n)
  <2> HIDE DEF Step
  <2> QED
    BY <1>9
<1>11. v[0] = <<>> /\ \A n \in 1 .. K : v[n] = G(v[n - 1], n)
  <2>1. 0 \in 0 .. K /\ \A n \in 1 .. K : n \in 0 .. K /\ n # 0
    BY <1>1
  <2> HIDE DEF G
  <2> QED
    BY <1>10, <2>1
<1>12. \A n \in 0 .. K : v[n] \in X[n]
  <2> DEFINE S == {n \in Nat : v[n] \in X[n]}
  <2>1. 0 \in S
    BY <1>3, <1>11
  <2>2. ASSUME NEW n \in 1 .. K, n - 1 \in S PROVE n \in S
    <3> HIDE DEF X, G
    <3>1. F[n] \in [X[n - 1] -> X[n]] /\ F[n][v[n - 1]] = G(v[n - 1], n)
      BY <1>2, <2>2
    <3> QED
      BY <1>11, <2>2, <3>1
  <2>3. 0 .. K \subseteq S
    <3> HIDE DEF S
    <3> QED
      BY <1>1, <2>1, <2>2, Induction
  <2> QED
    BY <2>3
<1> QED
  BY <1>1, <1>8, <1>11, <1>12

LEMMA TruthIsBoolean ==
    ASSUME NEW c, NEW inner, NEW values, NEW files
    PROVE  Truth(c, inner, values, files) \in BOOLEAN
<1>1. CASE c.op = "eq"
  BY <1>1 DEF Truth
<1>2. CASE c.op = "ne"
  BY <1>2 DEF Truth
<1>3. CASE c.op = "gt"
  BY <1>3 DEF Truth
<1>4. CASE c.op = "lt"
  BY <1>4 DEF Truth
<1>5. CASE c.op = "in"
  BY <1>5 DEF Truth
<1>6. CASE c.op = "nin"
  BY <1>6 DEF Truth
<1>7. CASE c.op = "has_input"
  BY <1>7 DEF Truth
<1>8. CASE c.op = "and"
  BY <1>8 DEF Truth
<1>9. CASE c.op = "or"
  BY <1>9 DEF Truth
<1>10. CASE c.op \notin {"eq", "ne", "gt", "lt", "in", "nin", "has_input", "and", "or"}
  BY <1>10 DEF Truth
<1> QED
  BY <1>1, <1>2, <1>3, <1>4, <1>5, <1>6, <1>7, <1>8, <1>9, <1>10

LEMMA TruthsUnrolled ==
    ASSUME NEW c, IsCondition(c), NEW values, NEW files
    PROVE  LET v == Truths(c, values, files)
           IN  /\ \A n \in 0 .. Len(c) : v[n] \in SeqOf(BOOLEAN, n)
               /\ \A n \in 1 .. Len(c) : v[n] = Append(v[n - 1], Truth(c[n], v[n - 1], values, files))
<1> DEFINE K == Len(c)
           X == [n \in 0 .. K |-> SeqOf(BOOLEAN, n)]
           G(x, n) == Append(x, Truth(c[n], x, values, files))
           Step(g, n) == IF n = 0 THEN <<>> ELSE G(g[n - 1], n)
           F == [n \in 1 .. K |-> [x \in X[n - 1] |-> G(x, n)]]
           v == CHOOSE g : g = [n \in 0 .. K |-> Step(g, n)]
<1>1. K \in Nat /\ DOMAIN c = 1 .. K
  BY ConditionPlaces
<1>2. ASSUME NEW n \in 1 .. K PROVE F[n] \in [X[n - 1] -> X[n]]
  <2>1. n - 1 \in 0 .. K /\ n \in 0 .. K /\ n \in DOMAIN c
    BY <1>1
  <2>2. X[n - 1] = SeqOf(BOOLEAN, n - 1) /\ X[n] = SeqOf(BOOLEAN, n)
    BY <2>1
  <2>3. ASSUME NEW x \in SeqOf(BOOLEAN, n - 1) PROVE G(x, n) \in SeqOf(BOOLEAN, n)
    <3>1. Truth(c[n], x, values, files) \in BOOLEAN
      BY <2>1, TruthIsBoolean
    <3>2. x \in Seq(BOOLEAN) /\ Len(x) = n - 1
      BY DEF SeqOf
    <3> QED
      BY <3>1, <3>2 DEF SeqOf
  <2> HIDE DEF X, G
  <2> QED
    BY <2>2, <2>3
<1>3. <<>> \in X[0]
  BY <1>1 DEF SeqOf
<1>4. PICK g : Leads(X, <<>>, K, F, g)
  <2> HIDE DEF F, X, K
  <2> QED
    BY <1>1, <1>2, <1>3, Recursion
<1>5. /\ g = [n \in 0 .. K |-> g[n]] /\ g[0] = <<>>
      /\ \A n \in 0 .. K : g[n] \in X[n]
      /\ \A n \in 1 .. K : g[n] = F[n][g[n - 1]]
  <2> HIDE DEF F, X, K
  <2> QED
    BY <1>4 DEF Leads
<1>6. ASSUME NEW n \in 1 .. K PROVE g[n] = G(g[n - 1], n)
  <2>1. n - 1 \in 0 .. K
    BY <1>1
  <2> HIDE DEF X, G
  <2> QED
    BY <1>5, <2>1
<1>7. g = [n \in 0 .. K |-> Step(g, n)]
  <2>1. \A n \in 0 .. K : n = 0 \/ n \in 1 .. K
    BY <1>1
  <2>2. \A n \in 0 .. K : g[n] = Step(g, n)
    <3> HIDE DEF G, X, F, K
    <3> QED
      BY <1>5, <1>6, <2>1
  <2> HIDE DEF Step
  <2> QED
    BY <1>5, <2>2
<1>8. Truths(c, values, files) = v
  BY DEF Truths
<1>9. v = [n \in 0 .. K |-> Step(v, n)]
  <2> HIDE DEF Step
  <2> QED
    BY <1>7
<1> HIDE DEF v
<1>10. \A n \in 0 .. K : v[n] = Step(v, n)
  <2> HIDE DEF Step
  <2> QED
    BY <1>9
<1>11. v[0] = <<>> /\ \A n \in 1 .. K : v[n] = G(v[n - 1], n)
  <2>1. 0 \in 0 .. K /\ \A n \in 1 .. K : n \in 0 .. K /\ n # 0
    BY <1>1
  <2> HIDE DEF G
  <2> QED
    BY <1>10, <2>1
<1>12. \A n \in 0 .. K : v[n] \in X[n]
  <2> DEFINE S == {n \in Nat : v[n] \in X[n]}
  <2>1. 0 \in S
    BY <1>3, <1>11
  <2>2. ASSUME NEW n \in 1 .. K, n - 1 \in S PROVE n \in S
    <3> HIDE DEF X, G
    <3>1. F[n] \in [X[n - 1] -> X[n]] /\ F[n][v[n - 1]] = G(v[n - 1], n)
      BY <1>2, <2>2
    <3> QED
      BY <1>11, <2>2, <3>1
  <2>3. 0 .. K \subseteq S
    <3> HIDE DEF S
    <3> QED
      BY <1>1, <2>1, <2>2, Induction
  <2> QED
    BY <2>3
<1> QED
  BY <1>1, <1>8, <1>11, <1>12

\* What a condition asks a parameter is the same in a submission and in the form it was made from.
Asked == {"eq", "ne", "gt", "lt", "in", "nin"}

SameKey(d, params, values) ==
    /\ d.key \in DOMAIN params /\ d.key \in DOMAIN values /\ params[d.key] = values[d.key]
    /\ d.op \in {"gt", "lt"} => NumberOf(values[d.key]) # {}

LEMMA NodeAgrees ==
    ASSUME NEW c, IsCondition(c), NEW n \in DOMAIN c, NEW slots, OperatorFits(c[n], slots), c[n].op # "not",
           NEW params, NEW values, NEW files, c[n].op \in Asked => SameKey(c[n], params, values),
           NEW v, NEW t \in SeqOf(BOOLEAN, n - 1), \A m \in 1 .. n - 1 : v[m] = Yes(t[m])
    PROVE  Verdict(c[n], v, params, files) = Yes(Truth(c[n], t, values, files))
<1> DEFINE d == c[n]
<1>1. d.op \in Asked =>
          /\ ValueAt(params, d.key) = values[d.key] /\ Held(values, d.key) = values[d.key]
          /\ d.op \in {"gt", "lt"} => NumberOf(values[d.key]) # {}
  BY DEF SameKey, ValueAt, Held
<1>2. d.op \in {"and", "or"} =>
          /\ Len(d.of) \in Nat /\ DOMAIN d.of = 1 .. Len(d.of)
          /\ \A i \in DOMAIN d.of : d.of[i] \in 1 .. n - 1
  BY ConditionPlaces
<1>3. d.op \in Asked \cup {"has_input", "and", "or"}
  <2> HIDE DEF d
  <2>1. d.op # "not" /\ OperatorFits(d, slots)
    BY DEF d
  <2> QED
    BY <2>1 DEF OperatorFits, Asked
<1>4. \A m \in 1 .. n - 1 : t[m] \in BOOLEAN
  BY DEF SeqOf
<1> HIDE DEF d
<1>5. CASE d.op = "eq"
  BY <1>1, <1>5 DEF Verdict, Truth, Asked, d
<1>6. CASE d.op = "ne"
  BY <1>1, <1>6 DEF Verdict, Truth, Asked, d
<1>7. CASE d.op \in {"gt", "lt"}
  BY <1>1, <1>7 DEF Verdict, Truth, Asked, d
<1>8. CASE d.op = "in"
  BY <1>1, <1>8 DEF Verdict, Truth, Asked, d
<1>9. CASE d.op = "nin"
  BY <1>1, <1>9 DEF Verdict, Truth, Asked, d
<1>10. CASE d.op = "has_input"
  BY <1>10 DEF Verdict, Truth, d
<1> DEFINE all == \A i \in DOMAIN d.of : t[d.of[i]]
           some == \E i \in DOMAIN d.of : t[d.of[i]]
<1>a. d.op \in {"and", "or"} => \A i \in DOMAIN d.of : t[d.of[i]] \in BOOLEAN /\ v[d.of[i]] = Yes(t[d.of[i]])
  BY <1>2, <1>4
<1>b. "yes" # "no" /\ Yes(TRUE) = "yes" /\ Yes(FALSE) = "no"
  BY DEF Yes
<1>11. CASE d.op = "and"
  <2>1. Verdict(d, v, params, files) = Decided(d, v, "yes")
    BY <1>11 DEF Verdict
  <2>2. Truth(d, t, values, files) = all
    BY <1>11 DEF Truth
  <2>3. Decided(d, v, "yes") = Yes(all)
    <3>1. CASE \E i \in DOMAIN d.of : v[d.of[i]] # "yes"
      <4>1. PICK i \in DOMAIN d.of : Decided(d, v, "yes") = v[d.of[i]] /\ v[d.of[i]] # "yes"
        BY <1>2, <1>11, <3>1, DecidedOne
      <4>2. t[d.of[i]] = FALSE /\ v[d.of[i]] = "no"
        BY <1>a, <1>b, <1>11, <4>1
      <4>3. all = FALSE
        BY <4>2
      <4> QED
        BY <1>b, <4>1, <4>2, <4>3
    <3>2. CASE \A i \in DOMAIN d.of : v[d.of[i]] = "yes"
      <4>1. Decided(d, v, "yes") = "yes"
        BY <3>2, DecidedNone
      <4>2. \A i \in DOMAIN d.of : t[d.of[i]] = TRUE
        BY <1>a, <1>b, <1>11, <3>2
      <4>3. all = TRUE
        BY <4>2
      <4> QED
        BY <1>b, <4>1, <4>3
    <3> QED
      BY <3>1, <3>2
  <2> QED
    BY <2>1, <2>2, <2>3 DEF d
<1>12. CASE d.op = "or"
  <2>1. Verdict(d, v, params, files) = Decided(d, v, "no")
    BY <1>12 DEF Verdict
  <2>2. Truth(d, t, values, files) = some
    BY <1>12 DEF Truth
  <2>3. Decided(d, v, "no") = Yes(some)
    <3>1. CASE \E i \in DOMAIN d.of : v[d.of[i]] # "no"
      <4>1. PICK i \in DOMAIN d.of : Decided(d, v, "no") = v[d.of[i]] /\ v[d.of[i]] # "no"
        BY <1>2, <1>12, <3>1, DecidedOne
      <4>2. t[d.of[i]] = TRUE /\ v[d.of[i]] = "yes"
        BY <1>a, <1>b, <1>12, <4>1
      <4>3. some = TRUE
        BY <4>2
      <4> QED
        BY <1>b, <4>1, <4>2, <4>3
    <3>2. CASE \A i \in DOMAIN d.of : v[d.of[i]] = "no"
      <4>1. Decided(d, v, "no") = "no"
        BY <3>2, DecidedNone
      <4>2. \A i \in DOMAIN d.of : t[d.of[i]] = FALSE
        BY <1>a, <1>b, <1>12, <3>2
      <4>3. some = FALSE
        BY <4>2
      <4> QED
        BY <1>b, <4>1, <4>3
    <3> QED
      BY <3>1, <3>2
  <2> QED
    BY <2>1, <2>2, <2>3 DEF d
<1> QED
  BY <1>3, <1>5, <1>6, <1>7, <1>8, <1>9, <1>10, <1>11, <1>12 DEF Asked

\* Where no negation and no parameter tells them apart, browser and server read a condition alike.
LEMMA ConditionAgrees ==
    ASSUME NEW c, IsCondition(c), NEW slots, ConditionFits(c, slots), NEW params, NEW values, NEW files,
           \A n \in DOMAIN c : c[n].op # "not" /\ (c[n].op \in Asked => SameKey(c[n], params, values))
    PROVE  Eval(c, params, files) = Yes(Evaluate(c, values, files))
<1> DEFINE K == Len(c)
           v == Verdicts(c, params, files)
           t == Truths(c, values, files)
           S == {n \in 0 .. K : \A m \in 1 .. n : v[n][m] = Yes(t[n][m])}
<1>1. K \in Nat \ {0} /\ DOMAIN c = 1 .. K
  BY ConditionPlaces
<1>2. /\ \A n \in 0 .. K : v[n] \in SeqOf(Words, n)
      /\ \A n \in 1 .. K : v[n] = Append(v[n - 1], Verdict(c[n], v[n - 1], params, files))
  BY VerdictsUnrolled
<1>3. /\ \A n \in 0 .. K : t[n] \in SeqOf(BOOLEAN, n)
      /\ \A n \in 1 .. K : t[n] = Append(t[n - 1], Truth(c[n], t[n - 1], values, files))
  BY TruthsUnrolled
<1> HIDE DEF v, t
<1>4. 0 \in S
  BY <1>1
<1>5. ASSUME NEW n \in 1 .. K, n - 1 \in S PROVE n \in S
  <2>1. n - 1 \in 0 .. K /\ n \in 0 .. K /\ n \in DOMAIN c
    BY <1>1
  <2>2. Verdict(c[n], v[n - 1], params, files) = Yes(Truth(c[n], t[n - 1], values, files))
    <3>1. \A m \in 1 .. n - 1 : v[n - 1][m] = Yes(t[n - 1][m])
      BY <1>5
    <3>2. OperatorFits(c[n], slots)
      BY <2>1 DEF ConditionFits
    <3>3. t[n - 1] \in SeqOf(BOOLEAN, n - 1)
      BY <1>3, <2>1
    <3> QED
      BY <2>1, <3>1, <3>2, <3>3, NodeAgrees
  <2> DEFINE x == Verdict(c[n], v[n - 1], params, files)
             y == Truth(c[n], t[n - 1], values, files)
  <2>3. v[n - 1] \in Seq(Words) /\ Len(v[n - 1]) = n - 1 /\ t[n - 1] \in Seq(BOOLEAN) /\ Len(t[n - 1]) = n - 1
    BY <1>2, <1>3, <2>1 DEF SeqOf
  <2>4. v[n] = Append(v[n - 1], x) /\ t[n] = Append(t[n - 1], y)
    BY <1>2, <1>3
  <2> HIDE DEF x, y
  <2>5. v[n][n] = x /\ t[n][n] = y /\ \A m \in 1 .. n - 1 : v[n][m] = v[n - 1][m] /\ t[n][m] = t[n - 1][m]
    BY <2>3, <2>4
  <2>6. ASSUME NEW m \in 1 .. n PROVE v[n][m] = Yes(t[n][m])
    <3>1. CASE m = n
      BY <2>2, <2>5, <3>1 DEF x, y
    <3>2. CASE m # n
      <4>1. m \in 1 .. n - 1
        BY <3>2
      <4> QED
        BY <1>5, <2>5, <4>1
    <3> QED
      BY <3>1, <3>2
  <2> QED
    BY <2>1, <2>6
<1>6. K \in S
  <2> HIDE DEF S
  <2>1. 0 .. K \subseteq S
    BY <1>1, <1>4, <1>5, Induction
  <2> QED
    BY <1>1, <2>1
<1>7. v[K][K] = Yes(t[K][K])
  BY <1>1, <1>6
<1> QED
  BY <1>7 DEF Eval, Evaluate, v, t

-----------------------------------------------------------------------------
(* Offer: prices *)

\* A price may fail to be found, and is a fraction while it is counted.
Fraction == Int \X Int
Subtotal == {<<>>} \cup Fraction

IsPricing(pricing) ==
    /\ pricing.base \in Int /\ IsList(pricing.modifiers)
    /\ \A i \in DOMAIN pricing.modifiers : pricing.modifiers[i].value \in Int

LEMMA AppliedIsFraction ==
    ASSUME NEW m, m.value \in Int, NEW s \in Fraction
    PROVE  Applied(m, s) \in Fraction
BY DEF Applied, Fraction

LEMMA SubtotalsUnrolled ==
    ASSUME NEW pricing, IsPricing(pricing), NEW params, NEW files
    PROVE  LET s == Subtotals(pricing, params, files)
               m == pricing.modifiers
           IN  /\ s[0] = <<pricing.base, 1>>
               /\ \A n \in 0 .. Len(m) : s[n] \in Subtotal
               /\ \A n \in 1 .. Len(m) : s[n] =
                     LET hit == Eval(m[n].when, params, files)
                     IN  IF s[n - 1] = <<>> \/ hit = "error" THEN <<>>
                         ELSE IF hit = "no" THEN s[n - 1] ELSE Applied(m[n], s[n - 1])
<1> DEFINE m == pricing.modifiers
           K == Len(m)
           X == [n \in 0 .. K |-> Subtotal]
           e == <<pricing.base, 1>>
           G(x, n) == LET hit == Eval(m[n].when, params, files)
                     IN  IF x = <<>> \/ hit = "error" THEN <<>>
                         ELSE IF hit = "no" THEN x ELSE Applied(m[n], x)
           Step(g, n) == IF n = 0 THEN e ELSE G(g[n - 1], n)
           F == [n \in 1 .. K |-> [x \in X[n - 1] |-> G(x, n)]]
           s == CHOOSE g : g = [n \in 0 .. K |-> Step(g, n)]
<1>1. K \in Nat /\ DOMAIN m = 1 .. K /\ e \in Subtotal
  BY ListIsSequence DEF IsPricing, Subtotal, Fraction
<1>2. ASSUME NEW n \in 1 .. K PROVE F[n] \in [X[n - 1] -> X[n]]
  <2>1. n - 1 \in 0 .. K /\ n \in 0 .. K
    BY <1>1
  <2>2. X[n - 1] = Subtotal /\ X[n] = Subtotal
    BY <2>1
  <2>3. ASSUME NEW x \in Subtotal PROVE G(x, n) \in Subtotal
    <3>1. x # <<>> => Applied(m[n], x) \in Subtotal
      <4>1. m[n].value \in Int
        BY <1>1 DEF IsPricing
      <4> HIDE DEF m
      <4> QED
        BY <4>1, AppliedIsFraction DEF Subtotal
    <3> HIDE DEF m
    <3> QED
      BY <3>1 DEF Subtotal
  <2> HIDE DEF X, G
  <2> QED
    BY <2>2, <2>3
<1>3. e \in X[0]
  BY <1>1
<1>4. PICK g : Leads(X, e, K, F, g)
  <2> HIDE DEF F, X, K, e
  <2> QED
    BY <1>1, <1>2, <1>3, Recursion
<1>5. /\ g[0] = e /\ g = [n \in 0 .. K |-> g[n]]
      /\ \A n \in 0 .. K : g[n] \in X[n]
      /\ \A n \in 1 .. K : g[n] = F[n][g[n - 1]]
  <2> HIDE DEF F, X, K, e
  <2> QED
    BY <1>4 DEF Leads
<1>6. ASSUME NEW n \in 1 .. K PROVE g[n] = G(g[n - 1], n)
  <2>1. n - 1 \in 0 .. K
    BY <1>1
  <2> HIDE DEF X, G
  <2> QED
    BY <1>5, <2>1
<1>7. g = [n \in 0 .. K |-> Step(g, n)]
  <2>1. \A n \in 0 .. K : n = 0 \/ n \in 1 .. K
    BY <1>1
  <2>2. \A n \in 0 .. K : g[n] = Step(g, n)
    <3> HIDE DEF G, X, F, K, e
    <3> QED
      BY <1>5, <1>6, <2>1
  <2> HIDE DEF Step
  <2> QED
    BY <1>5, <2>2
<1>8. Subtotals(pricing, params, files) = s
  BY DEF Subtotals
<1>9. s = [n \in 0 .. K |-> Step(s, n)]
  <2> HIDE DEF Step
  <2> QED
    BY <1>7
<1> HIDE DEF s
<1>10. \A n \in 0 .. K : s[n] = Step(s, n)
  <2> HIDE DEF Step
  <2> QED
    BY <1>9
<1>11. s[0] = e /\ \A n \in 1 .. K : s[n] = G(s[n - 1], n)
  <2>1. 0 \in 0 .. K /\ \A n \in 1 .. K : n \in 0 .. K /\ n # 0
    BY <1>1
  <2> HIDE DEF G, e
  <2> QED
    BY <1>10, <2>1
<1>12. \A n \in 0 .. K : s[n] \in Subtotal
  <2> DEFINE S == {n \in 0 .. K : s[n] \in Subtotal}
  <2>1. 0 \in S
    BY <1>1, <1>11
  <2>2. ASSUME NEW n \in 1 .. K, n - 1 \in S PROVE n \in S
    <3>0. n \in 0 .. K /\ n - 1 \in 0 .. K
      BY <1>1
    <3> HIDE DEF G
    <3>1. F[n] \in [Subtotal -> Subtotal] /\ F[n][s[n - 1]] = G(s[n - 1], n)
      BY <1>2, <2>2, <3>0
    <3> QED
      BY <1>11, <2>2, <3>0, <3>1
  <2>3. 0 .. K \subseteq S
    <3> HIDE DEF S
    <3> QED
      BY <1>1, <2>1, <2>2, Induction
  <2> QED
    BY <2>3
<1> QED
  BY <1>1, <1>8, <1>11, <1>12

LEMMA QuotedSubtotalsUnrolled ==
    ASSUME NEW pricing, IsPricing(pricing), NEW values, NEW files
    PROVE  LET s == QuotedSubtotals(pricing, values, files)
               m == pricing.modifiers
           IN  /\ s[0] = <<pricing.base, 1>>
               /\ \A n \in 0 .. Len(m) : s[n] \in Fraction
               /\ \A n \in 1 .. Len(m) : s[n] =
                     IF ~Evaluate(m[n].when, values, files) THEN s[n - 1] ELSE Applied(m[n], s[n - 1])
<1> DEFINE m == pricing.modifiers
           K == Len(m)
           X == [n \in 0 .. K |-> Fraction]
           e == <<pricing.base, 1>>
           G(x, n) == IF ~Evaluate(m[n].when, values, files) THEN x ELSE Applied(m[n], x)
           Step(g, n) == IF n = 0 THEN e ELSE G(g[n - 1], n)
           F == [n \in 1 .. K |-> [x \in X[n - 1] |-> G(x, n)]]
           s == CHOOSE g : g = [n \in 0 .. K |-> Step(g, n)]
<1>1. K \in Nat /\ DOMAIN m = 1 .. K /\ e \in Fraction
  BY ListIsSequence DEF IsPricing, Fraction
<1>2. ASSUME NEW n \in 1 .. K PROVE F[n] \in [X[n - 1] -> X[n]]
  <2>1. n - 1 \in 0 .. K /\ n \in 0 .. K
    BY <1>1
  <2>2. X[n - 1] = Fraction /\ X[n] = Fraction
    BY <2>1
  <2>3. ASSUME NEW x \in Fraction PROVE G(x, n) \in Fraction
    <3>1. Applied(m[n], x) \in Fraction
      <4>1. m[n].value \in Int
        BY <1>1 DEF IsPricing
      <4> HIDE DEF m
      <4> QED
        BY <4>1, AppliedIsFraction DEF Fraction
    <3> HIDE DEF m
    <3> QED
      BY <3>1 DEF Fraction
  <2> HIDE DEF X, G
  <2> QED
    BY <2>2, <2>3
<1>3. e \in X[0]
  BY <1>1
<1>4. PICK g : Leads(X, e, K, F, g)
  <2> HIDE DEF F, X, K, e
  <2> QED
    BY <1>1, <1>2, <1>3, Recursion
<1>5. /\ g[0] = e /\ g = [n \in 0 .. K |-> g[n]]
      /\ \A n \in 0 .. K : g[n] \in X[n]
      /\ \A n \in 1 .. K : g[n] = F[n][g[n - 1]]
  <2> HIDE DEF F, X, K, e
  <2> QED
    BY <1>4 DEF Leads
<1>6. ASSUME NEW n \in 1 .. K PROVE g[n] = G(g[n - 1], n)
  <2>1. n - 1 \in 0 .. K
    BY <1>1
  <2> HIDE DEF X, G
  <2> QED
    BY <1>5, <2>1
<1>7. g = [n \in 0 .. K |-> Step(g, n)]
  <2>1. \A n \in 0 .. K : n = 0 \/ n \in 1 .. K
    BY <1>1
  <2>2. \A n \in 0 .. K : g[n] = Step(g, n)
    <3> HIDE DEF G, X, F, K, e
    <3> QED
      BY <1>5, <1>6, <2>1
  <2> HIDE DEF Step
  <2> QED
    BY <1>5, <2>2
<1>8. QuotedSubtotals(pricing, values, files) = s
  BY DEF QuotedSubtotals
<1>9. s = [n \in 0 .. K |-> Step(s, n)]
  <2> HIDE DEF Step
  <2> QED
    BY <1>7
<1> HIDE DEF s
<1>10. \A n \in 0 .. K : s[n] = Step(s, n)
  <2> HIDE DEF Step
  <2> QED
    BY <1>9
<1>11. s[0] = e /\ \A n \in 1 .. K : s[n] = G(s[n - 1], n)
  <2>1. 0 \in 0 .. K /\ \A n \in 1 .. K : n \in 0 .. K /\ n # 0
    BY <1>1
  <2> HIDE DEF G, e
  <2> QED
    BY <1>10, <2>1
<1>12. \A n \in 0 .. K : s[n] \in Fraction
  <2> DEFINE S == {n \in 0 .. K : s[n] \in Fraction}
  <2>1. 0 \in S
    BY <1>1, <1>11
  <2>2. ASSUME NEW n \in 1 .. K, n - 1 \in S PROVE n \in S
    <3>0. n \in 0 .. K /\ n - 1 \in 0 .. K
      BY <1>1
    <3> HIDE DEF G
    <3>1. F[n] \in [Fraction -> Fraction] /\ F[n][s[n - 1]] = G(s[n - 1], n)
      BY <1>2, <2>2, <3>0
    <3> QED
      BY <1>11, <2>2, <3>0, <3>1
  <2>3. 0 .. K \subseteq S
    <3> HIDE DEF S
    <3> QED
      BY <1>1, <2>1, <2>2, Induction
  <2> QED
    BY <2>3
<1> QED
  BY <1>1, <1>8, <1>11, <1>12

-----------------------------------------------------------------------------
(* Offer: what is shown, submitted and read *)

\* A schema that was stored.
Stored(schema) == IsSchema(schema) /\ ValidateSchema(schema)

LEMMA StoredParams ==
    ASSUME NEW schema, Stored(schema), NEW i \in DOMAIN schema.params
    PROVE  /\ ShapeFits(schema.params, i)
           /\ \A j \in DOMAIN schema.params : schema.params[i].key = schema.params[j].key => i = j
           /\ Around(schema.params[i]) \subseteq DOMAIN schema.params
           /\ \A j \in Around(schema.params[i]) : schema.params[j].control = "compound"
           /\ "visible_when" \in DOMAIN schema.params[i] =>
                 /\ IsCondition(schema.params[i].visible_when)
                 /\ ConditionFits(schema.params[i].visible_when, Keys(schema.inputs))
<1> DEFINE specs == schema.params
<1>1. ParamSpecsFit(specs, Keys(schema.inputs))
  BY DEF Stored, ValidateSchema
<1>2. /\ Around(specs[i]) \subseteq DOMAIN specs
      /\ "visible_when" \in DOMAIN specs[i] => IsCondition(specs[i].visible_when)
  BY DEF Stored, IsSchema
<1> HIDE DEF specs
<1>3. i \in DOMAIN specs
  BY DEF specs
<1>4. \A j \in DOMAIN specs : ShapeFits(specs, j)
  BY <1>1 DEF ParamSpecsFit
<1>5. \A j \in DOMAIN specs : specs[i].key = specs[j].key => i = j
  BY <1>1, <1>3 DEF ParamSpecsFit
<1>6. "visible_when" \in DOMAIN specs[i] => ConditionFits(specs[i].visible_when, Keys(schema.inputs))
  BY <1>1, <1>3 DEF ParamSpecsFit
<1>7. ASSUME NEW j \in Around(specs[i]) PROVE specs[j].control = "compound"
  <2>1. ShapeFits(specs, j)
    BY <1>2, <1>4
  <2>2. (\E k \in DOMAIN specs : j \in Around(specs[k])) <=> specs[j].control = "compound"
    BY <2>1 DEF ShapeFits
  <2> QED
    BY <1>3, <2>2
<1> QED
  BY <1>2, <1>3, <1>4, <1>5, <1>6, <1>7 DEF specs

LEMMA LeafFound ==
    ASSUME NEW schema, Stored(schema), NEW i \in LeafParams(schema.params)
    PROVE  LeafOf(schema, schema.params[i].key) = schema.params[i]
<1> DEFINE same == {j \in LeafParams(schema.params) : schema.params[j].key = schema.params[i].key}
<1>1. i \in DOMAIN schema.params /\ LeafParams(schema.params) \subseteq DOMAIN schema.params
  BY DEF LeafParams
<1>2. \A j \in LeafParams(schema.params) : schema.params[j].key = schema.params[i].key => j = i
  BY <1>1, StoredParams
<1>3. (CHOOSE j \in LeafParams(schema.params) : schema.params[j].key = schema.params[i].key) = i
  BY <1>2
<1> QED
  BY <1>3 DEF LeafOf

\* No control takes a value that is not there.
LEMMA UndefinedFitsNothing ==
    ASSUME NEW schema, Stored(schema), NEW i \in LeafParams(schema.params)
    PROVE  ~IsValidValue(schema.params[i], Undefined)
<1> DEFINE spec == schema.params[i]
<1>1. i \in DOMAIN schema.params /\ spec.control # "compound"
  BY DEF LeafParams
<1>2. ShapeFits(schema.params, i)
  BY <1>1, StoredParams
<1>3. /\ spec.control \in Controls
      /\ DOMAIN spec \cap Shaping = Needs(spec.control)
  BY <1>2 DEF ShapeFits
<1>4. "options" \in DOMAIN spec => \A v \in spec.options : IsJson(v)
  BY <1>1 DEF Stored, IsSchema
<1> HIDE DEF spec
<1>5. spec.control \in {"select", "aspect_select"} => "options" \in DOMAIN spec
  BY <1>3 DEF Needs, Shaping
<1>6. Undefined[1] = "undefined" /\ NumberOf(Undefined) = {} /\ Undefined # Nil /\ ~IsJson(Undefined)
  BY DEF Undefined, NumberOf, Nil, IsJson
<1>7. spec.control \in {"select", "aspect_select", "stepper", "slider", "seed", "toggle", "textarea"}
  BY <1>1, <1>3 DEF Controls, spec
<1>8. CASE spec.control \in {"select", "aspect_select"}
  BY <1>4, <1>5, <1>6, <1>8 DEF IsValidValue, spec
<1>9. CASE spec.control \in {"stepper", "slider"}
  BY <1>6, <1>9 DEF IsValidValue, spec
<1>10. CASE spec.control = "seed"
  BY <1>6, <1>10 DEF IsValidValue, spec
<1>11. CASE spec.control = "toggle"
  BY <1>6, <1>11 DEF IsValidValue, spec
<1>12. CASE spec.control = "textarea"
  BY <1>6, <1>12 DEF IsValidValue, spec
<1> QED
  BY <1>7, <1>8, <1>9, <1>10, <1>11, <1>12

LEMMA ShownIsValid ==
    ASSUME NEW schema, Stored(schema), NEW values, NEW files, ValidateForm(schema, values, files),
           NEW i \in LeafParams(schema.params), IsVisible(schema.params[i], values, files)
    PROVE  schema.params[i].key \in DOMAIN values /\ IsValidValue(schema.params[i], values[schema.params[i].key])
<1> DEFINE spec == schema.params[i]
<1>1. IsValidValue(spec, Held(values, spec.key))
  BY DEF ValidateForm
<1>2. spec.key \in DOMAIN values
  BY <1>1, UndefinedFitsNothing DEF Held
<1> QED
  BY <1>1, <1>2 DEF Held

LEMMA LeafSubmitted ==
    ASSUME NEW schema, Stored(schema), NEW values, NEW files, ValidateForm(schema, values, files),
           NEW i \in LeafParams(schema.params),
           \A j \in {i} \cup Around(schema.params[i]) : IsVisible(schema.params[j], values, files)
    PROVE  LET params == SubmitParams(schema, values, files)
               key == schema.params[i].key
           IN  /\ key \in DOMAIN params /\ key \in DOMAIN values /\ params[key] = values[key]
               /\ IsValidValue(schema.params[i], values[key])
<1> DEFINE key == schema.params[i].key
<1>1. key \in DOMAIN values /\ IsValidValue(schema.params[i], values[key])
  BY ShownIsValid
<1>2. key \in SubmittedLeaves(schema.params, values, files)
  BY DEF SubmittedLeaves
<1> QED
  BY <1>1, <1>2 DEF SubmitParams

LEMMA AlwaysShownIsSubmitted ==
    ASSUME NEW schema, Stored(schema), NEW values, NEW files, ValidateForm(schema, values, files),
           NEW i \in AlwaysShown(schema.params)
    PROVE  LET params == SubmitParams(schema, values, files)
               key == schema.params[i].key
           IN  /\ key \in DOMAIN params /\ key \in DOMAIN values /\ params[key] = values[key]
               /\ Numeric(schema.params[i]) => NumberOf(values[key]) # {}
<1> DEFINE key == schema.params[i].key
           v == values[key]
           spec == schema.params[i]
<1>1. i \in LeafParams(schema.params)
      /\ \A j \in {i} \cup Around(schema.params[i]) : IsVisible(schema.params[j], values, files)
  BY DEF AlwaysShown, IsVisible
<1>2. /\ key \in DOMAIN SubmitParams(schema, values, files) /\ key \in DOMAIN values
      /\ SubmitParams(schema, values, files)[key] = v
      /\ IsValidValue(spec, v)
  BY <1>1, LeafSubmitted
<1>3. Numeric(spec) => NumberOf(v) # {}
  <2> HIDE DEF spec, v
  <2>1. spec.control \in {"stepper", "slider"} => NumberOf(v) # {}
    BY <1>2 DEF IsValidValue
  <2>2. spec.control = "seed" => NumberOf(v) # {} \/ v = Nil
    BY <1>2 DEF IsValidValue
  <2>3. spec.control = "toggle" => v[1] = "bool"
    BY <1>2 DEF IsValidValue
  <2>4. NumberOf(Nil) # {}
    BY DEF NumberOf, Nil
  <2>5. v[1] = "bool" => NumberOf(v) # {}
    BY DEF NumberOf
  <2> QED
    BY <2>1, <2>2, <2>3, <2>4, <2>5 DEF Numeric
<1> QED
  BY <1>2, <1>3

LEMMA ReadAlikeAgrees ==
    ASSUME NEW schema, Stored(schema), NEW values, NEW files, ValidateForm(schema, values, files),
           NEW c, IsCondition(c), ConditionFits(c, Keys(schema.inputs)), ReadAlike(c, schema)
    PROVE  Eval(c, SubmitParams(schema, values, files), files) = Yes(Evaluate(c, values, files))
<1> DEFINE params == SubmitParams(schema, values, files)
<1>1. ASSUME NEW n \in DOMAIN c
      PROVE  c[n].op # "not" /\ (c[n].op \in Asked => SameKey(c[n], params, values))
  <2>1. c[n].op # "not"
    BY DEF ReadAlike
  <2>2. ASSUME c[n].op \in Asked PROVE SameKey(c[n], params, values)
    <3>1. PICK i \in AlwaysShown(schema.params) :
              /\ schema.params[i].key = c[n].key
              /\ c[n].op \in {"gt", "lt"} => Numeric(schema.params[i])
      BY <2>2 DEF ReadAlike, Asked
    <3>2. LET key == schema.params[i].key
          IN  /\ key \in DOMAIN params /\ key \in DOMAIN values /\ params[key] = values[key]
              /\ Numeric(schema.params[i]) => NumberOf(values[key]) # {}
      BY AlwaysShownIsSubmitted
    <3> HIDE DEF params
    <3> QED
      BY <3>1, <3>2 DEF SameKey
  <2> QED
    BY <2>1, <2>2
<1> QED
  BY <1>1, ConditionAgrees

LEMMA FitsSays ==
    ASSUME NEW spec, NEW v
    PROVE  /\ spec.control \in {"select", "aspect_select"} /\ v \in spec.options \ spec.disabled => Fits(spec, v)
           /\ spec.control = "toggle" /\ v[1] = "bool" => Fits(spec, v)
           /\ spec.control = "textarea" /\ v[1] = "text" /\ Len(v[2]) <= spec.max_length => Fits(spec, v)
           /\ spec.control = "seed" /\ v = Nil /\ "allow_random" \in DOMAIN spec => Fits(spec, v)
           /\ spec.control = "seed" /\ v # Nil /\ NumericFits(spec, v, TRUE) => Fits(spec, v)
           /\ spec.control = "stepper" /\ NumericFits(spec, v, TRUE) => Fits(spec, v)
           /\ spec.control = "slider" /\ NumericFits(spec, v, FALSE) => Fits(spec, v)
<1>1. ASSUME spec.control = "select", v \in spec.options \ spec.disabled PROVE Fits(spec, v)
  BY <1>1, Zenon DEF Fits
<1>2. ASSUME spec.control = "aspect_select", v \in spec.options \ spec.disabled PROVE Fits(spec, v)
  BY <1>2, Zenon DEF Fits
<1>3. ASSUME spec.control = "toggle", v[1] = "bool" PROVE Fits(spec, v)
  BY <1>3, Zenon DEF Fits
<1>4. ASSUME spec.control = "textarea", v[1] = "text", Len(v[2]) <= spec.max_length PROVE Fits(spec, v)
  BY <1>4, Zenon DEF Fits
<1>5. ASSUME spec.control = "seed", v = Nil, "allow_random" \in DOMAIN spec PROVE Fits(spec, v)
  BY <1>5, Zenon DEF Fits
<1>6. ASSUME spec.control = "seed", v # Nil, NumericFits(spec, v, TRUE) PROVE Fits(spec, v)
  BY <1>6, Zenon DEF Fits
<1>7. ASSUME spec.control = "stepper", NumericFits(spec, v, TRUE) PROVE Fits(spec, v)
  BY <1>7, Zenon DEF Fits
<1>8. ASSUME spec.control = "slider", NumericFits(spec, v, FALSE) PROVE Fits(spec, v)
  BY <1>8, Zenon DEF Fits
<1> QED
  BY <1>1, <1>2, <1>3, <1>4, <1>5, <1>6, <1>7, <1>8

LEMMA SlotsFit ==
    ASSUME NEW schema, Stored(schema), NEW params, NEW values, NEW files, \A s \in DOMAIN files : Len(files[s]) \in Nat,
           ValidateForm(schema, values, files), ~LooselyChecked(schema, params, files), NEW i \in DOMAIN schema.inputs
    PROVE  SlotFits(schema.inputs[i], files)
<1> DEFINE slot == schema.inputs[i]
           n == CountAt(files, slot.key)
<1>1. /\ slot.required => n >= 1 /\ n >= slot.min_count
      /\ n <= slot.max_count
      /\ n > 0 /\ "requires_slot" \in DOMAIN slot => CountAt(files, slot.requires_slot) > 0
  BY DEF ValidateForm
<1>2. slot.required \/ ~(n < slot.min_count)
  BY DEF LooselyChecked
<1>3. ~(n < slot.min_count) <=> n >= slot.min_count
  <2>1. n \in Nat
    BY DEF CountAt
  <2>2. slot.min_count \in Int
    BY DEF Stored, IsSchema
  <2> HIDE DEF n, slot
  <2> QED
    BY <2>1, <2>2
<1> HIDE DEF n
<1> QED
  BY <1>1, <1>2, <1>3 DEF SlotFits, n

\* What the browser lets through and is not checked loosely fits.
LEMMA ValueFits ==
    ASSUME NEW schema, Stored(schema), NEW params, NEW files, ~LooselyChecked(schema, params, files),
           NEW i \in LeafParams(schema.params), schema.params[i].key \in DOMAIN params,
           IsJson(params[schema.params[i].key]),
           IsValidValue(schema.params[i], params[schema.params[i].key])
    PROVE  Fits(schema.params[i], params[schema.params[i].key])
<1> DEFINE spec == schema.params[i]
           v == params[spec.key]
<1>1. i \in DOMAIN schema.params /\ spec.control # "compound"
  BY DEF LeafParams
<1>2. spec.control \in Controls
  BY <1>1, StoredParams DEF ShapeFits
<1>a. spec.control \in {"select", "aspect_select", "stepper", "slider", "seed", "toggle", "textarea"}
  BY <1>1, <1>2 DEF Controls
<1>3. LeafOf(schema, spec.key) = spec
  BY LeafFound
<1>4. spec.control \in {"stepper", "slider", "seed"} =>
          /\ v[1] \notin {"bool", "text"}
          /\ v = Nil => "allow_random" \in DOMAIN spec
          /\ v[1] = "num" => /\ spec.control # "slider" => v[2] % 2 = 0
                             /\ "step" \in DOMAIN spec => (v[2] - spec.min) % spec.step = 0
  BY <1>3 DEF LooselyChecked
<1>5. IsJson(v) /\ IsValidValue(spec, v)
  OBVIOUS
<1> SUFFICES Fits(spec, v)
  OBVIOUS
<1> HIDE DEF spec, v
<1>6. CASE spec.control \in {"select", "aspect_select"}
  <2>1. v \in spec.options \ spec.disabled
    BY <1>5, <1>6 DEF IsValidValue
  <2> QED
    BY <1>6, <2>1, FitsSays
<1>7. CASE spec.control = "toggle"
  <2>1. v[1] = "bool"
    BY <1>5, <1>7 DEF IsValidValue
  <2> QED
    BY <1>7, <2>1, FitsSays
<1>8. CASE spec.control = "textarea"
  <2>1. v[1] = "text" /\ Len(v[2]) <= spec.max_length
    BY <1>5, <1>8 DEF IsValidValue
  <2> QED
    BY <1>8, <2>1, FitsSays
<1>9. ASSUME spec.control \in {"stepper", "slider", "seed"}, v # Nil,
             \E n \in NumberOf(v) : spec.min <= n /\ n <= spec.max
      PROVE  v[1] = "num" /\ spec.min <= v[2] /\ v[2] <= spec.max
  <2>1. v[1] = "num"
    BY <1>4, <1>5, <1>9 DEF IsJson
  <2>2. NumberOf(v) = {v[2]}
    BY <2>1 DEF NumberOf
  <2> QED
    BY <1>9, <2>1, <2>2
<1>10. CASE spec.control = "stepper"
  <2>1. \E n \in NumberOf(v) : spec.min <= n /\ n <= spec.max
    BY <1>5, <1>10 DEF IsValidValue
  <2>2. spec.control = "stepper" => v # Nil
    <3>1. "allow_random" \notin DOMAIN spec
      BY <1>1, <1>10, StoredParams DEF ShapeFits, spec
    <3> QED
      BY <1>4, <3>1
  <2>3. v[1] = "num" /\ spec.min <= v[2] /\ v[2] <= spec.max
    BY <1>9, <1>10, <2>1, <2>2
  <2>4. NumericFits(spec, v, TRUE)
    BY <1>4, <1>10, <2>3 DEF NumericFits
  <2> QED
    BY <1>10, <2>4, FitsSays
<1>11. CASE spec.control = "slider"
  <2>1. \E n \in NumberOf(v) : spec.min <= n /\ n <= spec.max
    BY <1>5, <1>11 DEF IsValidValue
  <2>2. spec.control = "slider" => v # Nil
    <3>1. "allow_random" \notin DOMAIN spec
      BY <1>1, <1>11, StoredParams DEF ShapeFits, spec
    <3> QED
      BY <1>4, <3>1
  <2>3. v[1] = "num" /\ spec.min <= v[2] /\ v[2] <= spec.max
    BY <1>9, <1>11, <2>1, <2>2
  <2>4. NumericFits(spec, v, FALSE)
    BY <1>4, <1>11, <2>3 DEF NumericFits
  <2> QED
    BY <1>11, <2>4, FitsSays
<1>12. CASE spec.control = "seed"
  <2>1. CASE v = Nil
    <3>1. "allow_random" \in DOMAIN spec
      BY <1>4, <1>12, <2>1
    <3> QED
      BY <1>12, <2>1, <3>1, FitsSays
  <2>2. CASE v # Nil
    <3>1. \E n \in NumberOf(v) : spec.min <= n /\ n <= spec.max
      BY <1>5, <1>12, <2>2 DEF IsValidValue
    <3>2. v[1] = "num" /\ spec.min <= v[2] /\ v[2] <= spec.max
      BY <1>9, <1>12, <2>2, <3>1
    <3>3. NumericFits(spec, v, TRUE)
      BY <1>4, <1>12, <3>2 DEF NumericFits
    <3> QED
      BY <1>12, <2>2, <3>3, FitsSays
  <2> QED
    BY <2>1, <2>2
<1> QED
  BY <1>a, <1>6, <1>7, <1>8, <1>10, <1>11, <1>12

LEMMA FormFits ==
    ASSUME NEW schema, Stored(schema), NEW values, NEW files, ValidateForm(schema, values, files),
           \A k \in DOMAIN values : IsJson(values[k]), \A s \in DOMAIN files : Len(files[s]) \in Nat,
           ShownAlike(schema), ~LooselyChecked(schema, SubmitParams(schema, values, files), files),
           DOMAIN files \subseteq Keys(schema.inputs)
    PROVE  Validate(schema, SubmitParams(schema, values, files), files)
<1> DEFINE specs == schema.params
           params == SubmitParams(schema, values, files)
<1>1. DOMAIN params = SubmittedLeaves(specs, values, files) \cap DOMAIN values
  BY DEF SubmitParams
<1>2. DOMAIN params \subseteq LeafKeys(specs)
  BY <1>1 DEF SubmittedLeaves, LeafKeys
<1>3. ASSUME NEW i \in LeafParams(specs) PROVE ParamFits(specs[i], params, files)
  <2> DEFINE spec == specs[i]
             verdict == EvalOptional(spec, "visible_when", params, files)
  <2>1. i \in DOMAIN specs
    BY DEF LeafParams
  <2>2. verdict = Yes(IsVisible(spec, values, files))
    <3>1. CASE "visible_when" \in DOMAIN spec
      <4>1. ReadAlike(spec.visible_when, schema)
        BY <2>1, <3>1 DEF ShownAlike
      <4>2. IsCondition(spec.visible_when) /\ ConditionFits(spec.visible_when, Keys(schema.inputs))
        BY <2>1, <3>1, StoredParams
      <4>3. Eval(spec.visible_when, params, files) = Yes(Evaluate(spec.visible_when, values, files))
        BY <4>1, <4>2, ReadAlikeAgrees
      <4> HIDE DEF params, spec
      <4>4. verdict = Eval(spec.visible_when, params, files)
        BY <3>1 DEF EvalOptional
      <4>5. IsVisible(spec, values, files) <=> Evaluate(spec.visible_when, values, files)
        BY <3>1 DEF IsVisible
      <4> QED
        BY <4>3, <4>4, <4>5 DEF Yes
    <3>2. CASE "visible_when" \notin DOMAIN spec
      BY <3>2 DEF EvalOptional, IsVisible, Yes
    <3> QED
      BY <3>1, <3>2
  <2>3. CASE IsVisible(spec, values, files)
    <3>1. ASSUME NEW j \in Around(spec) PROVE IsVisible(specs[j], values, files)
      <4>1. j \in DOMAIN specs /\ specs[j].control = "compound"
        BY <2>1, StoredParams
      <4> QED
        BY <4>1 DEF ShownAlike, IsVisible
    <3>2. /\ spec.key \in DOMAIN params /\ spec.key \in DOMAIN values /\ params[spec.key] = values[spec.key]
          /\ IsValidValue(spec, values[spec.key])
      BY <2>3, <3>1, LeafSubmitted
    <3>3. Fits(spec, params[spec.key])
      <4>1. IsJson(params[spec.key]) /\ IsValidValue(spec, params[spec.key])
        BY <3>2
      <4> QED
        BY <3>2, <4>1, ValueFits
    <3>4. verdict = "yes"
      BY <2>2, <2>3 DEF Yes
    <3> QED
      BY <3>2, <3>3, <3>4, Zenon DEF ParamFits
  <2>4. CASE ~IsVisible(spec, values, files)
    <3>1. spec.key \notin DOMAIN params
      <4>1. SUFFICES ASSUME spec.key \in SubmittedLeaves(specs, values, files) PROVE FALSE
        BY <1>1
      <4>2. PICK j \in LeafParams(specs) : IsVisible(specs[j], values, files) /\ specs[j].key = spec.key
        BY <4>1 DEF SubmittedLeaves
      <4>3. j = i
        BY <2>1, <4>2, StoredParams DEF LeafParams
      <4> QED
        BY <2>4, <4>2, <4>3
    <3>2. verdict = "no"
      BY <2>2, <2>4 DEF Yes
    <3> QED
      BY <3>1, <3>2, Zenon DEF ParamFits
  <2> QED
    BY <2>3, <2>4
<1>4. \A i \in DOMAIN schema.inputs : SlotFits(schema.inputs[i], files)
  BY SlotsFit
<1> QED
  BY <1>2, <1>3, <1>4 DEF Validate

\* The price of a submission is the one the browser counts.
LEMMA PriceIsQuoted ==
    ASSUME NEW schema, Stored(schema), NEW values, NEW files, ValidateForm(schema, values, files),
           PricedAlike(schema)
    PROVE  Estimate(schema.pricing, SubmitParams(schema, values, files), files) =
               {Quote(schema.pricing, values, files)}
<1> DEFINE pricing == schema.pricing
           params == SubmitParams(schema, values, files)
           m == pricing.modifiers
           K == Len(m)
           s == Subtotals(pricing, params, files)
           q == QuotedSubtotals(pricing, values, files)
<1>1. IsPricing(pricing) /\ \A i \in DOMAIN m : IsCondition(m[i].when)
  BY DEF Stored, IsSchema, IsPricing
<1>2. K \in Nat /\ DOMAIN m = 1 .. K
  BY <1>1, ListIsSequence DEF IsPricing
<1>3. ASSUME NEW i \in DOMAIN m
      PROVE  Eval(m[i].when, params, files) = Yes(Evaluate(m[i].when, values, files))
  <2>1. ReadAlike(m[i].when, schema)
    BY DEF PricedAlike
  <2>2. ConditionFits(m[i].when, Keys(schema.inputs))
    BY DEF Stored, ValidateSchema, PricingFits
  <2> QED
    BY <1>1, <2>1, <2>2, ReadAlikeAgrees
<1>4. /\ s[0] = <<pricing.base, 1>>
      /\ \A n \in 1 .. K : s[n] = LET hit == Eval(m[n].when, params, files)
                                  IN  IF s[n - 1] = <<>> \/ hit = "error" THEN <<>>
                                      ELSE IF hit = "no" THEN s[n - 1] ELSE Applied(m[n], s[n - 1])
  BY <1>1, SubtotalsUnrolled
<1>5. /\ q[0] = <<pricing.base, 1>>
      /\ \A n \in 0 .. K : q[n] \in Fraction
      /\ \A n \in 1 .. K : q[n] = IF ~Evaluate(m[n].when, values, files) THEN q[n - 1] ELSE Applied(m[n], q[n - 1])
  BY <1>1, QuotedSubtotalsUnrolled
<1> HIDE DEF s, q, m, params
<1>6. \A x \in Fraction : x # <<>>
  BY DEF Fraction
<1>7. s[K] = q[K]
  <2> DEFINE S == {n \in 0 .. K : s[n] = q[n]}
  <2>1. 0 \in S
    BY <1>2, <1>4, <1>5
  <2>2. ASSUME NEW n \in 1 .. K, n - 1 \in S PROVE n \in S
    <3>1. s[n - 1] = q[n - 1] /\ q[n - 1] # <<>> /\ n \in 0 .. K
      BY <1>2, <1>5, <1>6, <2>2
    <3>2. Eval(m[n].when, params, files) = Yes(Evaluate(m[n].when, values, files))
      BY <1>2, <1>3
    <3>3. s[n] = q[n]
      BY <1>4, <1>5, <3>1, <3>2 DEF Yes
    <3> QED
      BY <3>1, <3>3
  <2> HIDE DEF S
  <2>3. 0 .. K \subseteq S
    BY <1>2, <2>1, <2>2, Induction
  <2> QED
    BY <1>2, <2>3 DEF S
<1>8. s[K] # <<>>
  BY <1>2, <1>5, <1>6, <1>7
<1> DEFINE n == IF "multiplier_param" \in DOMAIN pricing
                THEN CHOOSE x \in NumberOf(Held(values, pricing.multiplier_param)) : TRUE ELSE 2
<1>9. Times(pricing, params) = {n} /\ Quote(pricing, values, files) = Rounded(<<s[K][1] * n, 2 * s[K][2]>>, pricing.rounding)
  <2>1. CASE "multiplier_param" \notin DOMAIN pricing
    <3>1. Times(pricing, params) = {n}
      BY <2>1 DEF Times
    <3> HIDE DEF pricing
    <3>2. Quote(pricing, values, files) = Rounded(<<q[K][1] * n, 2 * q[K][2]>>, pricing.rounding)
      BY <2>1 DEF Quote, q, m
    <3> QED
      BY <1>7, <3>1, <3>2
  <2>2. CASE "multiplier_param" \in DOMAIN pricing
    <3>1. PICK i \in AlwaysShown(schema.params) :
              schema.params[i].key = pricing.multiplier_param /\ Numeric(schema.params[i])
      BY <2>2 DEF PricedAlike
    <3> DEFINE key == pricing.multiplier_param
               v == values[key]
    <3>2. key \in DOMAIN params /\ key \in DOMAIN values /\ params[key] = v /\ NumberOf(v) # {}
      BY <3>1, AlwaysShownIsSubmitted DEF params
    <3>3. Held(values, key) = v
      BY <3>2 DEF Held
    <3>4. \E x : NumberOf(v) = {x}
      <4> HIDE DEF v
      <4>1. NumberOf(v) = {} \/ \E x : NumberOf(v) = {x}
        <5>1. TextNumbers(v[2]) \in {{}, {0}, {4}}
          BY DEF TextNumbers
        <5> QED
          BY <5>1 DEF NumberOf
      <4> QED
        BY <3>2, <4>1
    <3>5. n = (CHOOSE x \in NumberOf(v) : TRUE)
      BY <2>2, <3>3
    <3>6. NumberOf(v) = {n}
      BY <3>4, <3>5
    <3>7. Times(pricing, params) = {n}
      BY <2>2, <3>2, <3>6 DEF Times
    <3> HIDE DEF v, n
    <3>8. Quote(pricing, values, files) = Rounded(<<q[K][1] * n, 2 * q[K][2]>>, pricing.rounding)
      <4>1. NumberOf(Held(values, pricing.multiplier_param)) = {n} /\ (CHOOSE x \in {n} : TRUE) = n
        BY <3>3, <3>6
      <4> HIDE DEF pricing
      <4> QED
        BY <2>2, <4>1 DEF Quote, q, m
    <3> QED
      BY <1>7, <3>7, <3>8
  <2> QED
    BY <2>1, <2>2
<1> HIDE DEF n, pricing
<1>10. Estimate(pricing, params, files) = {Rounded(<<s[K][1] * n, 2 * s[K][2]>>, pricing.rounding)}
  BY <1>8, <1>9 DEF Estimate, s, m
<1> QED
  BY <1>9, <1>10 DEF pricing, params

-----------------------------------------------------------------------------
(* Offer: what a configuration and a form may be *)

\* A form is of a schema that was stored, holds JSON values and, in each slot, a list of files.
FormHolds(f) ==
    /\ f = [id |-> f.id, schema |-> f.schema, values |-> f.values, files |-> f.files]
    /\ Stored(f.schema)
    /\ \A k \in DOMAIN f.values : IsJson(f.values[k])
    /\ \A s \in DOMAIN f.files : Len(f.files[s]) \in Nat

OfferInv ==
    /\ config # NoConfig => config \in Drafts /\ Stored(config.schema)
    /\ form # NoForm => FormHolds(form)
    /\ FormAccepted
    /\ QuotedIsCharged

LEMMA OfferInvInit == OfferInit => OfferInv
BY DEF OfferInit, OfferInv, FormAccepted, QuotedIsCharged, NoTask

\* Where the task does not change, what holds of it goes on to hold.
LEMMA TaskUnchangedKeeps ==
    ASSUME OfferInv, UNCHANGED task,
           config' # NoConfig => config' \in Drafts /\ Stored(config'.schema),
           form' # NoForm => FormHolds(form')
    PROVE  OfferInv'
BY DEF OfferInv, FormAccepted, QuotedIsCharged

LEMMA StoreModelKeeps ==
    ASSUME OfferInv, NEW d \in Drafts, StoreModel(d)
    PROVE  OfferInv'
<1>1. Stored(d.schema)
  BY OfferAssumption DEF OfferAssumption, StoreModel, Stored
<1> QED
  BY <1>1, TaskUnchangedKeeps DEF StoreModel, OfferInv

LEMMA DefaultIsJson ==
    ASSUME NEW schema, Stored(schema), NEW k \in LeafKeys(schema.params)
    PROVE  IsJson(LeafOf(schema, k).default)
<1>1. PICK i \in LeafParams(schema.params) : schema.params[i].key = k
  BY DEF LeafKeys
<1>2. LeafOf(schema, k) = schema.params[i]
  BY <1>1, LeafFound
<1>3. i \in DOMAIN schema.params
  BY DEF LeafParams
<1> QED
  BY <1>2, <1>3 DEF Stored, IsSchema

LEMMA SelectModelKeeps ==
    ASSUME OfferInv, SelectModel
    PROVE  OfferInv'
<1> DEFINE schema == config.schema
           fresh == [id |-> config.id, schema |-> schema, values |-> DefaultValues(schema), files |-> <<>>]
           kept == IF form.id = config.id THEN form.values ELSE MigrateValues(schema, form.values)
           other == [id |-> config.id, schema |-> schema, values |-> kept, files |-> form.files]
<1>1. Stored(schema) /\ config # NoConfig
  BY DEF SelectModel, OfferInv
<1>2. CASE form = NoForm
  <2>1. form' = fresh
    BY <1>2 DEF SelectModel
  <2>2. \A k \in DOMAIN DefaultValues(schema) : IsJson(DefaultValues(schema)[k])
    BY <1>1, DefaultIsJson DEF DefaultValues
  <2>3. FormHolds(form')
    <3> HIDE DEF schema
    <3> QED
      BY <1>1, <2>1, <2>2 DEF FormHolds
  <2> QED
    BY <2>3, TaskUnchangedKeeps DEF SelectModel, OfferInv
<1>3. CASE form # NoForm
  <2>1. FormHolds(form)
    BY <1>3 DEF OfferInv
  <2>2. form' = other
    <3>1. form' = [form EXCEPT !.id = config.id, !.schema = schema,
                               !.values = IF form.id = config.id THEN @ ELSE MigrateValues(schema, @)]
      BY <1>3 DEF SelectModel
    <3> HIDE DEF schema
    <3> QED
      BY <2>1, <3>1 DEF FormHolds
  <2>3. \A k \in DOMAIN kept : IsJson(kept[k])
    <3>1. ASSUME NEW k \in DOMAIN MigrateValues(schema, form.values)
          PROVE  IsJson(MigrateValues(schema, form.values)[k])
      <4>1. k \in LeafKeys(schema.params) /\ IsJson(LeafOf(schema, k).default)
        BY <1>1, DefaultIsJson DEF MigrateValues
      <4>2. k \in DOMAIN form.values => IsJson(form.values[k])
        BY <2>1 DEF FormHolds
      <4> HIDE DEF schema
      <4> QED
        BY <4>1, <4>2 DEF MigrateValues
    <3>2. \A k \in DOMAIN form.values : IsJson(form.values[k])
      BY <2>1 DEF FormHolds
    <3> HIDE DEF schema
    <3> QED
      BY <3>1, <3>2
  <2>4. \A s \in DOMAIN form.files : Len(form.files[s]) \in Nat
    BY <2>1 DEF FormHolds
  <2>5. FormHolds(form')
    <3> HIDE DEF schema, kept
    <3> QED
      BY <1>1, <2>2, <2>3, <2>4 DEF FormHolds
  <2> QED
    BY <2>5, TaskUnchangedKeeps DEF SelectModel, OfferInv
<1> QED
  BY <1>2, <1>3

LEMMA EditionIsJson ==
    ASSUME NEW schema, Stored(schema), NEW k \in LeafKeys(schema.params), NEW v,
           NEW e \in Editions(LeafOf(schema, k), v, Texts, SeedNumbers)
    PROVE  IsJson(e)
<1>1. PICK i \in LeafParams(schema.params) : schema.params[i].key = k
  BY DEF LeafKeys
<1> DEFINE spec == schema.params[i]
<1>2. LeafOf(schema, k) = spec
  BY <1>1, LeafFound
<1>3. i \in DOMAIN schema.params /\ spec.control # "compound"
  BY DEF LeafParams
<1>4. spec.control \in Controls /\ DOMAIN spec \cap Shaping = Needs(spec.control)
  BY <1>3, StoredParams DEF ShapeFits
<1>5. spec.control \in {"select", "aspect_select", "stepper", "slider", "seed", "toggle", "textarea"}
  BY <1>3, <1>4 DEF Controls
<1>6. "options" \in DOMAIN spec => \A o \in spec.options : IsJson(o)
  BY <1>3 DEF Stored, IsSchema
<1>7. spec.control \in {"select", "aspect_select"} => "options" \in DOMAIN spec
  <2> HIDE DEF spec
  <2> QED
    BY <1>4 DEF Needs, Shaping
<1>8. (\A b : IsJson(Bool(b))) /\ (\A n : IsJson(Num(n))) /\ (\A s : IsJson(Text(s))) /\ IsJson(Nil)
  BY DEF IsJson, Bool, Num, Text, Nil
<1> HIDE DEF spec
<1>9. e \in Editions(spec, v, Texts, SeedNumbers)
  BY <1>2
<1>10. CASE spec.control \in {"select", "aspect_select"}
  <2>1. e \in spec.options
    BY <1>9, <1>10 DEF Editions
  <2> QED
    BY <1>6, <1>7, <1>10, <2>1
<1>11. CASE spec.control = "toggle"
  <2>1. e = Bool(v \in {Nil, Undefined, Bool(FALSE)})
    BY <1>9, <1>11 DEF Editions
  <2> QED
    BY <1>8, <2>1
<1>12. CASE spec.control = "stepper"
  <2>1. \E n : e = Num(n)
    BY <1>9, <1>12 DEF Editions
  <2> QED
    BY <1>8, <2>1
<1>13. CASE spec.control = "slider"
  <2>1. \E n : e = Num(n)
    BY <1>9, <1>13 DEF Editions
  <2> QED
    BY <1>8, <2>1
<1>14. CASE spec.control = "seed"
  <2>1. e = Nil \/ \E n : e = Num(n)
    BY <1>9, <1>14 DEF Editions
  <2> QED
    BY <1>8, <2>1
<1>15. CASE spec.control = "textarea"
  <2>1. \E s : e = Text(s)
    BY <1>9, <1>15 DEF Editions
  <2> QED
    BY <1>8, <2>1
<1> QED
  BY <1>5, <1>10, <1>11, <1>12, <1>13, <1>14, <1>15

LEMMA SetValueKeeps ==
    ASSUME OfferInv, form # NoForm, NEW k \in LeafKeys(form.schema.params), SetValue(k)
    PROVE  OfferInv'
<1>1. FormHolds(form)
  BY DEF OfferInv
<1>2. PICK e \in Editions(LeafOf(form.schema, k), Held(form.values, k), Texts, SeedNumbers) :
          form' = [form EXCEPT !.values = [j \in (DOMAIN form.values) \cup {k} |-> IF j = k THEN e ELSE form.values[j]]]
  BY DEF SetValue
<1>3. IsJson(e)
  <2> DEFINE v == Held(form.values, k)
  <2>1. Stored(form.schema) /\ e \in Editions(LeafOf(form.schema, k), v, Texts, SeedNumbers)
    BY <1>1 DEF FormHolds
  <2> HIDE DEF v
  <2> QED
    BY <2>1, EditionIsJson
<1> DEFINE values == [j \in (DOMAIN form.values) \cup {k} |-> IF j = k THEN e ELSE form.values[j]]
<1>4. \A j \in DOMAIN values : IsJson(values[j])
  BY <1>1, <1>3 DEF FormHolds
<1> HIDE DEF values
<1>5. form' = [form EXCEPT !.values = values]
  BY <1>2 DEF values
<1>6. FormHolds(form')
  BY <1>1, <1>4, <1>5 DEF FormHolds
<1> QED
  BY <1>6, TaskUnchangedKeeps DEF SetValue, OfferInv

LEMMA SetFilesKeeps ==
    ASSUME OfferInv, form # NoForm, NEW slot, SetFiles(slot)
    PROVE  OfferInv'
<1>1. FormHolds(form)
  BY DEF OfferInv
<1>2. PICK n \in 0 .. MaxFiles :
          form' = [form EXCEPT !.files = [s \in (DOMAIN form.files) \cup {slot} |->
                                             IF s = slot THEN [i \in 1 .. n |-> <<slot, i>>] ELSE form.files[s]]]
  BY DEF SetFiles
<1> DEFINE list == [i \in 1 .. n |-> <<slot, i>>]
           files == [s \in (DOMAIN form.files) \cup {slot} |-> IF s = slot THEN list ELSE form.files[s]]
<1>3. Len(list) \in Nat
  <2>1. list \in Seq({<<slot, i>> : i \in 1 .. n})
    BY OfferAssumption DEF OfferAssumption
  <2> HIDE DEF list
  <2> QED
    BY <2>1
<1> HIDE DEF list
<1>4. \A s \in DOMAIN files : Len(files[s]) \in Nat
  BY <1>1, <1>3 DEF FormHolds
<1> HIDE DEF files
<1>5. form' = [form EXCEPT !.files = files]
  BY <1>2 DEF files, list
<1>6. FormHolds(form')
  BY <1>1, <1>4, <1>5 DEF FormHolds
<1> QED
  BY <1>6, TaskUnchangedKeeps DEF SetFiles, OfferInv

LEMMA SendFormKeeps ==
    ASSUME OfferInv, SendForm
    PROVE  OfferInv'
<1> DEFINE schema == form.schema
           params == SubmitParams(schema, form.values, form.files)
           prices == Estimate(config.schema.pricing, params, form.files)
           fits == Validate(config.schema, params, form.files)
<1>1. FormHolds(form) /\ ValidateForm(schema, form.values, form.files)
  BY DEF OfferInv, SendForm
<1>2. Stored(schema)
  BY <1>1 DEF FormHolds
<1>3. /\ task'.params = params /\ task'.files = form.files
      /\ task'.quote = Quote(schema.pricing, form.values, form.files) /\ task'.price = prices
      /\ task'.under = config /\ task'.shown = schema
      /\ task'.answer = IF ~fits THEN "refused" ELSE IF prices = {} THEN "unpriced" ELSE "accepted"
  BY DEF SendForm
<1>4. UNCHANGED <<config, form>>
  BY DEF SendForm
<1>5. FormAccepted'
  <2>1. SUFFICES ASSUME task'.answer = "refused", schema = config.schema, ShownAlike(schema),
                        ~LooselyChecked(schema, params, form.files), DOMAIN form.files \subseteq Keys(schema.inputs)
                 PROVE  FALSE
    <3> HIDE DEF schema, params, prices, fits
    <3> QED
      BY <1>3 DEF FormAccepted
  <2>2. Validate(schema, params, form.files)
    BY <1>1, <1>2, <2>1, FormFits DEF FormHolds
  <2>3. ~fits
    <3> HIDE DEF fits, prices
    <3> QED
      BY <1>3, <2>1
  <2> QED
    BY <2>1, <2>2, <2>3
<1>6. QuotedIsCharged'
  <2>1. SUFFICES ASSUME schema = config.schema, PricedAlike(schema)
                 PROVE  prices = {Quote(schema.pricing, form.values, form.files)}
    <3> HIDE DEF schema, params, prices, fits
    <3> QED
      BY <1>3 DEF QuotedIsCharged
  <2> QED
    BY <1>1, <1>2, <2>1, PriceIsQuoted
<1>7. (config # NoConfig => config \in Drafts /\ Stored(config.schema)) /\ (form # NoForm => FormHolds(form))
  BY DEF OfferInv
<1> QED
  BY <1>4, <1>5, <1>6, <1>7 DEF OfferInv

LEMMA OfferInvKept == OfferInv /\ [OfferNext]_offerVars => OfferInv'
<1> SUFFICES ASSUME OfferInv, [OfferNext]_offerVars
             PROVE  OfferInv'
  OBVIOUS
<1>1. ASSUME NEW d \in IF config = NoConfig THEN Drafts ELSE Revisions, StoreModel(d)
      PROVE  OfferInv'
  <2>1. d \in Drafts
    BY OfferAssumption DEF OfferAssumption
  <2> QED
    BY <1>1, <2>1, StoreModelKeeps
<1>2. CASE SelectModel
  BY <1>2, SelectModelKeeps
<1>3. ASSUME form # NoForm, NEW k \in LeafKeys(form.schema.params), SetValue(k)
      PROVE  OfferInv'
  BY <1>3, SetValueKeeps
<1>4. ASSUME form # NoForm, NEW slot \in Keys(form.schema.inputs), SetFiles(slot)
      PROVE  OfferInv'
  BY <1>4, SetFilesKeeps
<1>5. CASE SendForm
  BY <1>5, SendFormKeeps
<1>6. CASE RenderBody
  BY <1>6, TaskUnchangedKeeps DEF RenderBody, OfferInv
<1>7. CASE UNCHANGED offerVars
  BY <1>7, TaskUnchangedKeeps DEF offerVars, OfferInv
<1> QED
  BY <1>1, <1>2, <1>3, <1>4, <1>5, <1>6, <1>7 DEF OfferNext

LEMMA OfferAlways == OfferSpec => []OfferInv
BY OfferInvInit, OfferInvKept, PTL DEF OfferSpec

\* What the browser lets through, the server accepts, but for the differences the
\* property lists, for any configurations, revisions, texts, seeds and files
\* (validateForm, submitParams; Validate).
THEOREM FormsAreAccepted == OfferSpec => []FormAccepted
<1>1. OfferInv => FormAccepted
  BY DEF OfferInv
<1> QED
  BY <1>1, OfferAlways, PTL

\* The price a browser quotes for what is always shown is the one the server
\* charges, for any base, modifiers, multiplier and rounding (costBreakdown; Estimate).
THEOREM QuotesAreCharged == OfferSpec => []QuotedIsCharged
<1>1. OfferInv => QuotedIsCharged
  BY DEF OfferInv
<1> QED
  BY <1>1, OfferAlways, PTL

-----------------------------------------------------------------------------
(* Offer: JSON values, and what is in them *)

\* A value all of whose lists are lists.
Tidy(v) == \E S : IsClosed(S) /\ v \in S

LEMMA PlainIsTidy ==
    ASSUME NEW v, v[1] \notin {"list", "obj"}
    PROVE  Tidy(v)
<1>1. IsClosed({v})
  BY DEF IsClosed
<1> QED
  BY <1>1 DEF Tidy

LEMMA NilIsTidy == Tidy(Nil)
BY PlainIsTidy DEF Nil

LEMMA LiteralIsTidy ==
    ASSUME NEW v \in Literals
    PROVE  Tidy(v)
BY OfferAssumption DEF OfferAssumption, Tidy

LEMMA TidyInside ==
    ASSUME NEW v, Tidy(v)
    PROVE  /\ v[1] = "list" => IsList(v[2]) /\ \A i \in DOMAIN v[2] : Tidy(v[2][i])
           /\ v[1] = "obj" => \A k \in DOMAIN v[2] : Tidy(v[2][k])
<1>1. PICK S : IsClosed(S) /\ v \in S
  BY DEF Tidy
<1>2. \A x \in S : Tidy(x)
  BY <1>1 DEF Tidy
<1>3. v[1] = "list" => IsList(v[2]) /\ \A i \in DOMAIN v[2] : v[2][i] \in S
  BY <1>1 DEF IsClosed
<1>4. v[1] = "obj" => \A k \in DOMAIN v[2] : v[2][k] \in S
  BY <1>1 DEF IsClosed
<1> QED
  BY <1>2, <1>3, <1>4

\* Whatever is made of tidy values by listing or naming them is tidy.
LEMMA TidyFamily ==
    ASSUME NEW D, NEW x, \A i \in D : Tidy(x[i])
    PROVE  \E S : IsClosed(S) /\ \A i \in D : x[i] \in S
<1> DEFINE W(i) == CHOOSE S : IsClosed(S) /\ x[i] \in S
           U == UNION {W(i) : i \in D}
<1>1. ASSUME NEW i \in D PROVE IsClosed(W(i)) /\ x[i] \in W(i)
  BY DEF Tidy
<1> HIDE DEF W
<1>2. \A v \in U : \E i \in D : v \in W(i) /\ W(i) \subseteq U
  OBVIOUS
<1>3. IsClosed(U)
  <2> SUFFICES ASSUME NEW v \in U
               PROVE  /\ v[1] = "list" => IsList(v[2]) /\ \A i \in DOMAIN v[2] : v[2][i] \in U
                      /\ v[1] = "obj" => \A k \in DOMAIN v[2] : v[2][k] \in U
    BY DEF IsClosed
  <2>1. PICK i \in D : v \in W(i) /\ W(i) \subseteq U
    BY <1>2
  <2>2. IsClosed(W(i))
    BY <1>1
  <2> HIDE DEF U
  <2>3. v[1] = "list" => IsList(v[2]) /\ \A j \in DOMAIN v[2] : v[2][j] \in W(i)
    BY <2>1, <2>2 DEF IsClosed
  <2>4. v[1] = "obj" => \A k \in DOMAIN v[2] : v[2][k] \in W(i)
    BY <2>1, <2>2 DEF IsClosed
  <2> QED
    BY <2>1, <2>3, <2>4
<1>4. \A i \in D : x[i] \in U
  BY <1>1
<1> HIDE DEF U
<1> QED
  BY <1>3, <1>4

LEMMA TidyMade ==
    ASSUME NEW v, v[1] \in {"list", "obj"}, v[1] = "list" => IsList(v[2]),
           \A i \in DOMAIN v[2] : Tidy(v[2][i])
    PROVE  Tidy(v)
<1>1. PICK S : IsClosed(S) /\ \A i \in DOMAIN v[2] : v[2][i] \in S
  <2> DEFINE x == v[2]
             D == DOMAIN x
  <2>1. \A i \in D : Tidy(x[i])
    OBVIOUS
  <2> HIDE DEF x, D
  <2>2. \E S : IsClosed(S) /\ \A i \in D : x[i] \in S
    BY <2>1, TidyFamily
  <2> QED
    BY <2>2 DEF x, D
<1> DEFINE U == S \cup {v}
<1>2. IsClosed(U)
  <2> SUFFICES ASSUME NEW w \in U
               PROVE  /\ w[1] = "list" => IsList(w[2]) /\ \A i \in DOMAIN w[2] : w[2][i] \in U
                      /\ w[1] = "obj" => \A k \in DOMAIN w[2] : w[2][k] \in U
    BY DEF IsClosed
  <2>1. CASE w = v
    BY <1>1, <2>1
  <2>2. CASE w \in S
    <3>1. w[1] = "list" => IsList(w[2]) /\ \A i \in DOMAIN w[2] : w[2][i] \in S
      BY <1>1, <2>2 DEF IsClosed
    <3>2. w[1] = "obj" => \A k \in DOMAIN w[2] : w[2][k] \in S
      BY <1>1, <2>2 DEF IsClosed
    <3> QED
      BY <3>1, <3>2
  <2> QED
    BY <2>1, <2>2
<1> QED
  BY <1>2 DEF Tidy

LEMMA ChildIsTidy ==
    ASSUME NEW node, Tidy(node), NEW seg
    PROVE  Tidy(Child(node, seg))
BY NilIsTidy, TidyInside DEF Child

\* A walk goes from child to child.
LEMMA WalkSteps ==
    ASSUME NEW body, NEW path, Len(path) \in Nat
    PROVE  LET w == Walk(body, path)
           IN  w[0] = body /\ \A n \in 1 .. Len(path) : w[n] = Child(w[n - 1], path[n])
<1> DEFINE K == Len(path)
           Step(g, n) == IF n = 0 THEN body ELSE Child(g[n - 1], path[n])
           S == {k \in 0 .. K : \E g : g = [n \in 0 .. k |-> Step(g, n)]}
           w == CHOOSE g : g = [n \in 0 .. K |-> Step(g, n)]
<1>1. 0 \in S
  <2> DEFINE h == [n \in 0 .. 0 |-> body]
  <2>1. h = [n \in 0 .. 0 |-> Step(h, n)]
    OBVIOUS
  <2> HIDE DEF h, Step
  <2>2. \E g : g = [n \in 0 .. 0 |-> Step(g, n)]
    BY <2>1
  <2> QED
    BY <2>2
<1>2. ASSUME NEW k \in 1 .. K, k - 1 \in S PROVE k \in S
  <2>1. PICK g : g = [n \in 0 .. k - 1 |-> Step(g, n)]
    BY <1>2
  <2> DEFINE h == [n \in 0 .. k |-> IF n = k THEN Child(g[k - 1], path[k]) ELSE g[n]]
  <2>2. ASSUME NEW n \in 0 .. k PROVE h[n] = Step(h, n)
    <3>1. CASE n = 0
      BY <2>1, <3>1
    <3>2. CASE n = k
      BY <3>2
    <3>3. CASE n # 0 /\ n # k
      <4>1. n \in 0 .. k - 1 /\ n - 1 \in 0 .. k /\ n - 1 # k
        BY <3>3
      <4>2. h[n] = g[n] /\ h[n - 1] = g[n - 1]
        BY <3>3, <4>1
      <4>3. g[n] = Step(g, n)
        <5> HIDE DEF Step
        <5> QED
          BY <2>1, <4>1
      <4> HIDE DEF h
      <4> QED
        BY <3>3, <4>2, <4>3
    <3> QED
      BY <3>1, <3>2, <3>3
  <2>3. h = [n \in 0 .. k |-> Step(h, n)]
    <3> HIDE DEF Step
    <3>1. h = [n \in 0 .. k |-> h[n]]
      OBVIOUS
    <3> HIDE DEF h
    <3> QED
      BY <2>2, <3>1
  <2> HIDE DEF h, Step
  <2>4. \E x : x = [n \in 0 .. k |-> Step(x, n)]
    BY <2>3
  <2> QED
    BY <2>4
<1>3. \E g : g = [n \in 0 .. K |-> Step(g, n)]
  <2> HIDE DEF S
  <2>1. 0 .. K \subseteq S
    BY <1>1, <1>2, Induction
  <2>2. K \in S
    BY <2>1
  <2> QED
    BY <2>2 DEF S
<1>4. w = [n \in 0 .. K |-> Step(w, n)]
  <2> HIDE DEF Step
  <2> QED
    BY <1>3
<1>5. Walk(body, path) = w
  BY DEF Walk
<1> HIDE DEF w
<1>6. \A n \in 0 .. K : w[n] = Step(w, n)
  <2> HIDE DEF Step
  <2> QED
    BY <1>4
<1>7. 0 \in 0 .. K /\ \A n \in 1 .. K : n \in 0 .. K /\ n # 0
  OBVIOUS
<1> QED
  BY <1>5, <1>6, <1>7

LEMMA WalkIsTidy ==
    ASSUME NEW body, Tidy(body), NEW path, Len(path) \in Nat
    PROVE  \A n \in 0 .. Len(path) : Tidy(Walk(body, path)[n])
<1> DEFINE w == Walk(body, path)
           S == {n \in 0 .. Len(path) : Tidy(w[n])}
<1>1. w[0] = body /\ \A n \in 1 .. Len(path) : w[n] = Child(w[n - 1], path[n])
  BY WalkSteps
<1> HIDE DEF w
<1>2. 0 \in S
  BY <1>1
<1>3. \A n \in 1 .. Len(path) : n - 1 \in S => n \in S
  BY <1>1, ChildIsTidy
<1> HIDE DEF S
<1>4. 0 .. Len(path) \subseteq S
  BY <1>2, <1>3, Induction
<1> QED
  BY <1>4 DEF S, w

-----------------------------------------------------------------------------
(* Offer: what a rule puts, and where *)

\* A node one of whose children can be set.
Enterable(node, seg) ==
    node[1] = "obj" \/ node = Nil \/ (node[1] = "list" /\ Index(seg) \in DOMAIN node[2])

LEMMA IndexOne ==
    ASSUME NEW s, NEW t, s # t, Index(s) \in Nat \ {0}
    PROVE  Index(s) # Index(t)
BY DEF Index

LEMMA ChildSet ==
    ASSUME NEW node, Tidy(node), NEW seg, Enterable(node, seg), NEW c
    PROVE  /\ Child(WithChild(node, seg, c), seg) = c
           /\ \A s : s # seg => Child(WithChild(node, seg, c), s) = Child(node, s)
           /\ Tidy(c) => Tidy(WithChild(node, seg, c))
<1>1. CASE node[1] = "list" /\ Index(seg) \in DOMAIN node[2]
  <2> DEFINE x == node[2]
             y == [x EXCEPT ![Index(seg)] = c]
  <2>1. WithChild(node, seg, c) = <<"list", y>>
    BY <1>1 DEF WithChild, List
  <2>2. IsList(x) /\ \A i \in DOMAIN x : Tidy(x[i])
    BY <1>1, TidyInside
  <2>3. Index(seg) \in Nat \ {0}
    BY <1>1, <2>2, ListIsSequence
  <2>4. \A s : s # seg => Index(s) # Index(seg)
    BY <2>3, IndexOne
  <2>5. DOMAIN y = DOMAIN x /\ y[Index(seg)] = c /\ \A i \in DOMAIN x : i # Index(seg) => y[i] = x[i]
    <3> HIDE DEF x
    <3> QED
      BY <1>1 DEF x
  <2>6. IsList(y)
    <3>1. x \in Seq({x[i] : i \in DOMAIN x})
      BY <2>2 DEF IsList
    <3> HIDE DEF x
    <3>2. Len(x) \in Nat /\ DOMAIN x = 1 .. Len(x)
      BY <3>1
    <3>3. y = [i \in 1 .. Len(x) |-> y[i]]
      BY <3>2
    <3> HIDE DEF y
    <3>4. [i \in 1 .. Len(x) |-> y[i]] \in Seq({y[i] : i \in 1 .. Len(x)})
      BY <3>2
    <3>5. DOMAIN y = 1 .. Len(x)
      BY <2>5, <3>2
    <3> QED
      BY <3>3, <3>4, <3>5 DEF IsList
  <2> HIDE DEF y
  <2>7. Child(<<"list", y>>, seg) = c
    BY <1>1, <2>5 DEF Child
  <2>8. ASSUME NEW s, s # seg PROVE Child(<<"list", y>>, s) = Child(node, s)
    <3>1. Child(<<"list", y>>, s) = IF Index(s) \in DOMAIN y THEN y[Index(s)] ELSE Nil
      BY DEF Child
    <3>2. Child(node, s) = IF Index(s) \in DOMAIN x THEN x[Index(s)] ELSE Nil
      BY <1>1 DEF Child
    <3> HIDE DEF x
    <3> QED
      BY <2>4, <2>5, <2>8, <3>1, <3>2
  <2>9. Tidy(c) => Tidy(<<"list", y>>)
    <3> DEFINE v == <<"list", y>>
    <3>1. v[1] = "list" /\ v[2] = y
      OBVIOUS
    <3>2. Tidy(c) => \A i \in DOMAIN y : Tidy(y[i])
      BY <2>2, <2>5
    <3> HIDE DEF v
    <3> QED
      BY <2>6, <3>1, <3>2, TidyMade DEF v
  <2> QED
    BY <2>1, <2>7, <2>8, <2>9
<1>2. CASE node[1] = "obj" \/ node = Nil
  <2> DEFINE names == IF node = Nil THEN {} ELSE DOMAIN node[2]
             y == [k \in names \cup {seg} |-> IF k = seg THEN c ELSE node[2][k]]
  <2>1. node[1] # "list"
    BY <1>2 DEF Nil
  <2>2. WithChild(node, seg, c) = <<"obj", y>>
    BY <2>1 DEF WithChild, Object
  <2>3. DOMAIN y = names \cup {seg} /\ y[seg] = c /\ \A k \in names : k # seg => y[k] = node[2][k]
    OBVIOUS
  <2>4. node # Nil => node[1] = "obj" /\ names = DOMAIN node[2]
    BY <1>2
  <2>5. node = Nil => names = {}
    OBVIOUS
  <2> HIDE DEF y, names
  <2>6. Child(<<"obj", y>>, seg) = c
    BY <2>3 DEF Child
  <2>7. ASSUME NEW s, s # seg PROVE Child(<<"obj", y>>, s) = Child(node, s)
    <3>1. Child(<<"obj", y>>, s) = IF s \in names THEN y[s] ELSE Nil
      BY <2>3, <2>7 DEF Child
    <3>2. CASE node = Nil
      BY <2>5, <3>1, <3>2 DEF Child, Nil
    <3>3. CASE node # Nil
      <4>1. Child(node, s) = IF s \in names THEN node[2][s] ELSE Nil
        BY <2>4, <3>3 DEF Child
      <4> QED
        BY <2>3, <2>7, <3>1, <4>1
    <3> QED
      BY <3>2, <3>3
  <2>8. Tidy(c) => Tidy(<<"obj", y>>)
    <3> DEFINE v == <<"obj", y>>
    <3>1. v[1] = "obj" /\ v[2] = y
      OBVIOUS
    <3>2. \A k \in names : Tidy(node[2][k])
      BY <2>4, <2>5, TidyInside
    <3>3. Tidy(c) => \A k \in DOMAIN y : Tidy(y[k])
      BY <2>3, <3>2
    <3> HIDE DEF v
    <3> QED
      BY <3>1, <3>3, TidyMade DEF v
  <2> QED
    BY <2>2, <2>6, <2>7, <2>8
<1> QED
  BY <1>1, <1>2 DEF Enterable

\* What is put, and what is above it, from the end of a path of K names to its start.
Built(w, path, end, K, u) ==
    u[0] = end /\ \A n \in 1 .. K : u[n] = WithChild(w[Len(path) - n], path[Len(path) - n + 1], u[n - 1])

LEMMA PutSteps ==
    ASSUME NEW body, NEW path, Len(path) \in Nat, NEW values, NEW append,
           Put(body, path, values, append) # Broken
    PROVE  LET w == Walk(body, path)
               end == AtEnd(w[Len(path)], values, append)
           IN  /\ end # Broken
               /\ \A n \in 1 .. Len(path) : Enterable(w[n - 1], path[n])
               /\ \E u : Built(w, path, end, Len(path), u) /\ Put(body, path, values, append) = u[Len(path)]
<1> DEFINE K == Len(path)
           w == Walk(body, path)
           end == AtEnd(w[Len(path)], values, append)
           Step(g, n) == IF n = 0 THEN end ELSE WithChild(w[K - n], path[K - n + 1], g[n - 1])
           S == {k \in 0 .. K : \E g : g = [n \in 0 .. k |-> Step(g, n)]}
           u == CHOOSE g : g = [n \in 0 .. K |-> Step(g, n)]
<1>0. Put(body, path, values, append) =
          IF end = Broken \/ \E n \in 1 .. K : ~Enters(w, path, n) THEN Broken ELSE u[K]
  BY DEF Put
<1>a. end # Broken /\ \A n \in 1 .. K : Enters(w, path, n)
  <2> HIDE DEF w, end, u
  <2> QED
    BY <1>0
<1>b. Put(body, path, values, append) = u[K]
  <2> HIDE DEF w, end, u
  <2> QED
    BY <1>0, <1>a
<1>c. \A n \in 1 .. K : Enterable(w[n - 1], path[n])
  <2> HIDE DEF w
  <2> QED
    BY <1>a DEF Enters, Enterable
<1> HIDE DEF w, end
<1>1. 0 \in S
  <2> DEFINE h == [n \in 0 .. 0 |-> end]
  <2>1. h = [n \in 0 .. 0 |-> Step(h, n)]
    OBVIOUS
  <2> HIDE DEF h, Step
  <2>2. \E g : g = [n \in 0 .. 0 |-> Step(g, n)]
    BY <2>1
  <2> QED
    BY <2>2
<1>2. ASSUME NEW k \in 1 .. K, k - 1 \in S PROVE k \in S
  <2>1. PICK g : g = [n \in 0 .. k - 1 |-> Step(g, n)]
    BY <1>2
  <2> DEFINE h == [n \in 0 .. k |-> IF n = k THEN WithChild(w[K - k], path[K - k + 1], g[k - 1]) ELSE g[n]]
  <2>2. ASSUME NEW n \in 0 .. k PROVE h[n] = Step(h, n)
    <3>1. CASE n = 0
      BY <2>1, <3>1
    <3>2. CASE n = k
      BY <3>2
    <3>3. CASE n # 0 /\ n # k
      <4>1. n \in 0 .. k - 1 /\ n - 1 \in 0 .. k /\ n - 1 # k
        BY <3>3
      <4>2. h[n] = g[n] /\ h[n - 1] = g[n - 1]
        BY <3>3, <4>1
      <4>3. g[n] = Step(g, n)
        <5> HIDE DEF Step
        <5> QED
          BY <2>1, <4>1
      <4> HIDE DEF h
      <4> QED
        BY <3>3, <4>2, <4>3
    <3> QED
      BY <3>1, <3>2, <3>3
  <2>3. h = [n \in 0 .. k |-> Step(h, n)]
    <3> HIDE DEF Step
    <3>1. h = [n \in 0 .. k |-> h[n]]
      OBVIOUS
    <3> HIDE DEF h
    <3> QED
      BY <2>2, <3>1
  <2> HIDE DEF h, Step
  <2>4. \E x : x = [n \in 0 .. k |-> Step(x, n)]
    BY <2>3
  <2> QED
    BY <2>4
<1>3. \E g : g = [n \in 0 .. K |-> Step(g, n)]
  <2> HIDE DEF S
  <2>1. 0 .. K \subseteq S
    BY <1>1, <1>2, Induction
  <2>2. K \in S
    BY <2>1
  <2> QED
    BY <2>2 DEF S
<1>4. u = [n \in 0 .. K |-> Step(u, n)]
  <2> HIDE DEF Step
  <2> QED
    BY <1>3
<1> HIDE DEF u
<1>5. \A n \in 0 .. K : u[n] = Step(u, n)
  <2> HIDE DEF Step
  <2> QED
    BY <1>4
<1>6. 0 \in 0 .. K /\ \A n \in 1 .. K : n \in 0 .. K /\ n # 0
  OBVIOUS
<1>7. Built(w, path, end, K, u)
  BY <1>5, <1>6 DEF Built
<1>8. \E x : Built(w, path, end, K, x) /\ Put(body, path, values, append) = x[K]
  BY <1>b, <1>7
<1> QED
  BY <1>a, <1>c, <1>8 DEF w, end

LEMMA BuiltUp ==
    ASSUME NEW w, NEW path, Len(path) \in Nat, NEW end, NEW u, Built(w, path, end, Len(path), u),
           NEW n \in 1 .. Len(path)
    PROVE  u[Len(path) - n + 1] = WithChild(w[n - 1], path[n], u[Len(path) - n])
<1> DEFINE K == Len(path)
           p == K - n + 1
<1>1. p \in 1 .. K /\ K - p = n - 1 /\ K - p + 1 = n /\ p - 1 = K - n
  OBVIOUS
<1>2. u[p] = WithChild(w[K - p], path[K - p + 1], u[p - 1])
  <2> HIDE DEF p
  <2> QED
    BY <1>1 DEF Built
<1> QED
  BY <1>1, <1>2

\* What is put is there afterwards,
LEMMA PutFound ==
    ASSUME NEW body, Tidy(body), NEW path, Len(path) \in Nat, NEW values, NEW append,
           Put(body, path, values, append) # Broken
    PROVE  LET end == AtEnd(Found(body, path), values, append)
               made == Put(body, path, values, append)
           IN  end # Broken /\ Found(made, path) = end /\ (Tidy(end) => Tidy(made))
<1> DEFINE K == Len(path)
           w == Walk(body, path)
           end == AtEnd(w[K], values, append)
           made == Put(body, path, values, append)
           x == Walk(made, path)
<1>1. /\ end # Broken
      /\ \A n \in 1 .. K : Enterable(w[n - 1], path[n])
      /\ \E u : Built(w, path, end, K, u) /\ made = u[K]
  BY PutSteps
<1>2. \A n \in 0 .. K : Tidy(w[n])
  BY WalkIsTidy
<1>3. x[0] = made /\ \A n \in 1 .. K : x[n] = Child(x[n - 1], path[n])
  BY WalkSteps
<1> HIDE DEF w, end, made, x
<1>4. PICK u : Built(w, path, end, K, u) /\ made = u[K]
  BY <1>1
<1>5. ASSUME NEW n \in 1 .. K
      PROVE  /\ u[K - n + 1] = WithChild(w[n - 1], path[n], u[K - n])
             /\ Child(u[K - n + 1], path[n]) = u[K - n]
             /\ Tidy(u[K - n]) => Tidy(u[K - n + 1])
  <2>1. u[K - n + 1] = WithChild(w[n - 1], path[n], u[K - n])
    BY <1>4, BuiltUp
  <2>2. Tidy(w[n - 1]) /\ Enterable(w[n - 1], path[n])
    BY <1>1, <1>2
  <2> QED
    BY <2>1, <2>2, ChildSet
<1>6. x[K] = u[0]
  <2> DEFINE S == {n \in 0 .. K : x[n] = u[K - n]}
  <2>1. 0 \in S
    BY <1>3, <1>4
  <2>2. ASSUME NEW n \in 1 .. K, n - 1 \in S PROVE n \in S
    <3>1. x[n - 1] = u[K - n + 1]
      <4>1. K - (n - 1) = K - n + 1
        OBVIOUS
      <4> QED
        BY <2>2, <4>1
    <3> QED
      BY <1>3, <1>5, <3>1
  <2> HIDE DEF S
  <2>3. 0 .. K \subseteq S
    BY <2>1, <2>2, Induction
  <2>4. K \in S
    BY <2>3
  <2> QED
    BY <2>4 DEF S
<1>7. u[0] = end
  BY <1>4 DEF Built
<1>8. Tidy(end) => Tidy(made)
  <2> SUFFICES ASSUME Tidy(end) PROVE Tidy(made)
    OBVIOUS
  <2> DEFINE S == {n \in 0 .. K : Tidy(u[n])}
  <2>1. 0 \in S
    BY <1>7
  <2>2. ASSUME NEW n \in 1 .. K, n - 1 \in S PROVE n \in S
    <3> DEFINE p == K - n + 1
    <3>1. p \in 1 .. K /\ K - p = n - 1 /\ K - p + 1 = n
      OBVIOUS
    <3>2. Tidy(u[K - p]) => Tidy(u[K - p + 1])
      <4> HIDE DEF p
      <4> QED
        BY <1>5, <3>1
    <3> QED
      BY <2>2, <3>1, <3>2
  <2> HIDE DEF S
  <2>3. 0 .. K \subseteq S
    BY <2>1, <2>2, Induction
  <2>4. K \in S
    BY <2>3
  <2> QED
    BY <1>4, <2>4 DEF S
<1> QED
  BY <1>1, <1>6, <1>7, <1>8 DEF Found, w, end, made, x

\* and what is found along a path that parts from the one it was put at is as it was.
LEMMA PutElsewhere ==
    ASSUME NEW body, Tidy(body), NEW path, Len(path) \in Nat, NEW values, NEW append,
           Put(body, path, values, append) # Broken,
           NEW q, Len(q) \in Nat, NEW m \in 1 .. Len(q), m <= Len(path),
           \A i \in 1 .. m - 1 : q[i] = path[i], q[m] # path[m]
    PROVE  Found(Put(body, path, values, append), q) = Found(body, q)
<1> DEFINE K == Len(path)
           w == Walk(body, path)
           end == AtEnd(w[K], values, append)
           made == Put(body, path, values, append)
           x == Walk(made, q)
           y == Walk(body, q)
<1>1. /\ \A n \in 1 .. K : Enterable(w[n - 1], path[n])
      /\ \E u : Built(w, path, end, K, u) /\ made = u[K]
  BY PutSteps
<1>2. \A n \in 0 .. K : Tidy(w[n])
  BY WalkIsTidy
<1>3. x[0] = made /\ \A n \in 1 .. Len(q) : x[n] = Child(x[n - 1], q[n])
  BY WalkSteps
<1>4. y[0] = body /\ \A n \in 1 .. Len(q) : y[n] = Child(y[n - 1], q[n])
  BY WalkSteps
<1>5. w[0] = body /\ \A n \in 1 .. K : w[n] = Child(w[n - 1], path[n])
  BY WalkSteps
<1> HIDE DEF w, end, made, x, y
<1>6. PICK u : Built(w, path, end, K, u) /\ made = u[K]
  BY <1>1
<1>7. ASSUME NEW n \in 1 .. K
      PROVE  /\ Child(u[K - n + 1], path[n]) = u[K - n]
             /\ \A s : s # path[n] => Child(u[K - n + 1], s) = Child(w[n - 1], s)
  <2>1. u[K - n + 1] = WithChild(w[n - 1], path[n], u[K - n])
    BY <1>6, BuiltUp
  <2>2. Tidy(w[n - 1]) /\ Enterable(w[n - 1], path[n])
    BY <1>1, <1>2
  <2> QED
    BY <2>1, <2>2, ChildSet
<1>8. x[m - 1] = u[K - m + 1] /\ y[m - 1] = w[m - 1]
  <2> DEFINE S == {n \in 0 .. m - 1 : x[n] = u[K - n] /\ y[n] = w[n]}
  <2>1. 0 \in S
    BY <1>3, <1>4, <1>5, <1>6
  <2>2. ASSUME NEW n \in 1 .. m - 1, n - 1 \in S PROVE n \in S
    <3>1. n \in 1 .. K /\ n \in 1 .. Len(q) /\ K - (n - 1) = K - n + 1 /\ q[n] = path[n]
      OBVIOUS
    <3>2. x[n - 1] = u[K - n + 1] /\ y[n - 1] = w[n - 1]
      BY <2>2, <3>1
    <3>3. x[n] = u[K - n] /\ y[n] = w[n]
      BY <1>3, <1>4, <1>5, <1>7, <3>1, <3>2
    <3> QED
      BY <3>3
  <2>3. m - 1 \in Nat /\ K - (m - 1) = K - m + 1
    OBVIOUS
  <2> HIDE DEF S
  <2>4. 0 .. m - 1 \subseteq S
    BY <2>1, <2>2, <2>3, Induction
  <2>5. m - 1 \in S
    BY <2>3, <2>4
  <2> QED
    BY <2>3, <2>5 DEF S
<1>9. x[m] = y[m]
  <2>1. m \in 1 .. K
    OBVIOUS
  <2>2. Child(u[K - m + 1], q[m]) = Child(w[m - 1], q[m])
    BY <1>7, <2>1
  <2> QED
    BY <1>3, <1>4, <1>8, <2>2
<1>10. x[Len(q)] = y[Len(q)]
  <2> DEFINE R == Len(q) - m
             S == {n \in 0 .. R : x[m + n] = y[m + n]}
  <2>0. m + 0 = m /\ m + R = Len(q) /\ R \in Nat
    OBVIOUS
  <2>1. 0 \in S
    BY <1>9, <2>0
  <2>2. ASSUME NEW n \in 1 .. R, n - 1 \in S PROVE n \in S
    <3>1. m + n \in 1 .. Len(q) /\ m + n - 1 = m + (n - 1)
      OBVIOUS
    <3> QED
      BY <1>3, <1>4, <2>2, <3>1
  <2> HIDE DEF S, R
  <2>3. 0 .. R \subseteq S
    BY <2>0, <2>1, <2>2, Induction
  <2>4. R \in S
    BY <2>0, <2>3
  <2> QED
    BY <2>0, <2>4 DEF S
<1> QED
  BY <1>10 DEF Found, x, y, made

LEMMA SequenceIsList ==
    ASSUME NEW V, NEW s \in Seq(V)
    PROVE  IsList(s)
<1>1. s = [i \in 1 .. Len(s) |-> s[i]] /\ DOMAIN s = 1 .. Len(s) /\ Len(s) \in Nat
  OBVIOUS
<1>2. [i \in 1 .. Len(s) |-> s[i]] \in Seq({s[i] : i \in 1 .. Len(s)})
  BY <1>1
<1> QED
  BY <1>1, <1>2 DEF IsList

LEMMA ListOfPlaces ==
    ASSUME NEW n \in Nat, NEW s, s = [i \in 1 .. n |-> s[i]]
    PROVE  IsList(s) /\ Len(s) = n /\ DOMAIN s = 1 .. n
<1> DEFINE V == {s[i] : i \in 1 .. n}
<1>1. [i \in 1 .. n |-> s[i]] \in Seq(V) /\ Len([i \in 1 .. n |-> s[i]]) = n
  OBVIOUS
<1>2. s \in Seq(V) /\ Len(s) = n
  <2> HIDE DEF V
  <2> QED
    BY <1>1
<1> HIDE DEF V
<1> QED
  BY <1>2, SequenceIsList

LEMMA Joined ==
    ASSUME NEW a, IsList(a), NEW b, IsList(b)
    PROVE  /\ IsList(a \o b) /\ Len(a \o b) = Len(a) + Len(b)
           /\ \A i \in 1 .. Len(a) : (a \o b)[i] = a[i]
           /\ \A i \in 1 .. Len(b) : (a \o b)[Len(a) + i] = b[i]
           /\ \A i \in DOMAIN (a \o b) : (\E j \in DOMAIN a : (a \o b)[i] = a[j]) \/ \E j \in DOMAIN b : (a \o b)[i] = b[j]
<1>1. PICK A : a \in Seq(A)
  BY DEF IsList
<1>2. PICK B : b \in Seq(B)
  BY DEF IsList
<1>3. a \in Seq(A \cup B) /\ b \in Seq(A \cup B)
  BY <1>1, <1>2
<1>4. a \o b \in Seq(A \cup B) /\ Len(a \o b) = Len(a) + Len(b) /\ Len(a) \in Nat /\ Len(b) \in Nat
  BY <1>3
<1>5. \A i \in 1 .. Len(a) : (a \o b)[i] = a[i]
  BY <1>3
<1>6. \A i \in 1 .. Len(b) : (a \o b)[Len(a) + i] = b[i]
  BY <1>3
<1>7. ASSUME NEW i \in DOMAIN (a \o b)
      PROVE  (\E j \in DOMAIN a : (a \o b)[i] = a[j]) \/ \E j \in DOMAIN b : (a \o b)[i] = b[j]
  <2>1. i \in 1 .. Len(a) + Len(b) /\ DOMAIN a = 1 .. Len(a) /\ DOMAIN b = 1 .. Len(b)
    BY <1>3, <1>4
  <2>2. CASE i <= Len(a)
    BY <1>4, <1>5, <2>1, <2>2
  <2>3. CASE ~(i <= Len(a))
    <3>1. i - Len(a) \in 1 .. Len(b) /\ Len(a) + (i - Len(a)) = i
      BY <1>4, <2>1, <2>3
    <3>2. (a \o b)[i] = b[i - Len(a)]
      BY <1>6, <3>1
    <3> QED
      BY <2>1, <3>1, <3>2
  <2> QED
    BY <2>2, <2>3
<1> QED
  BY <1>4, <1>5, <1>6, <1>7, SequenceIsList

\* made is in the list s, from the k + 1-st place on.
LEMMA PartOf ==
    ASSUME NEW s, IsList(s), NEW made, IsList(made), NEW k \in 0 .. Len(s) - Len(made)
    PROVE  SubSeq(s, k + 1, k + Len(made)) = made <=> \A i \in 1 .. Len(made) : s[k + i] = made[i]
<1> DEFINE L == Len(made)
           p == SubSeq(s, k + 1, k + L)
<1>1. PICK V : s \in Seq(V)
  BY DEF IsList
<1>2. PICK M : made \in Seq(M)
  BY DEF IsList
<1>3. Len(s) \in Nat /\ L \in Nat /\ k + L <= Len(s) /\ made = [i \in 1 .. L |-> made[i]]
  BY <1>1, <1>2
<1>4. Len(p) = L /\ p \in Seq(V)
  BY <1>1, <1>3
<1>5. \A i \in 1 .. L : p[i] = s[k + i]
  BY <1>1, <1>3
<1>6. p = [i \in 1 .. L |-> p[i]]
  <2> HIDE DEF p
  <2> QED
    BY <1>3, <1>4
<1> HIDE DEF p, L
<1>7. p = made => \A i \in 1 .. L : s[k + i] = made[i]
  BY <1>5
<1>8. (\A i \in 1 .. L : s[k + i] = made[i]) => p = made
  <2> SUFFICES ASSUME \A i \in 1 .. L : s[k + i] = made[i] PROVE p = made
    OBVIOUS
  <2>1. \A i \in 1 .. L : p[i] = made[i]
    BY <1>5
  <2> QED
    BY <1>3, <1>6, <2>1
<1> QED
  BY <1>7, <1>8 DEF p, L

Contains(s, made) == \E k \in 0 .. Len(s) - Len(made) : SubSeq(s, k + 1, k + Len(made)) = made

LEMMA ContainsItself ==
    ASSUME NEW s, IsList(s)
    PROVE  Contains(s, s)
<1>1. Len(s) \in Nat /\ 0 \in 0 .. Len(s) - Len(s) /\ \A i \in 1 .. Len(s) : s[0 + i] = s[i]
  BY ListIsSequence
<1>2. SubSeq(s, 0 + 1, 0 + Len(s)) = s
  BY <1>1, PartOf
<1> QED
  BY <1>1, <1>2 DEF Contains

LEMMA ContainsEnd ==
    ASSUME NEW s, IsList(s), NEW made, IsList(made)
    PROVE  Contains(s \o made, made)
<1>1. Len(s) \in Nat /\ Len(made) \in Nat
  BY ListIsSequence
<1>2. /\ IsList(s \o made) /\ Len(s \o made) = Len(s) + Len(made)
      /\ \A i \in 1 .. Len(made) : (s \o made)[Len(s) + i] = made[i]
  BY Joined
<1>3. Len(s) \in 0 .. Len(s \o made) - Len(made)
  BY <1>1, <1>2
<1> DEFINE t == s \o made
<1> HIDE DEF t
<1>4. SubSeq(t, Len(s) + 1, Len(s) + Len(made)) = made
  <2>1. IsList(t) /\ Len(s) \in 0 .. Len(t) - Len(made) /\ \A i \in 1 .. Len(made) : t[Len(s) + i] = made[i]
    BY <1>2, <1>3 DEF t
  <2> QED
    BY <2>1, PartOf
<1> QED
  BY <1>3, <1>4 DEF Contains, t

LEMMA ContainsStill ==
    ASSUME NEW s, IsList(s), NEW made, IsList(made), Contains(s, made), NEW more, IsList(more)
    PROVE  Contains(s \o more, made)
<1>1. Len(s) \in Nat /\ Len(made) \in Nat /\ Len(more) \in Nat
  BY ListIsSequence
<1>2. PICK k \in 0 .. Len(s) - Len(made) : SubSeq(s, k + 1, k + Len(made)) = made
  BY DEF Contains
<1>3. \A i \in 1 .. Len(made) : s[k + i] = made[i]
  BY <1>2, PartOf
<1> DEFINE t == s \o more
<1>4. IsList(t) /\ Len(t) = Len(s) + Len(more) /\ \A i \in 1 .. Len(s) : t[i] = s[i]
  BY Joined
<1> HIDE DEF t
<1>5. k \in 0 .. Len(t) - Len(made)
  BY <1>1, <1>4
<1>6. \A i \in 1 .. Len(made) : t[k + i] = made[i]
  <2> SUFFICES ASSUME NEW i \in 1 .. Len(made) PROVE t[k + i] = made[i]
    OBVIOUS
  <2>1. k + i \in 1 .. Len(s)
    BY <1>1
  <2> QED
    BY <1>3, <1>4, <2>1
<1>7. SubSeq(t, k + 1, k + Len(made)) = made
  BY <1>4, <1>5, <1>6, PartOf
<1> QED
  BY <1>5, <1>7 DEF Contains, t

LEMMA ListIsTidy ==
    ASSUME NEW s, IsList(s), \A i \in DOMAIN s : Tidy(s[i])
    PROVE  Tidy(List(s))
<1> DEFINE v == <<"list", s>>
<1>1. v[1] = "list" /\ v[2] = s
  OBVIOUS
<1> HIDE DEF v
<1>2. Tidy(v)
  BY <1>1, TidyMade
<1> QED
  BY <1>2 DEF v, List

\* The values of a rule: a list of one at least, and of one only unless they are appended.
Values(made, append) ==
    IsList(made) /\ Len(made) # 0 /\ (append \/ Len(made) = 1) /\ \A i \in DOMAIN made : Tidy(made[i])

\* What comes to stand at the end of a path.
LEMMA EndIsTidy ==
    ASSUME NEW node, Tidy(node), NEW made, NEW append \in BOOLEAN, Values(made, append),
           AtEnd(node, made, append) # Broken
    PROVE  Tidy(AtEnd(node, made, append))
<1>1. IsList(made) /\ Len(made) \in Nat \ {0} /\ DOMAIN made = 1 .. Len(made) /\ \A i \in DOMAIN made : Tidy(made[i])
  BY ListIsSequence DEF Values
<1>2. CASE ~append
  BY <1>1, <1>2 DEF AtEnd
<1>3. CASE append /\ node = Nil
  BY <1>1, <1>3, ListIsTidy DEF AtEnd, Nil
<1>4. CASE append /\ node # Nil /\ node[1] = "list"
  <2> DEFINE s == node[2]
  <2>1. IsList(s) /\ \A i \in DOMAIN s : Tidy(s[i])
    BY <1>4, TidyInside
  <2>2. AtEnd(node, made, append) = List(s \o made)
    BY <1>4 DEF AtEnd
  <2> HIDE DEF s
  <2>3. IsList(s \o made) /\ \A i \in DOMAIN (s \o made) : Tidy((s \o made)[i])
    BY <1>1, <2>1, Joined
  <2> QED
    BY <2>2, <2>3, ListIsTidy
<1>5. append => node = Nil \/ node[1] = "list"
  BY DEF AtEnd
<1> QED
  BY <1>2, <1>3, <1>4, <1>5

\* Arrived, of a place rather than a body.
Stands(there, append, made) == IF append THEN there[1] = "list" /\ Contains(there[2], made) ELSE made = <<there>>

LEMMA EndHolds ==
    ASSUME NEW node, Tidy(node), NEW made, NEW append \in BOOLEAN, Values(made, append),
           AtEnd(node, made, append) # Broken
    PROVE  Stands(AtEnd(node, made, append), append, made)
<1>1. IsList(made) /\ Len(made) \in Nat \ {0}
  BY ListIsSequence DEF Values
<1>2. CASE ~append
  <2>1. Len(made) = 1
    BY <1>2 DEF Values
  <2>2. PICK V : made \in Seq(V)
    BY <1>1 DEF IsList
  <2>3. made = <<made[1]>>
    BY <2>1, <2>2
  <2>4. AtEnd(node, made, append) = made[1]
    BY <1>2 DEF AtEnd
  <2> QED
    BY <1>2, <2>3, <2>4 DEF Stands
<1>3. CASE append /\ node = Nil
  <2> DEFINE v == <<"list", made>>
  <2>1. AtEnd(node, made, append) = v
    BY <1>3 DEF AtEnd, List, Nil
  <2>2. v[1] = "list" /\ v[2] = made
    OBVIOUS
  <2> HIDE DEF v
  <2> QED
    BY <1>1, <1>3, <2>1, <2>2, ContainsItself DEF Stands
<1>4. CASE append /\ node # Nil /\ node[1] = "list"
  <2> DEFINE s == node[2]
  <2>1. IsList(s)
    BY <1>4, TidyInside
  <2> DEFINE v == <<"list", s \o made>>
  <2>2. AtEnd(node, made, append) = v
    BY <1>4 DEF AtEnd, List
  <2>4. v[1] = "list" /\ v[2] = s \o made
    OBVIOUS
  <2> HIDE DEF s, v
  <2>3. Contains(s \o made, made)
    BY <1>1, <2>1, ContainsEnd
  <2> QED
    BY <1>4, <2>2, <2>3, <2>4 DEF Stands
<1>5. append => node = Nil \/ node[1] = "list"
  BY DEF AtEnd
<1> QED
  BY <1>2, <1>3, <1>4, <1>5

\* What was appended stays when more is.
LEMMA EndStays ==
    ASSUME NEW node, Tidy(node), NEW made, IsList(made), Stands(node, TRUE, made), NEW more, Values(more, TRUE)
    PROVE  Stands(AtEnd(node, more, TRUE), TRUE, made)
<1> DEFINE s == node[2]
<1>1. node[1] = "list" /\ Contains(s, made)
  BY DEF Stands
<1>2. IsList(s) /\ IsList(more) /\ node # Nil
  BY <1>1, TidyInside DEF Values, Nil
<1> DEFINE v == <<"list", s \o more>>
<1>3. AtEnd(node, more, TRUE) = v
  BY <1>1, <1>2 DEF AtEnd, List
<1>5. v[1] = "list" /\ v[2] = s \o more
  OBVIOUS
<1> HIDE DEF s, v
<1>4. Contains(s \o more, made)
  BY <1>1, <1>2, ContainsStill
<1> QED
  BY <1>3, <1>4, <1>5 DEF Stands

\* A rule as a mapping has it.
IsRule(rule) ==
    /\ IsList(rule.to) /\ rule.append \in BOOLEAN
    /\ IF "const" \in DOMAIN rule THEN rule.const \in Literals ELSE rule.from \in {"prompt", "params", "inputs"}
    /\ "value_map" \in DOMAIN rule => \A k \in DOMAIN rule.value_map : rule.value_map[k] \in Literals
    /\ "wrap" \in DOMAIN rule => rule.wrap \in {"text_part", "image_url_part", "video_url_part", "user_message"}

\* A task as it was made.
IsTask(t) ==
    /\ \A k \in DOMAIN t.params : IsJson(t.params[k])
    /\ \A s \in DOMAIN t.files : Len(t.files[s]) \in Nat
    /\ t.prompt = Text("prompt")

LEMMA CastIsTidy ==
    ASSUME NEW rule, NEW v, Tidy(v)
    PROVE  Tidy(Cast(rule, v))
<1>1. (\A b : Tidy(Bool(b))) /\ (\A n : Tidy(Num(n))) /\ (\A s : Tidy(Text(s))) /\ Tidy(Broken)
      /\ Tidy(<<"printed", v>>)
  BY PlainIsTidy DEF Bool, Num, Text, Broken
<1>2. CASE "cast" \notin DOMAIN rule
  BY <1>2 DEF Cast
<1>3. CASE "cast" \in DOMAIN rule /\ rule.cast = "string"
  BY <1>1, <1>3 DEF Cast
<1>4. CASE "cast" \in DOMAIN rule /\ rule.cast = "bool"
  <2>1. Cast(rule, v) = Broken \/ \E b : Cast(rule, v) = Bool(b)
    <3>1. CASE v = Nil
      BY <1>4, <3>1 DEF Cast, Nil
    <3>2. CASE v # Nil /\ v[1] = "text"
      <4>1. Cast(rule, v) \in {Bool(TRUE), Bool(FALSE), Broken}
        BY <1>4, <3>2 DEF Cast
      <4> QED
        BY <4>1
    <3>3. CASE v # Nil /\ v[1] # "text"
      <4> DEFINE b == NumberOf(v) # {0}
      <4>1. Cast(rule, v) = IF NumberOf(v) = {} THEN Broken ELSE Bool(b)
        BY <1>4, <3>3 DEF Cast
      <4> QED
        BY <4>1
    <3> QED
      BY <3>1, <3>2, <3>3
  <2> QED
    BY <1>1, <2>1
<1>5. CASE "cast" \in DOMAIN rule /\ rule.cast \notin {"string", "bool"}
  <2>1. CASE CastNumber(v) = {}
    <3>1. Cast(rule, v) = Broken
      BY <1>5, <2>1 DEF Cast
    <3> QED
      BY <1>1, <3>1
  <2>2. CASE CastNumber(v) # {}
    <3> DEFINE n == CHOOSE x \in CastNumber(v) : TRUE
    <3>1. CASE rule.cast = "int"
      <4>1. Cast(rule, v) = Num(Whole(n))
        BY <1>5, <2>2, <3>1 DEF Cast
      <4> QED
        BY <1>1, <4>1
    <3>2. CASE rule.cast = "float"
      <4>1. Cast(rule, v) = Num(n)
        BY <1>5, <2>2, <3>2 DEF Cast
      <4> QED
        BY <1>1, <4>1
    <3>3. CASE rule.cast = "seconds_suffix"
      <4>1. Cast(rule, v) = Text(StringOf(Num(n)) \o "s")
        BY <1>5, <2>2, <3>3 DEF Cast
      <4> QED
        BY <1>1, <4>1
    <3>4. CASE rule.cast \notin {"int", "float", "seconds_suffix"}
      <4>1. Cast(rule, v) = Broken
        BY <1>5, <3>4 DEF Cast
      <4> QED
        BY <1>1, <4>1
    <3> QED
      BY <3>1, <3>2, <3>3, <3>4
  <2> QED
    BY <2>1, <2>2
<1> QED
  BY <1>2, <1>3, <1>4, <1>5

LEMMA TransformedIsTidy ==
    ASSUME NEW rule, IsRule(rule), NEW v, Tidy(v)
    PROVE  Tidy(Transformed(rule, v))
<1> DEFINE mapped == IF "value_map" \in DOMAIN rule /\ Primitive(v) /\ StringOf(v) \in DOMAIN rule.value_map
                     THEN rule.value_map[StringOf(v)] ELSE v
           cast == Cast(rule, mapped)
<1>1. Tidy(mapped)
  BY LiteralIsTidy DEF IsRule
<1> HIDE DEF mapped
<1>2. Tidy(cast)
  BY <1>1, CastIsTidy
<1>3. Transformed(rule, v) = IF cast = Broken \/ "wrap" \notin DOMAIN rule THEN cast ELSE <<rule.wrap, cast>>
  BY DEF Transformed, mapped
<1> HIDE DEF cast
<1>4. "wrap" \in DOMAIN rule => Tidy(<<rule.wrap, cast>>)
  BY PlainIsTidy DEF IsRule
<1> QED
  BY <1>2, <1>3, <1>4

LEMMA SourceIsList ==
    ASSUME NEW rule, IsRule(rule), NEW t, IsTask(t)
    PROVE  /\ IsList(SourceValues(rule, t)) /\ Len(SourceValues(rule, t)) # 0
           /\ \A i \in DOMAIN SourceValues(rule, t) :
                 /\ Tidy(SourceValues(rule, t)[i])
                 /\ "const" \in DOMAIN rule \/ SourceValues(rule, t)[i][1] \notin {"list", "obj"}
<1> DEFINE s == SourceValues(rule, t)
           Right(v) == Tidy(v) /\ ("const" \in DOMAIN rule \/ v[1] \notin {"list", "obj"})
<1> SUFFICES IsList(s) /\ Len(s) # 0 /\ \A i \in DOMAIN s : Right(s[i])
  OBVIOUS
<1>p. \A v : v[1] \notin {"list", "obj"} => Right(v)
  BY PlainIsTidy
<1>1. ASSUME NEW v, Right(v), s = <<v>>
      PROVE  IsList(s) /\ Len(s) # 0 /\ \A i \in DOMAIN s : Right(s[i])
  <2> DEFINE q == [i \in 1 .. 1 |-> v]
  <2>1. s = q
    BY <1>1
  <2> HIDE DEF s, Right
  <2>2. q = [i \in 1 .. 1 |-> q[i]] /\ \A i \in 1 .. 1 : q[i] = v
    OBVIOUS
  <2> HIDE DEF q
  <2>3. IsList(q) /\ Len(q) = 1 /\ DOMAIN q = 1 .. 1
    BY <2>2, ListOfPlaces
  <2> QED
    BY <1>1, <2>1, <2>2, <2>3 DEF s
<1>2. CASE "const" \in DOMAIN rule
  <2>1. s = <<rule.const>>
    BY <1>2 DEF SourceValues
  <2>2. Right(rule.const)
    BY <1>2, LiteralIsTidy DEF IsRule
  <2> HIDE DEF s, Right
  <2> QED
    BY <1>1, <2>1, <2>2
<1>3. CASE "const" \notin DOMAIN rule /\ rule.from = "prompt"
  <2>1. s = <<t.prompt>>
    BY <1>3 DEF SourceValues
  <2>2. Right(t.prompt)
    BY <1>p DEF IsTask, Text
  <2> HIDE DEF s, Right
  <2> QED
    BY <1>1, <2>1, <2>2
<1>4. CASE "const" \notin DOMAIN rule /\ rule.from = "params"
  <2>1. s = <<ValueAt(t.params, rule.name)>>
    BY <1>4 DEF SourceValues
  <2>2. Right(ValueAt(t.params, rule.name))
    <3>1. ValueAt(t.params, rule.name)[1] \notin {"list", "obj"}
      BY DEF IsTask, IsJson, ValueAt, Nil
    <3> QED
      BY <1>p, <3>1
  <2> HIDE DEF s, Right
  <2> QED
    BY <1>1, <2>1, <2>2
<1>5. CASE "const" \notin DOMAIN rule /\ rule.from \notin {"prompt", "params"}
  <2> DEFINE n == CountAt(t.files, rule.name)
             f(i) == IF rule.inline THEN <<"data", t.files[rule.name][i]>> ELSE <<"url", t.files[rule.name][i]>>
  <2>1. s = IF n = 0 THEN <<Nil>> ELSE [i \in 1 .. n |-> f(i)]
    BY <1>5 DEF SourceValues
  <2>2. n \in Nat
    BY DEF CountAt, IsTask
  <2>3. CASE n = 0
    <3>1. s = <<Nil>>
      BY <2>1, <2>3
    <3>2. Right(Nil)
      BY <1>p DEF Nil
    <3> HIDE DEF s, Right
    <3> QED
      BY <1>1, <3>1, <3>2
  <2>4. CASE n # 0
    <3>1. \A i : Right(f(i))
      BY <1>p
    <3> HIDE DEF n, f, s, Right
    <3>2. s = [i \in 1 .. n |-> f(i)]
      BY <2>1, <2>4
    <3>3. s = [i \in 1 .. n |-> s[i]] /\ \A i \in 1 .. n : s[i] = f(i)
      BY <3>2
    <3>4. IsList(s) /\ Len(s) = n /\ DOMAIN s = 1 .. n
      BY <2>2, <3>3, ListOfPlaces
    <3> QED
      BY <2>4, <3>1, <3>3, <3>4
  <2> QED
    BY <2>3, <2>4
<1> QED
  BY <1>2, <1>3, <1>4, <1>5

\* What is dropped is what is empty.
LEMMA DropSteps ==
    ASSUME NEW values, Len(values) \in Nat
    PROVE  \E kept :
              /\ kept[0] = <<>> /\ DropEmpty(values) = kept[Len(values)]
              /\ \A n \in 1 .. Len(values) :
                    kept[n] = IF Empty(values[n]) THEN kept[n - 1] ELSE Append(kept[n - 1], values[n])
<1> DEFINE K == Len(values)
           Step(g, n) == IF n = 0 THEN <<>>
                         ELSE IF Empty(values[n]) THEN g[n - 1] ELSE Append(g[n - 1], values[n])
           S == {k \in 0 .. K : \E g : g = [n \in 0 .. k |-> Step(g, n)]}
           w == CHOOSE g : g = [n \in 0 .. K |-> Step(g, n)]
<1>1. 0 \in S
  <2> DEFINE h == [n \in 0 .. 0 |-> <<>>]
  <2>1. h = [n \in 0 .. 0 |-> Step(h, n)]
    OBVIOUS
  <2> HIDE DEF h, Step
  <2>2. \E g : g = [n \in 0 .. 0 |-> Step(g, n)]
    BY <2>1
  <2> QED
    BY <2>2
<1>2. ASSUME NEW k \in 1 .. K, k - 1 \in S PROVE k \in S
  <2>1. PICK g : g = [n \in 0 .. k - 1 |-> Step(g, n)]
    BY <1>2
  <2> DEFINE h == [n \in 0 .. k |->
                     IF n = k THEN IF Empty(values[k]) THEN g[k - 1] ELSE Append(g[k - 1], values[k]) ELSE g[n]]
  <2>2. ASSUME NEW n \in 0 .. k PROVE h[n] = Step(h, n)
    <3>1. CASE n = 0
      BY <2>1, <3>1
    <3>2. CASE n = k
      BY <3>2
    <3>3. CASE n # 0 /\ n # k
      <4>1. n \in 0 .. k - 1 /\ n - 1 \in 0 .. k /\ n - 1 # k
        BY <3>3
      <4>2. h[n] = g[n] /\ h[n - 1] = g[n - 1]
        BY <3>3, <4>1
      <4>3. g[n] = Step(g, n)
        <5> HIDE DEF Step
        <5> QED
          BY <2>1, <4>1
      <4> HIDE DEF h
      <4> QED
        BY <3>3, <4>2, <4>3
    <3> QED
      BY <3>1, <3>2, <3>3
  <2>3. h = [n \in 0 .. k |-> Step(h, n)]
    <3> HIDE DEF Step
    <3>1. h = [n \in 0 .. k |-> h[n]]
      OBVIOUS
    <3> HIDE DEF h
    <3> QED
      BY <2>2, <3>1
  <2> HIDE DEF h, Step
  <2>4. \E x : x = [n \in 0 .. k |-> Step(x, n)]
    BY <2>3
  <2> QED
    BY <2>4
<1>3. \E g : g = [n \in 0 .. K |-> Step(g, n)]
  <2> HIDE DEF S
  <2>1. 0 .. K \subseteq S
    BY <1>1, <1>2, Induction
  <2>2. K \in S
    BY <2>1
  <2> QED
    BY <2>2 DEF S
<1>4. w = [n \in 0 .. K |-> Step(w, n)]
  <2> HIDE DEF Step
  <2> QED
    BY <1>3
<1>5. DropEmpty(values) = w[K]
  BY DEF DropEmpty
<1> HIDE DEF w
<1>6. \A n \in 0 .. K : w[n] = Step(w, n)
  <2> HIDE DEF Step
  <2> QED
    BY <1>4
<1>7. 0 \in 0 .. K /\ \A n \in 1 .. K : n \in 0 .. K /\ n # 0
  OBVIOUS
<1> QED
  BY <1>5, <1>6, <1>7

LEMMA DropEmptyKeeps ==
    ASSUME NEW values, IsList(values)
    PROVE  /\ IsList(DropEmpty(values))
           /\ \A i \in DOMAIN DropEmpty(values) : \E j \in DOMAIN values : DropEmpty(values)[i] = values[j]
           /\ (\A j \in DOMAIN values : ~Empty(values[j])) => DropEmpty(values) = values
<1> DEFINE K == Len(values)
           V == {values[j] : j \in 1 .. K}
<1>1. K \in Nat /\ DOMAIN values = 1 .. K
  BY ListIsSequence
<1>2. PICK kept : /\ kept[0] = <<>> /\ DropEmpty(values) = kept[K]
                  /\ \A n \in 1 .. K : kept[n] = IF Empty(values[n]) THEN kept[n - 1] ELSE Append(kept[n - 1], values[n])
  BY <1>1, DropSteps
<1>3. \A j \in 1 .. K : values[j] \in V
  OBVIOUS
<1>4. kept[K] \in Seq(V)
  <2> DEFINE S == {n \in 0 .. K : kept[n] \in Seq(V)}
  <2>1. 0 \in S
    <3>1. <<>> \in Seq(V)
      <4> HIDE DEF V
      <4> QED
        OBVIOUS
    <3>2. kept[0] = <<>> /\ 0 \in 0 .. K
      BY <1>1, <1>2
    <3> HIDE DEF V, K
    <3> QED
      BY <3>1, <3>2
  <2>2. ASSUME NEW n \in 1 .. K, n - 1 \in S PROVE n \in S
    <3> HIDE DEF V
    <3>1. kept[n - 1] \in Seq(V) /\ values[n] \in V
      BY <1>3, <2>2
    <3>2. Append(kept[n - 1], values[n]) \in Seq(V)
      BY <3>1
    <3>a. kept[n] = IF Empty(values[n]) THEN kept[n - 1] ELSE Append(kept[n - 1], values[n])
      BY <1>2, Zenon
    <3>b. Empty(values[n]) => kept[n] = kept[n - 1]
      BY <3>a, Zenon
    <3>c. ~Empty(values[n]) => kept[n] = Append(kept[n - 1], values[n])
      BY <3>a, Zenon
    <3>3. n \in 0 .. K
      BY <1>1
    <3>4. kept[n] \in Seq(V)
      BY <3>1, <3>2, <3>b, <3>c
    <3> QED
      BY <3>3, <3>4
  <2> HIDE DEF S
  <2>3. 0 .. K \subseteq S
    BY <1>1, <2>1, <2>2, Induction
  <2>4. K \in S
    BY <1>1, <2>3
  <2> QED
    BY <2>4 DEF S
<1>5. ASSUME \A j \in 1 .. K : ~Empty(values[j])
      PROVE  kept[K] = values
  <2> DEFINE S == {n \in 0 .. K : kept[n] \in Seq(V) /\ Len(kept[n]) = n /\ \A j \in 1 .. n : kept[n][j] = values[j]}
  <2>1. 0 \in S
    <3>1. <<>> \in Seq(V) /\ Len(<<>>) = 0
      <4> HIDE DEF V
      <4> QED
        OBVIOUS
    <3>2. kept[0] = <<>> /\ 0 \in 0 .. K
      BY <1>1, <1>2
    <3>3. kept[0] \in Seq(V) /\ Len(kept[0]) = 0 /\ \A j \in 1 .. 0 : kept[0][j] = values[j]
      <4> HIDE DEF V
      <4> QED
        BY <3>1, <3>2
    <3> HIDE DEF V, K
    <3> QED
      BY <3>2, <3>3
  <2>2. ASSUME NEW n \in 1 .. K, n - 1 \in S PROVE n \in S
    <3> HIDE DEF V
    <3> DEFINE k == kept[n - 1]
               v == values[n]
    <3>1. k \in Seq(V) /\ v \in V /\ Len(k) = n - 1 /\ \A j \in 1 .. n - 1 : k[j] = values[j]
      BY <1>3, <2>2
    <3>2. kept[n] = Append(k, v)
      BY <1>2, <1>5
    <3> HIDE DEF k
    <3>3. Append(k, v) \in Seq(V) /\ Len(Append(k, v)) = n /\ \A j \in 1 .. n : Append(k, v)[j] = values[j]
      BY <3>1
    <3> QED
      BY <3>2, <3>3
  <2> HIDE DEF S
  <2>3. 0 .. K \subseteq S
    BY <1>1, <2>1, <2>2, Induction
  <2>4. K \in S
    BY <1>1, <2>3
  <2> HIDE DEF V
  <2>5. kept[K] \in Seq(V) /\ Len(kept[K]) = K /\ \A j \in 1 .. K : kept[K][j] = values[j]
    BY <2>4 DEF S
  <2>6. kept[K] = [j \in 1 .. K |-> kept[K][j]]
    BY <2>5
  <2>7. values = [j \in 1 .. K |-> values[j]]
    <3>1. PICK X : values \in Seq(X)
      BY DEF IsList
    <3> QED
      BY <3>1
  <2> QED
    BY <2>5, <2>6, <2>7
<1>6. \A i \in DOMAIN kept[K] : \E j \in 1 .. K : kept[K][i] = values[j]
  <2> SUFFICES ASSUME NEW i \in DOMAIN kept[K] PROVE kept[K][i] \in V
    OBVIOUS
  <2> HIDE DEF V
  <2> QED
    BY <1>4
<1>7. IsList(kept[K])
  BY <1>4, SequenceIsList
<1> QED
  BY <1>1, <1>2, <1>5, <1>6, <1>7

\* The values a rule puts, if none is dropped.
MadeOf(rule, t) == [j \in DOMAIN SourceValues(rule, t) |-> Transformed(rule, SourceValues(rule, t)[j])]

\* A rule that is not broken leaves a body as it is, or puts one value in it, or
\* several where they are appended; it puts what it has when nothing of it is empty.
LEMMA RulePuts ==
    ASSUME NEW body, NEW rule, IsRule(rule), NEW t, IsTask(t), ApplyRule(body, rule, t) # Broken
    PROVE  /\ \/ ApplyRule(body, rule, t) = body
              \/ \E made : Values(made, rule.append) /\ ApplyRule(body, rule, t) = Put(body, rule.to, made, rule.append)
           /\ "when" \notin DOMAIN rule /\ (\A j \in DOMAIN SourceValues(rule, t) : ~Empty(SourceValues(rule, t)[j])) =>
                 /\ Values(MadeOf(rule, t), rule.append)
                 /\ ApplyRule(body, rule, t) = Put(body, rule.to, MadeOf(rule, t), rule.append)
<1> DEFINE when == EvalOptional(rule, "when", t.params, t.files)
           source == SourceValues(rule, t)
           values == IF OmitWhenEmpty(rule) THEN DropEmpty(source) ELSE source
           made == [i \in DOMAIN values |-> Transformed(rule, values[i])]
           applied == ApplyRule(body, rule, t)
<1>1. applied = IF when = "error" THEN Broken
                ELSE IF when = "no" THEN body
                ELSE IF rule.to = <<>> THEN Broken
                ELSE IF values = <<>> THEN body
                ELSE IF (\E i \in DOMAIN made : made[i] = Broken) \/ (Len(made) > 1 /\ ~rule.append) THEN Broken
                ELSE Put(body, rule.to, made, rule.append)
  BY DEF ApplyRule
<1>2. IsList(source) /\ Len(source) # 0 /\ \A i \in DOMAIN source : Tidy(source[i])
  BY SourceIsList
<1>a. MadeOf(rule, t) = [j \in DOMAIN source |-> Transformed(rule, source[j])]
  BY DEF MadeOf
<1> HIDE DEF source
<1>3. IsList(values) /\ \A i \in DOMAIN values : Tidy(values[i])
  BY <1>2, DropEmptyKeeps
<1>4. (\A j \in DOMAIN source : ~Empty(source[j])) => values = source
  BY <1>2, DropEmptyKeeps
<1>5. "when" \notin DOMAIN rule => when = "yes"
  BY DEF EvalOptional
<1> HIDE DEF values, when
<1>6. Len(values) \in Nat /\ DOMAIN values = 1 .. Len(values) /\ (values # <<>> => Len(values) # 0)
  BY <1>3, ListIsSequence
<1>7. IsList(made) /\ Len(made) = Len(values) /\ \A i \in DOMAIN made : Tidy(made[i])
  <2> DEFINE L == Len(values)
  <2>1. made = [i \in 1 .. L |-> made[i]] /\ \A i \in 1 .. L : made[i] = Transformed(rule, values[i])
    BY <1>6
  <2>2. \A i \in 1 .. L : Tidy(Transformed(rule, values[i]))
    BY <1>3, <1>6, TransformedIsTidy
  <2> HIDE DEF made
  <2>3. IsList(made) /\ Len(made) = L /\ DOMAIN made = 1 .. L
    BY <1>6, <2>1, ListOfPlaces
  <2> QED
    BY <2>1, <2>2, <2>3
<1>8. (\A j \in DOMAIN source : ~Empty(source[j])) => made = MadeOf(rule, t)
  BY <1>4, <1>a
<1>9. applied # Broken
  OBVIOUS
<1> SUFFICES /\ \/ applied = body
                \/ \E m : Values(m, rule.append) /\ applied = Put(body, rule.to, m, rule.append)
             /\ "when" \notin DOMAIN rule /\ (\A j \in DOMAIN source : ~Empty(source[j])) =>
                   /\ Values(MadeOf(rule, t), rule.append)
                   /\ applied = Put(body, rule.to, MadeOf(rule, t), rule.append)
  BY DEF source
<1> HIDE DEF applied, made
<1>10. CASE when # "error" /\ ~(when = "no" \/ values = <<>>)
  <2>1. ~(\E i \in DOMAIN made : made[i] = Broken) /\ ~(Len(made) > 1 /\ ~rule.append)
        /\ applied = Put(body, rule.to, made, rule.append)
    BY <1>1, <1>9, <1>10
  <2>2. Len(made) # 0 /\ (rule.append \/ Len(made) = 1)
    BY <1>6, <1>7, <1>10, <2>1
  <2>3. Values(made, rule.append)
    BY <1>7, <2>2 DEF Values
  <2> QED
    BY <1>8, <2>1, <2>3
<1>11. CASE when = "no" \/ values = <<>>
  <2>1. when # "error" /\ (when = "no" \/ rule.to # <<>>)
    BY <1>1, <1>9
  <2>2. applied = body
    BY <1>1, <1>11, <2>1
  <2>3. ~("when" \notin DOMAIN rule /\ (\A j \in DOMAIN source : ~Empty(source[j])))
    <3>1. values = <<>> => Len(values) = 0
      OBVIOUS
    <3> QED
      BY <1>2, <1>4, <1>5, <1>11, <3>1
  <2> QED
    BY <2>2, <2>3
<1> QED
  BY <1>1, <1>9, <1>10, <1>11

LEMMA FoundIsTidy ==
    ASSUME NEW body, Tidy(body), NEW path, Len(path) \in Nat
    PROVE  Tidy(Found(body, path))
<1>1. \A n \in 0 .. Len(path) : Tidy(Walk(body, path)[n])
  BY WalkIsTidy
<1>2. Len(path) \in 0 .. Len(path)
  OBVIOUS
<1>3. Tidy(Walk(body, path)[Len(path)])
  BY <1>1, <1>2
<1> QED
  BY <1>3 DEF Found

LEMMA RuleIsTidy ==
    ASSUME NEW body, Tidy(body), NEW rule, IsRule(rule), NEW t, IsTask(t), ApplyRule(body, rule, t) # Broken
    PROVE  Tidy(ApplyRule(body, rule, t))
<1>1. CASE ApplyRule(body, rule, t) = body
  BY <1>1
<1>2. ASSUME NEW made, Values(made, rule.append), ApplyRule(body, rule, t) = Put(body, rule.to, made, rule.append)
      PROVE  Tidy(ApplyRule(body, rule, t))
  <2> DEFINE there == Found(body, rule.to)
  <2>1. Len(rule.to) \in Nat /\ rule.append \in BOOLEAN
    BY ListIsSequence DEF IsRule
  <2>2. Tidy(there)
    BY <2>1, FoundIsTidy
  <2>3. AtEnd(there, made, rule.append) # Broken /\
        (Tidy(AtEnd(there, made, rule.append)) => Tidy(Put(body, rule.to, made, rule.append)))
    BY <1>2, <2>1, PutFound
  <2> HIDE DEF there
  <2>4. Tidy(AtEnd(there, made, rule.append))
    BY <1>2, <2>1, <2>2, <2>3, EndIsTidy
  <2> QED
    BY <1>2, <2>3, <2>4
<1> QED
  BY <1>1, <1>2, RulePuts

\* Two paths part at a first place.
LEMMA PathsPart ==
    ASSUME NEW p, IsList(p), NEW q, IsList(q), NEW n \in Nat, n <= Len(p), n <= Len(q),
           SubSeq(p, 1, n) # SubSeq(q, 1, n)
    PROVE  \E m \in 1 .. n : (\A i \in 1 .. m - 1 : p[i] = q[i]) /\ p[m] # q[m]
<1>1. PICK P : p \in Seq(P)
  BY DEF IsList
<1>2. PICK Q : q \in Seq(Q)
  BY DEF IsList
<1> DEFINE a == SubSeq(p, 1, n)
           b == SubSeq(q, 1, n)
           D == {i \in 1 .. n : p[i] # q[i]}
<1>3. a \in Seq(P) /\ Len(a) = n /\ \A i \in 1 .. n : a[i] = p[i]
  BY <1>1
<1>4. b \in Seq(Q) /\ Len(b) = n /\ \A i \in 1 .. n : b[i] = q[i]
  BY <1>2
<1>5. a # b
  OBVIOUS
<1>6. D # {}
  <2> SUFFICES ASSUME \A i \in 1 .. n : p[i] = q[i] PROVE a = b
    BY <1>5
  <2> HIDE DEF a, b
  <2>1. a = [i \in 1 .. n |-> a[i]]
    BY <1>3
  <2>2. b = [i \in 1 .. n |-> b[i]]
    BY <1>4
  <2> QED
    BY <1>3, <1>4, <2>1, <2>2
<1>7. PICK m \in D : \A i \in D : m <= i
  <2>1. D \in SUBSET Nat
    OBVIOUS
  <2> HIDE DEF D
  <2> QED
    BY <1>6, <2>1, LeastNumber
<1>8. \A i \in 1 .. m - 1 : i \in 1 .. n /\ ~(m <= i)
  BY <1>7
<1> QED
  BY <1>7, <1>8

\* Render applies one rule after the other.
LEMMA RenderSteps ==
    ASSUME NEW mapping, Len(mapping.rules) \in Nat, NEW t
    PROVE  \E body :
              /\ body[0] = mapping.template /\ Render(mapping, t) = body[Len(mapping.rules)]
              /\ \A i \in 1 .. Len(mapping.rules) :
                    body[i] = IF body[i - 1] = Broken THEN Broken ELSE ApplyRule(body[i - 1], mapping.rules[i], t)
<1> DEFINE K == Len(mapping.rules)
           Step(g, n) == IF n = 0 THEN mapping.template
                         ELSE IF g[n - 1] = Broken THEN Broken
                         ELSE ApplyRule(g[n - 1], mapping.rules[n], t)
           S == {k \in 0 .. K : \E g : g = [n \in 0 .. k |-> Step(g, n)]}
           w == CHOOSE g : g = [n \in 0 .. K |-> Step(g, n)]
<1>1. 0 \in S
  <2> DEFINE h == [n \in 0 .. 0 |-> mapping.template]
  <2>1. h = [n \in 0 .. 0 |-> Step(h, n)]
    OBVIOUS
  <2> HIDE DEF h, Step
  <2>2. \E g : g = [n \in 0 .. 0 |-> Step(g, n)]
    BY <2>1
  <2> QED
    BY <2>2
<1>2. ASSUME NEW k \in 1 .. K, k - 1 \in S PROVE k \in S
  <2>1. PICK g : g = [n \in 0 .. k - 1 |-> Step(g, n)]
    BY <1>2
  <2> DEFINE h == [n \in 0 .. k |->
                     IF n = k THEN IF g[k - 1] = Broken THEN Broken ELSE ApplyRule(g[k - 1], mapping.rules[k], t)
                     ELSE g[n]]
  <2>2. ASSUME NEW n \in 0 .. k PROVE h[n] = Step(h, n)
    <3>1. CASE n = 0
      BY <2>1, <3>1
    <3>2. CASE n = k
      BY <3>2
    <3>3. CASE n # 0 /\ n # k
      <4>1. n \in 0 .. k - 1 /\ n - 1 \in 0 .. k /\ n - 1 # k
        BY <3>3
      <4>2. h[n] = g[n] /\ h[n - 1] = g[n - 1]
        BY <3>3, <4>1
      <4>3. g[n] = Step(g, n)
        <5> HIDE DEF Step
        <5> QED
          BY <2>1, <4>1
      <4> HIDE DEF h
      <4> QED
        BY <3>3, <4>2, <4>3
    <3> QED
      BY <3>1, <3>2, <3>3
  <2>3. h = [n \in 0 .. k |-> Step(h, n)]
    <3> HIDE DEF Step
    <3>1. h = [n \in 0 .. k |-> h[n]]
      OBVIOUS
    <3> HIDE DEF h
    <3> QED
      BY <2>2, <3>1
  <2> HIDE DEF h, Step
  <2>4. \E x : x = [n \in 0 .. k |-> Step(x, n)]
    BY <2>3
  <2> QED
    BY <2>4
<1>3. \E g : g = [n \in 0 .. K |-> Step(g, n)]
  <2> HIDE DEF S
  <2>1. 0 .. K \subseteq S
    BY <1>1, <1>2, Induction
  <2>2. K \in S
    BY <2>1
  <2> QED
    BY <2>2 DEF S
<1>4. w = [n \in 0 .. K |-> Step(w, n)]
  <2> HIDE DEF Step
  <2> QED
    BY <1>3
<1>5. Render(mapping, t) = w[K]
  BY DEF Render
<1> HIDE DEF w
<1>6. \A n \in 0 .. K : w[n] = Step(w, n)
  <2> HIDE DEF Step
  <2> QED
    BY <1>4
<1>7. 0 \in 0 .. K /\ \A n \in 1 .. K : n \in 0 .. K /\ n # 0
  OBVIOUS
<1> QED
  BY <1>5, <1>6, <1>7

\* Later writes the path of a rule leave alone, or append to it.
Apart(p, q, both) ==
    LET n == IF Len(p) < Len(q) THEN Len(p) ELSE Len(q)
    IN  SubSeq(p, 1, n) # SubSeq(q, 1, n) \/ (p = q /\ both)

\* What a rule put stays where it is when another rule is applied.
LEMMA PutStays ==
    ASSUME NEW body, Tidy(body), NEW rule, IsRule(rule), NEW made, Values(made, rule.append),
           Stands(Found(body, rule.to), rule.append, made),
           NEW other, IsRule(other), NEW t, IsTask(t), ApplyRule(body, other, t) # Broken,
           Apart(rule.to, other.to, rule.append /\ other.append)
    PROVE  Stands(Found(ApplyRule(body, other, t), rule.to), rule.append, made)
<1> DEFINE p == rule.to
           q == other.to
           after == ApplyRule(body, other, t)
<1>1. CASE after = body
  BY <1>1
<1>2. ASSUME NEW more, Values(more, other.append), after = Put(body, q, more, other.append)
      PROVE  Stands(Found(after, p), rule.append, made)
  <2>1. IsList(p) /\ IsList(q) /\ Len(p) \in Nat /\ Len(q) \in Nat
    BY ListIsSequence DEF IsRule
  <2>2. Put(body, q, more, other.append) # Broken
    BY <1>2
  <2>3. CASE p = q /\ rule.append /\ other.append
    <3> DEFINE there == Found(body, q)
    <3>1. Tidy(there)
      BY <2>1, FoundIsTidy
    <3>2. Found(after, q) = AtEnd(there, more, other.append)
      BY <1>2, <2>1, <2>2, PutFound
    <3>3. rule.append = TRUE /\ other.append = TRUE
      BY <2>3 DEF IsRule
    <3>4. Stands(there, TRUE, made) /\ Values(more, TRUE) /\ IsList(made)
      BY <1>2, <2>3, <3>3 DEF Values
    <3> HIDE DEF there
    <3>5. Stands(AtEnd(there, more, TRUE), TRUE, made)
      BY <3>1, <3>4, EndStays
    <3> QED
      BY <2>3, <3>2, <3>3, <3>5
  <2>4. CASE ~(p = q /\ rule.append /\ other.append)
    <3> DEFINE n == IF Len(p) < Len(q) THEN Len(p) ELSE Len(q)
    <3>1. n \in Nat /\ n <= Len(p) /\ n <= Len(q)
      BY <2>1
    <3>2. SubSeq(p, 1, n) # SubSeq(q, 1, n)
      BY <2>4 DEF Apart
    <3> HIDE DEF n, p, q
    <3>3. PICK m \in 1 .. n : (\A i \in 1 .. m - 1 : p[i] = q[i]) /\ p[m] # q[m]
      BY <2>1, <3>1, <3>2, PathsPart
    <3>4. m \in 1 .. Len(p) /\ m <= Len(q)
      BY <2>1, <3>1
    <3> HIDE DEF p, q, after
    <3>5. Found(Put(body, q, more, other.append), p) = Found(body, p)
      BY <2>1, <2>2, <3>3, <3>4, PutElsewhere
    <3> QED
      BY <1>2, <3>5 DEF p
  <2> QED
    BY <2>3, <2>4
<1> QED
  BY <1>1, <1>2, RulePuts

\* What a rule without a condition puts is in the rendered body, if none of it is
\* empty and no later rule writes over it.
LEMMA RenderKeeps ==
    ASSUME NEW mapping, IsMapping(mapping), NEW t, IsTask(t), Render(mapping, t) # Broken,
           NEW i \in DOMAIN mapping.rules, "when" \notin DOMAIN mapping.rules[i], Undisturbed(mapping, i),
           \A j \in DOMAIN SourceValues(mapping.rules[i], t) : ~Empty(SourceValues(mapping.rules[i], t)[j])
    PROVE  Arrived(Render(mapping, t), mapping.rules[i], MadeOf(mapping.rules[i], t))
<1> DEFINE rules == mapping.rules
           L == Len(rules)
           rule == rules[i]
           made == MadeOf(rule, t)
<1>1. L \in Nat /\ DOMAIN rules = 1 .. L
  BY ListIsSequence DEF IsMapping
<1>2. \A n \in 1 .. L : IsRule(rules[n])
  BY <1>1 DEF IsMapping, IsRule
<1>3. Tidy(mapping.template)
  BY LiteralIsTidy DEF IsMapping
<1>4. PICK b : /\ b[0] = mapping.template /\ Render(mapping, t) = b[L]
               /\ \A n \in 1 .. L : b[n] = IF b[n - 1] = Broken THEN Broken ELSE ApplyRule(b[n - 1], rules[n], t)
  BY <1>1, RenderSteps
<1>a. b[L] # Broken
  BY <1>4
<1>b. "when" \notin DOMAIN rule /\ \A j \in DOMAIN SourceValues(rule, t) : ~Empty(SourceValues(rule, t)[j])
  OBVIOUS
<1>c. ASSUME NEW n \in 1 .. L, n > i
      PROVE  Apart(rule.to, rules[n].to, rule.append /\ rules[n].append)
  BY <1>1, <1>c DEF Undisturbed, Apart
<1>d. i \in 1 .. L
  BY <1>1
<1> SUFFICES Arrived(b[L], rule, made)
  BY <1>4
<1> HIDE DEF rule, made, rules, L
<1>5. \A n \in 0 .. L : b[n] # Broken
  <2> DEFINE S == {n \in 0 .. L : b[L - n] # Broken}
  <2>1. 0 \in S
    BY <1>1, <1>a
  <2>2. ASSUME NEW n \in 1 .. L, n - 1 \in S PROVE n \in S
    <3> DEFINE m == L - n + 1
    <3>1. m \in 1 .. L /\ L - (n - 1) = m /\ m - 1 = L - n /\ n \in 0 .. L
      BY <1>1
    <3> HIDE DEF m
    <3>2. b[m - 1] # Broken
      BY <1>4, <2>2, <3>1
    <3> QED
      BY <3>1, <3>2
  <2> HIDE DEF S
  <2>3. 0 .. L \subseteq S
    BY <1>1, <2>1, <2>2, Induction
  <2> SUFFICES ASSUME NEW n \in 0 .. L PROVE b[n] # Broken
    OBVIOUS
  <2>4. L - n \in 0 .. L /\ L - (L - n) = n
    BY <1>1
  <2>5. b[L - (L - n)] # Broken
    BY <2>3, <2>4 DEF S
  <2> QED
    BY <2>4, <2>5
<1>6. \A n \in 1 .. L : n - 1 \in 0 .. L /\ b[n] = ApplyRule(b[n - 1], rules[n], t) /\ b[n] # Broken
  <2>1. \A n \in 1 .. L : n - 1 \in 0 .. L /\ n \in 0 .. L
    BY <1>1
  <2> QED
    BY <1>4, <1>5, <2>1
<1>7. \A n \in 0 .. L : Tidy(b[n])
  <2> DEFINE S == {n \in 0 .. L : Tidy(b[n])}
  <2>1. 0 \in S
    BY <1>1, <1>3, <1>4
  <2>2. \A n \in 1 .. L : n - 1 \in S => n \in S
    <3> SUFFICES ASSUME NEW n \in 1 .. L, n - 1 \in S PROVE n \in S
      OBVIOUS
    <3>1. Tidy(b[n - 1]) /\ IsRule(rules[n]) /\ ApplyRule(b[n - 1], rules[n], t) # Broken
      BY <1>2, <1>6
    <3>2. Tidy(ApplyRule(b[n - 1], rules[n], t))
      BY <3>1, RuleIsTidy
    <3> QED
      BY <1>6, <3>2
  <2> HIDE DEF S
  <2>3. 0 .. L \subseteq S
    BY <1>1, <2>1, <2>2, Induction
  <2> QED
    BY <2>3 DEF S
<1>8. IsRule(rule)
  BY <1>2, <1>d DEF rule
<1>9. b[i] = ApplyRule(b[i - 1], rule, t) /\ ApplyRule(b[i - 1], rule, t) # Broken /\ Tidy(b[i - 1])
  BY <1>6, <1>7, <1>d DEF rule
<1>10. Values(made, rule.append) /\ b[i] = Put(b[i - 1], rule.to, made, rule.append)
  <2>1. Values(MadeOf(rule, t), rule.append) /\ ApplyRule(b[i - 1], rule, t) = Put(b[i - 1], rule.to, MadeOf(rule, t), rule.append)
    BY <1>8, <1>9, <1>b, RulePuts
  <2> QED
    BY <1>9, <2>1 DEF made
<1>11. Stands(Found(b[i], rule.to), rule.append, made)
  <2> DEFINE there == Found(b[i - 1], rule.to)
  <2>1. Len(rule.to) \in Nat /\ rule.append \in BOOLEAN
    BY <1>8, ListIsSequence DEF IsRule
  <2>2. Tidy(there)
    BY <1>9, <2>1, FoundIsTidy
  <2>3. AtEnd(there, made, rule.append) # Broken /\ Found(b[i], rule.to) = AtEnd(there, made, rule.append)
    BY <1>9, <1>10, <2>1, PutFound
  <2> HIDE DEF there
  <2> QED
    BY <1>10, <2>1, <2>2, <2>3, EndHolds
<1>12. Stands(Found(b[L], rule.to), rule.append, made)
  <2> DEFINE R == L - i
             S == {n \in 0 .. R : Stands(Found(b[i + n], rule.to), rule.append, made)}
  <2>0. R \in Nat /\ i + 0 = i /\ i + R = L
    BY <1>1, <1>d
  <2>1. 0 \in S
    BY <1>11, <2>0
  <2>2. ASSUME NEW n \in 1 .. R, n - 1 \in S PROVE n \in S
    <3> DEFINE k == i + n
    <3>1. k \in 1 .. L /\ k > i /\ k - 1 = i + (n - 1)
      BY <1>1, <1>d
    <3> HIDE DEF k
    <3>2. Stands(Found(b[k - 1], rule.to), rule.append, made)
      BY <2>2, <3>1
    <3>3. /\ Tidy(b[k - 1]) /\ IsRule(rules[k]) /\ b[k] = ApplyRule(b[k - 1], rules[k], t) /\ b[k] # Broken
          /\ Apart(rule.to, rules[k].to, rule.append /\ rules[k].append)
      BY <1>2, <1>6, <1>7, <1>c, <3>1
    <3>4. Stands(Found(b[k], rule.to), rule.append, made)
      BY <1>8, <1>10, <3>2, <3>3, PutStays
    <3> QED
      BY <3>4 DEF k
  <2> HIDE DEF S, R
  <2>3. 0 .. R \subseteq S
    BY <2>0, <2>1, <2>2, Induction
  <2>4. R \in S
    BY <2>0, <2>3
  <2> QED
    BY <2>0, <2>4 DEF S
<1> QED
  BY <1>12 DEF Arrived, Stands, Contains

\* What a rendered request is made from: of a configuration that is stored, for a task as it was made.
SentInv ==
    /\ form # NoForm => config # NoConfig
    /\ task.answer = "accepted" => IsTask(task) /\ config # NoConfig
    /\ task.answer = "none" => sent = NotSent
    /\ NothingSwallowed

LEMMA SentInvInit == OfferInit => SentInv
BY DEF OfferInit, SentInv, NothingSwallowed, NoTask, NotSent

\* Neither the task nor the request changes.
LEMMA SentUnchangedKeeps ==
    ASSUME SentInv, UNCHANGED <<task, sent>>, config # NoConfig => config' # NoConfig, form' # NoForm => config' # NoConfig
    PROVE  SentInv'
BY DEF SentInv, NothingSwallowed

LEMMA SendFormSent ==
    ASSUME OfferInv, SentInv, SendForm
    PROVE  SentInv'
<1> DEFINE params == SubmitParams(form.schema, form.values, form.files)
<1>1. FormHolds(form) /\ task = NoTask /\ sent = NotSent /\ config # NoConfig
  BY DEF OfferInv, SentInv, SendForm, NoTask
<1>2. /\ task'.params = params /\ task'.files = form.files /\ task'.prompt = Text("prompt")
      /\ task'.answer \in {"refused", "unpriced", "accepted"}
      /\ UNCHANGED <<config, form, sent>>
  BY DEF SendForm
<1>3. \A k \in DOMAIN params : IsJson(params[k])
  BY <1>1 DEF FormHolds, SubmitParams
<1>4. \A s \in DOMAIN form.files : Len(form.files[s]) \in Nat
  BY <1>1 DEF FormHolds
<1> HIDE DEF params
<1>5. IsTask(task')
  BY <1>2, <1>3, <1>4 DEF IsTask
<1>6. NothingSwallowed'
  BY <1>1, <1>2 DEF NothingSwallowed, NotSent
<1> QED
  BY <1>1, <1>2, <1>5, <1>6 DEF SentInv

LEMMA RenderBodySent ==
    ASSUME OfferInv, SentInv, RenderBody
    PROVE  SentInv'
<1> DEFINE mapping == config.mapping
<1>1. task.answer = "accepted" /\ IsTask(task) /\ config # NoConfig /\ config \in Drafts
  BY DEF OfferInv, SentInv, RenderBody
<1>2. IsMapping(mapping)
  BY <1>1, OfferAssumption DEF OfferAssumption
<1>3. UNCHANGED <<config, form, task>> /\ sent'.by = mapping /\ sent'.body \in {Render(mapping, task), Broken}
  BY DEF RenderBody
<1> HIDE DEF mapping
<1>4. NothingSwallowed'
  <2> SUFFICES ASSUME sent'.body \notin {Nil, Broken}, NEW i \in DOMAIN mapping.rules,
                      "when" \notin DOMAIN mapping.rules[i], "const" \notin DOMAIN mapping.rules[i],
                      Undisturbed(mapping, i),
                      \A j \in DOMAIN SourceValues(mapping.rules[i], task) :
                          SourceValues(mapping.rules[i], task)[j] \notin {Nil, Text("")}
               PROVE  Arrived(sent'.body, mapping.rules[i], MadeOf(mapping.rules[i], task))
    BY <1>3 DEF NothingSwallowed, MadeOf
  <2>1. sent'.body = Render(mapping, task) /\ Render(mapping, task) # Broken
    BY <1>3
  <2>2. \A j \in DOMAIN SourceValues(mapping.rules[i], task) : ~Empty(SourceValues(mapping.rules[i], task)[j])
    <3> DEFINE source == SourceValues(mapping.rules[i], task)
    <3>1. IsRule(mapping.rules[i])
      BY <1>2 DEF IsMapping, IsRule
    <3>2. \A j \in DOMAIN source : source[j][1] \notin {"list", "obj"}
      BY <1>1, <3>1, SourceIsList
    <3>3. \A j \in DOMAIN source : source[j] \notin {Nil, Text("")}
      OBVIOUS
    <3> HIDE DEF source
    <3>4. List(<<>>)[1] = "list" /\ Object(<<>>)[1] = "obj"
      BY DEF List, Object
    <3>5. \A j \in DOMAIN source : ~Empty(source[j])
      BY <3>2, <3>3, <3>4 DEF Empty
    <3> QED
      BY <3>5 DEF source
  <2> QED
    BY <1>1, <1>2, <2>1, <2>2, RenderKeeps
<1> QED
  BY <1>1, <1>3, <1>4 DEF SentInv

LEMMA SentInvKept == OfferInv /\ SentInv /\ [OfferNext]_offerVars => SentInv'
<1> SUFFICES ASSUME OfferInv, SentInv, [OfferNext]_offerVars
             PROVE  SentInv'
  OBVIOUS
<1>0. form # NoForm => config # NoConfig
  BY DEF SentInv
<1>1. ASSUME NEW d \in IF config = NoConfig THEN Drafts ELSE Revisions, StoreModel(d)
      PROVE  SentInv'
  <2>1. d # NoConfig
    BY OfferAssumption DEF OfferAssumption
  <2> QED
    BY <1>1, <2>1, SentUnchangedKeeps DEF StoreModel
<1>2. CASE SelectModel
  BY <1>2, SentUnchangedKeeps DEF SelectModel
<1>3. ASSUME form # NoForm, NEW k \in LeafKeys(form.schema.params), SetValue(k)
      PROVE  SentInv'
  BY <1>0, <1>3, SentUnchangedKeeps DEF SetValue
<1>4. ASSUME form # NoForm, NEW slot \in Keys(form.schema.inputs), SetFiles(slot)
      PROVE  SentInv'
  BY <1>0, <1>4, SentUnchangedKeeps DEF SetFiles
<1>5. CASE SendForm
  BY <1>5, SendFormSent
<1>6. CASE RenderBody
  BY <1>6, RenderBodySent
<1>7. CASE UNCHANGED offerVars
  BY <1>0, <1>7, SentUnchangedKeeps DEF offerVars
<1> QED
  BY <1>1, <1>2, <1>3, <1>4, <1>5, <1>6, <1>7 DEF OfferNext

\* Whatever the user chose reaches the provider if a rule without a condition names
\* it and no later rule writes over it, for any mapping: any rules, paths, casts,
\* templates and literals (Render, applyRule, setPath, appendPath).
THEOREM NothingIsSwallowed == OfferSpec => []NothingSwallowed
<1>1. SentInv => NothingSwallowed
  BY DEF SentInv
<1> QED
  BY <1>1, SentInvInit, SentInvKept, OfferAlways, PTL DEF OfferSpec
=============================================================================
