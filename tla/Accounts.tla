------------------------------ MODULE Accounts ------------------------------
(***************************************************************************)
(* The rows of users: an administrator changes role and status of a user   *)
(* (handleAdminUpdateUser behind auth and adminOnly), a user changes the   *)
(* password (handleChangePassword) or logs in, which hashes the password   *)
(* anew when the stored hash is of an old kind (handleLogin).  Every       *)
(* handler reads the row, decides, and writes what it has read back with   *)
(* its change; no statement is conditional on what was read.               *)
(***************************************************************************)
EXTENDS Integers, FiniteSets

CONSTANTS
    Users,
    Admin0,         \* the users that are administrators at the start
    Passwords,
    Handlers,       \* requests that are under way at a time
    MaxChanges      \* bound: writes

ASSUME AccountsAssumption == Admin0 \subseteq Users /\ Admin0 # {} /\ MaxChanges \in Nat

VARIABLES
    user,       \* user[u]: the row
    act,        \* act[h]: a request
    changes,    \* writes so far
    robbed,     \* history: requests whose caller lost the role while they were under way
    late,       \* history: a request wrote although it was robbed
    answered,   \* history: answered[u] is the password of the last change answered with 204
    crossed     \* history: two requests about one password have overlapped

accountsVars == <<user, act, changes, robbed, late, answered, crossed>>

Roles == {"user", "admin"}
Standings == {"active", "disabled"}

\* old: the hash has fewer iterations than the code asks for now (NeedsRehash).
Row == [role : Roles, status : Standings, password : Passwords, old : BOOLEAN]

Resting == "idle"
Idle == [pc |-> Resting]

AccountsInit ==
    /\ \E p \in Passwords :
          /\ user = [u \in Users |-> [role |-> IF u \in Admin0 THEN "admin" ELSE "user", status |-> "active",
                                      password |-> p, old |-> TRUE]]
          /\ answered = [u \in Users |-> p]
    /\ act = [h \in Handlers |-> Idle]
    /\ changes = 0
    /\ robbed = {}
    /\ late = FALSE
    /\ crossed = {}

\* auth reads the row of the token's user, adminOnly the role it found there.
MayLogIn(u) == user[u].status = "active"
MayAdminister(u) == MayLogIn(u) /\ user[u].role = "admin"

Do(h, a) == act' = [act EXCEPT ![h] = a]

\* A change of the password, or a log-in that may hash again, is under way for u.
OnPassword(u) == {h \in Handlers : act[h].pc \in {"get", "rehash", "change"} /\ act[h].caller = u}

----------------------------------------------------------------------------
(* handleAdminUpdateUser.                                                  *)

Authorize(h, caller, target) ==
    /\ act[h].pc = Resting
    /\ MayAdminister(caller)
    /\ Do(h, [pc |-> "read", caller |-> caller, target |-> target])
    /\ robbed' = robbed \ {h}
    /\ UNCHANGED <<user, changes, late, answered, crossed>>

\* A mutant: nobody looks at who is asking.
DecideFreely(h) ==
    /\ act[h].pc = "read"
    /\ \E role \in Roles, status \in Standings :
          Do(h, [pc |-> "update", caller |-> act[h].caller, target |-> act[h].target,
                 role |-> role, status |-> status])
    /\ UNCHANGED <<user, changes, robbed, late, answered, crossed>>

\* What the request leaves out stays as it was read.
Decide(h) ==
    /\ act[h].pc = "read"
    /\ LET caller == act[h].caller
           target == act[h].target
           read == user[target]
       IN  \E role \in Roles, status \in Standings :
              IF read.role = "admin" /\ caller = target /\ (role # "admin" \/ status # "active")
              THEN Do(h, Idle)
              ELSE Do(h, [pc |-> "update", caller |-> caller, target |-> target,
                          role |-> role, status |-> status])
    /\ UNCHANGED <<user, changes, robbed, late, answered, crossed>>

UpdateProfile(h) ==
    /\ act[h].pc = "update"
    /\ changes < MaxChanges
    /\ changes' = changes + 1
    /\ LET t == act[h].target IN
       /\ user' = [user EXCEPT ![t].role = act[h].role, ![t].status = act[h].status]
       /\ robbed' = IF act[h].role = "admin" /\ act[h].status = "active" THEN robbed
                    ELSE robbed \cup {g \in Handlers : act[g].pc \in {"read", "update"} /\ act[g].caller = t}
    /\ late' = (late \/ h \in robbed)
    /\ Do(h, Idle)
    /\ UNCHANGED <<answered, crossed>>

----------------------------------------------------------------------------
(* handleLogin and handleChangePassword.                                   *)

\* The password is the one in the row, the account is not disabled.
LogIn(h, u) ==
    /\ act[h].pc = Resting
    /\ MayLogIn(u)
    /\ IF user[u].old
       THEN /\ Do(h, [pc |-> "rehash", caller |-> u, new |-> user[u].password])
            /\ crossed' = IF OnPassword(u) = {} THEN crossed ELSE crossed \cup {u}
       ELSE UNCHANGED <<act, crossed>>
    /\ UNCHANGED <<user, changes, robbed, late, answered>>

\* UpdatePassword with the hash of the password that was typed.
Rehash(h) ==
    /\ act[h].pc = "rehash"
    /\ changes < MaxChanges
    /\ changes' = changes + 1
    /\ user' = [user EXCEPT ![act[h].caller].password = act[h].new, ![act[h].caller].old = FALSE]
    /\ Do(h, Idle)
    /\ UNCHANGED <<robbed, late, answered, crossed>>

\* auth has let the request through; the row is read after that.
AskChange(h, u, old, new) ==
    /\ act[h].pc = Resting
    /\ MayLogIn(u)
    /\ Do(h, [pc |-> "get", caller |-> u, old |-> old, new |-> new])
    /\ crossed' = IF OnPassword(u) = {} THEN crossed ELSE crossed \cup {u}
    /\ UNCHANGED <<user, changes, robbed, late, answered>>

\* The password in the row is the old one the request names.
Compare(h) ==
    /\ act[h].pc = "get"
    /\ IF user[act[h].caller].password = act[h].old
       THEN Do(h, [act[h] EXCEPT !.pc = "change"])
       ELSE Do(h, Idle)
    /\ UNCHANGED <<user, changes, robbed, late, answered, crossed>>

\* A mutant: the hash of the old password is stored.
ChangeToOld(h) ==
    /\ act[h].pc = "change"
    /\ changes < MaxChanges
    /\ changes' = changes + 1
    /\ LET u == act[h].caller IN
       /\ user' = [user EXCEPT ![u].password = act[h].old, ![u].old = FALSE]
       /\ answered' = [answered EXCEPT ![u] = act[h].new]
    /\ Do(h, Idle)
    /\ UNCHANGED <<robbed, late, crossed>>

ChangePassword(h) ==
    /\ act[h].pc = "change"
    /\ changes < MaxChanges
    /\ changes' = changes + 1
    /\ LET u == act[h].caller IN
       /\ user' = [user EXCEPT ![u].password = act[h].new, ![u].old = FALSE]
       /\ answered' = [answered EXCEPT ![u] = act[h].new]
    /\ Do(h, Idle)
    /\ UNCHANGED <<robbed, late, crossed>>

AccountsNext ==
    \E h \in Handlers :
        \/ \E u, v \in Users : Authorize(h, u, v)
        \/ Decide(h) \/ UpdateProfile(h)
        \/ \E u \in Users : LogIn(h, u)
        \/ Rehash(h)
        \/ \E u \in Users, p, q \in Passwords : AskChange(h, u, p, q)
        \/ Compare(h) \/ ChangePassword(h)

AccountsSpec == AccountsInit /\ [][AccountsNext]_accountsVars

----------------------------------------------------------------------------
(* Properties.                                                             *)

\* There is always somebody who may administer, unless a request was carried out
\* for a caller who lost the role after auth had let it through: administrators
\* cannot demote themselves, but two can demote each other (handleAdminUpdateUser).
SomeAdminLeft == late \/ \E u \in Users : MayAdminister(u)

\* The password in the row is the last one a change was answered for, unless two
\* requests about it overlapped: then a log-in may write the hash of the password
\* that has just been replaced (handleLogin, handleChangePassword).
PasswordAsAnswered == \A u \in Users \ crossed : user[u].password = answered[u]
=============================================================================
