--------------------------- MODULE CreditAccounts ---------------------------
(***************************************************************************)
(* What internal/billing promises, without rows, caches or transactions:   *)
(* money a user deposits is frozen for a task, and the task gives some of  *)
(* it back exactly once.  What it keeps is what the user has paid.         *)
(***************************************************************************)
EXTENDS Integers

CONSTANTS Users, Tasks, Owner, HoldAmounts, TopupAmounts

VARIABLES
    available,  \* available[u]: what u may still spend
    frozen,     \* frozen[t]: what the hold of t took, NotHeld before it
    returned,   \* returned[t]: what came back of it
    closed      \* the tasks whose settlement is final

vars == <<available, frozen, returned, closed>>

NotHeld == -1

Frozen(t) == IF frozen[t] = NotHeld THEN 0 ELSE frozen[t]

Init ==
    /\ available = [u \in Users |-> 0]
    /\ frozen = [t \in Tasks |-> NotHeld]
    /\ returned = [t \in Tasks |-> 0]
    /\ closed = {}

Deposit(u, amount) ==
    /\ available' = [available EXCEPT ![u] = @ + amount]
    /\ UNCHANGED <<frozen, returned, closed>>

Freeze(t, amount) ==
    /\ frozen[t] = NotHeld
    /\ available[Owner[t]] >= amount
    /\ available' = [available EXCEPT ![Owner[t]] = @ - amount]
    /\ frozen' = [frozen EXCEPT ![t] = amount]
    /\ UNCHANGED <<returned, closed>>

\* Charge and refund differ only in how much of the hold comes back.
Close(t, back) ==
    /\ t \notin closed
    /\ available' = [available EXCEPT ![Owner[t]] = @ + back]
    /\ returned' = [returned EXCEPT ![t] = back]
    /\ closed' = closed \cup {t}
    /\ UNCHANGED frozen

Next ==
    \/ \E u \in Users, a \in TopupAmounts : Deposit(u, a)
    \/ \E t \in Tasks, a \in HoldAmounts : Freeze(t, a)
    \/ \E t \in Tasks : \E back \in 0 .. Frozen(t) : Close(t, back)

Spec == Init /\ [][Next]_vars
=============================================================================
