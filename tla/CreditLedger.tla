---------------------------- MODULE CreditLedger ----------------------------
(***************************************************************************)
(* The credit ledger: internal/store/mysql/billing.go (Hold, Charge,       *)
(* Refund, Topup) over appendLedgerTx of ledger.go.                        *)
(*                                                                         *)
(* The append-only table credit_ledger is, for each user, a sequence of    *)
(* entries; users.credits and users.credits_held are its cached totals.    *)
(* Hold and Topup lock the users row with their first statement, so each   *)
(* is one step.  Charge and Refund first read the task's hold from the     *)
(* REPEATABLE READ snapshot (taskHoldTx) and lock the row only afterwards: *)
(* they take two steps, and any transaction may commit in between.         *)
(***************************************************************************)
EXTENDS Integers, Sequences, FiniteSets

CONSTANTS
    Users,          \* rows of the users table
    Tasks,          \* task ids that ever reach the ledger
    Owner,          \* Owner[t] is tasks.user_id
    Sessions,       \* database sessions that run Charge or Refund
    HoldAmounts,    \* estimated costs
    TopupAmounts,   \* signed amounts an administrator may enter
    TopupKeys,      \* idempotency keys an administrator may enter
    NoTask          \* NULL of credit_ledger.task_id

ASSUME LedgerAssumption ==
    /\ Owner \in [Tasks -> Users]
    /\ HoldAmounts \subseteq Nat
    /\ TopupAmounts \subseteq Int \ {0}
    /\ NoTask \notin Tasks

VARIABLES
    credits,    \* users.credits: what the user may still spend
    held,       \* users.credits_held
    ledger,     \* ledger[u]: the rows of credit_ledger of user u, oldest first
    txn         \* txn[s]: the open settlement of session s, after its first read

vars == <<credits, held, ledger, txn>>

SettleTypes == {"charge", "refund"}
EntryTypes == SettleTypes \cup {"hold", "topup"}

\* The values of credit_ledger.idempotency_key: one namespace for the
\* settlement of a task, one for administrators, and NULL.
SettleKey(t) == [kind |-> "settle", of |-> t]
AdminKey(k) == [kind |-> "admin", of |-> k]
NoKey == [kind |-> "none", of |-> NoTask]
Keys == [kind : {"settle"}, of : Tasks]
            \cup [kind : {"admin"}, of : TopupKeys] \cup {NoKey}

\* heldDelta is no column of the table: it is the argument appendLedgerTx gets
\* beside the row, kept here so that credits_held can be accounted for.
Entries == [type : EntryTypes, task : Tasks \cup {NoTask}, amount : Int,
            balanceAfter : Int, key : Keys, heldDelta : Int]

Idle == [phase |-> "idle"]
Pending == [phase : {"pending"}, type : SettleTypes, task : Tasks,
            held : Nat, actual : Nat]

TypeOK ==
    /\ credits \in [Users -> Int]
    /\ held \in [Users -> Nat]
    /\ ledger \in [Users -> Seq(Entries)]
    /\ txn \in [Sessions -> Pending \cup {Idle}]

Init ==
    /\ credits = [u \in Users |-> 0]
    /\ held = [u \in Users |-> 0]
    /\ ledger = [u \in Users |-> <<>>]
    /\ txn = [s \in Sessions |-> Idle]

-----------------------------------------------------------------------------
(* Reads of the ledger *)

Rows(u) == {ledger[u][i] : i \in DOMAIN ledger[u]}

\* Mutant: the index leaves out the keys of settlements.
KeyTakenByAdmins(k) ==
    k.kind = "admin" /\ \E u \in Users : \E e \in Rows(u) : e.key = k

\* The unique index uq_credit_ledger_idempotency spans every user; NULLs do
\* not take part in it.
KeyTaken(k) == k # NoKey /\ \E u \in Users : \E e \in Rows(u) : e.key = k

HoldRows(t) == {e \in Rows(Owner[t]) : e.type = "hold" /\ e.task = t}
SettleRows(t) == {e \in Rows(Owner[t]) : e.type \in SettleTypes /\ e.task = t}

\* What taskHoldTx sums up.  A task is held at most once (Hold is called with
\* the id of the task just created), so the sum is that one row or nothing.
HeldAmount(t) ==
    IF HoldRows(t) = {} THEN 0 ELSE -(CHOOSE e \in HoldRows(t) : TRUE).amount

\* held is clamped at zero: credits_held must not go negative.
Clamp(n) == IF n < 0 THEN 0 ELSE n

\* appendLedgerTx: one row and both cached totals, in one transaction.
Post(u, type, t, amount, key, heldDelta) ==
    /\ ~KeyTaken(key)
    /\ LET after == credits[u] + amount
           row == [type |-> type, task |-> t, amount |-> amount,
                   balanceAfter |-> after, key |-> key,
                   heldDelta |-> heldDelta]
       IN  /\ ledger' = [ledger EXCEPT ![u] = Append(@, row)]
           /\ credits' = [credits EXCEPT ![u] = after]
    /\ held' = [held EXCEPT ![u] = Clamp(@ + heldDelta)]

-----------------------------------------------------------------------------
(* Operations *)

\* Mutant: the balance is not compared.
HoldUnchecked(t, amount) ==
    /\ HoldRows(t) = {}
    /\ Post(Owner[t], "hold", t, -amount, NoKey, amount)
    /\ UNCHANGED txn

\* Hold locks the users row, compares and posts.  402 when the balance is
\* short: nothing is written.
Hold(t, amount) ==
    /\ HoldRows(t) = {}
    /\ credits[Owner[t]] >= amount
    /\ Post(Owner[t], "hold", t, -amount, NoKey, amount)
    /\ UNCHANGED txn

\* A second topup under the same key is refused by the unique index.
Topup(u, amount, k) ==
    /\ Post(u, "topup", NoTask, amount, AdminKey(k), 0)
    /\ UNCHANGED txn

\* Mutant: a charge may exceed the hold.
BeginChargeUncapped(s, t, actual) ==
    /\ txn[s] = Idle
    /\ SettleRows(t) = {}
    /\ txn' = [txn EXCEPT ![s] = [phase |-> "pending", type |-> "charge",
                                  task |-> t, held |-> HeldAmount(t),
                                  actual |-> actual]]
    /\ UNCHANGED <<credits, held, ledger>>

\* The snapshot read of Charge: an already settled task is refused, and so is
\* a charge above the hold (invalid_param); otherwise the amounts are kept for
\* the write.
BeginCharge(s, t, actual) ==
    /\ txn[s] = Idle
    /\ SettleRows(t) = {}
    /\ actual <= HeldAmount(t)
    /\ txn' = [txn EXCEPT ![s] = [phase |-> "pending", type |-> "charge",
                                  task |-> t, held |-> HeldAmount(t),
                                  actual |-> actual]]
    /\ UNCHANGED <<credits, held, ledger>>

\* The snapshot read of Refund.  A task without a hold is settled all the same.
BeginRefund(s, t) ==
    /\ txn[s] = Idle
    /\ SettleRows(t) = {}
    /\ txn' = [txn EXCEPT ![s] = [phase |-> "pending", type |-> "refund",
                                  task |-> t, held |-> HeldAmount(t),
                                  actual |-> 0]]
    /\ UNCHANGED <<credits, held, ledger>>

\* settleTx: the row gives back what was held and not charged, and releases
\* the whole hold.
Settle(s) ==
    /\ txn[s] # Idle
    /\ LET p == txn[s]
       IN  Post(Owner[p.task], p.type, p.task, p.held - p.actual,
                SettleKey(p.task), -p.held)
    /\ txn' = [txn EXCEPT ![s] = Idle]

\* settleTx: error 1062 rolls the transaction back (ErrAlreadySettled).
AlreadySettled(s) ==
    /\ txn[s] # Idle
    /\ KeyTaken(SettleKey(txn[s].task))
    /\ txn' = [txn EXCEPT ![s] = Idle]
    /\ UNCHANGED <<credits, held, ledger>>

\* The process dies or the connection drops: an open transaction leaves nothing.
Abort(s) ==
    /\ txn[s] # Idle
    /\ txn' = [txn EXCEPT ![s] = Idle]
    /\ UNCHANGED <<credits, held, ledger>>

Next ==
    \/ \E t \in Tasks, a \in HoldAmounts : Hold(t, a)
    \/ \E u \in Users, a \in TopupAmounts, k \in TopupKeys : Topup(u, a, k)
    \/ \E s \in Sessions, t \in Tasks :
          \/ \E a \in HoldAmounts : BeginCharge(s, t, a)
          \/ BeginRefund(s, t)
    \/ \E s \in Sessions : Settle(s) \/ AlreadySettled(s) \/ Abort(s)

Spec == Init /\ [][Next]_vars

-----------------------------------------------------------------------------
(* Properties *)

\* The balance a row is booked on: the one its predecessor left.
BalanceBefore(u, i) == IF i = 1 THEN 0 ELSE ledger[u][i - 1].balanceAfter

\* The cached balance never forks from the ledger: every balance_after is the
\* previous one plus the amount of its row, and users.credits is the last of
\* them (package comment of internal/billing; ledger.go Append).
BalanceChain ==
    \A u \in Users :
        /\ credits[u] = BalanceBefore(u, Len(ledger[u]) + 1)
        /\ \A i \in DOMAIN ledger[u] :
              ledger[u][i].balanceAfter = BalanceBefore(u, i) + ledger[u][i].amount

\* A task is settled once, by a charge or by a refund but never by both, however
\* its settlements interleave: two of them may read the same snapshot
\* (billing.go settleTx).
SettledOnce ==
    \A u \in Users : \A i, j \in DOMAIN ledger[u] :
        /\ ledger[u][i].type \in SettleTypes
        /\ ledger[u][j].type \in SettleTypes
        /\ ledger[u][i].task = ledger[u][j].task
        => i = j

\* A settlement gives back at most what its task froze: the rest of the hold is
\* what the user pays, and nobody is paid (billing.go Charge, Refund).
ReturnsWithinHold ==
    \A t \in Tasks : \A e \in SettleRows(t) :
        /\ 0 <= e.amount
        /\ e.amount > 0 => \E h \in HoldRows(t) : e.amount <= -h.amount

\* What the settlement of a task released of credits_held.
Released(t) ==
    IF SettleRows(t) = {} THEN 0 ELSE -(CHOOSE e \in SettleRows(t) : TRUE).heldDelta

\* The credits that holds of the user froze and no settlement released, one by one.
StillFrozen(u) ==
    UNION {{t} \X (Released(t) + 1 .. HeldAmount(t)) : t \in {x \in Tasks : Owner[x] = u}}

\* credits_held counts what the holds of a user froze and their settlements have not
\* released: the clamp of appendLedgerTx never hides a release of more than was held.
HeldExplained == \A u \in Users : held[u] = Cardinality(StillFrozen(u))

\* Holding is check and occupation in one step: tasks submitted together cannot
\* overdraw the balance, as long as no administrator deducts from it.
NoOverdraft ==
    TopupAmounts \subseteq Nat => \A u \in Users : credits[u] >= 0

-----------------------------------------------------------------------------
(* Refinement: the rows, read as accounts *)

\* What the settlement of a task gave back.
Returned(t) ==
    IF SettleRows(t) = {} THEN 0 ELSE (CHOOSE e \in SettleRows(t) : TRUE).amount

Accounts == INSTANCE CreditAccounts WITH
    available <- credits,
    frozen <- [t \in Tasks |-> IF HoldRows(t) = {} THEN -1 ELSE HeldAmount(t)],
    returned <- [t \in Tasks |-> Returned(t)],
    closed <- {t \in Tasks : SettleRows(t) # {}}

\* The ledger implements the accounts: whatever transactions interleave, the cached
\* balance moves only by deposit, by freezing what is available, and by closing a task
\* once with at most its hold coming back (internal/billing).
ImplementsAccounts == Accounts!Spec
=============================================================================
