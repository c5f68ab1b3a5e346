------------------------- MODULE CreditLedgerProofs -------------------------
(***************************************************************************)
(* Proofs about CreditLedger, for every set of users, tasks and sessions   *)
(* and every hold and topup amount.                                        *)
(***************************************************************************)
EXTENDS CreditLedger, TLAPS, SequenceTheorems, FiniteSetTheorems, FunctionTheorems

-----------------------------------------------------------------------------
(* The inductive invariant *)

\* A hold row belongs to the user who owns its task, and takes money.
HoldRowsTake ==
    \A u \in Users : \A i \in DOMAIN ledger[u] :
        ledger[u][i].type = "hold" =>
            /\ ledger[u][i].task \in Tasks
            /\ Owner[ledger[u][i].task] = u
            /\ ledger[u][i].amount <= 0

\* A settlement row carries the key of its task, which the unique index guards.
SettleRowsKeyed ==
    \A u \in Users : \A i \in DOMAIN ledger[u] :
        ledger[u][i].type \in SettleTypes =>
            /\ ledger[u][i].task \in Tasks
            /\ ledger[u][i].key = SettleKey(ledger[u][i].task)

\* The index itself: a key other than NULL stands in one row.
KeysUnique ==
    \A u, v \in Users : \A i \in DOMAIN ledger[u], j \in DOMAIN ledger[v] :
        /\ ledger[u][i].key = ledger[v][j].key
        /\ ledger[u][i].key # NoKey
        => u = v /\ i = j

\* What a session read stays backed by a row: holds are never taken back.
SnapshotBacked ==
    \A s \in Sessions, t \in Tasks :
        txn[s] # Idle /\ txn[s].task = t =>
            /\ txn[s].actual <= txn[s].held
            /\ txn[s].held > 0 =>
                  \E h \in HoldRows(t) : txn[s].held = -h.amount

IInv ==
    /\ TypeOK
    /\ HoldRowsTake
    /\ SettleRowsKeyed
    /\ KeysUnique
    /\ SnapshotBacked
    /\ ReturnsWithinHold
    /\ BalanceChain
    /\ NoOverdraft

-----------------------------------------------------------------------------
(* Lemmas about the operators *)

\* Every row of a user's ledger is an entry.
LEMMA RowTyped ==
    ASSUME TypeOK, NEW u \in Users, NEW i \in DOMAIN ledger[u]
    PROVE  /\ ledger[u][i] \in Entries
           /\ i \in 1 .. Len(ledger[u])
<1>1. ledger[u] \in Seq(Entries)
  BY DEF TypeOK
<1> QED
  BY <1>1

\* The amount a snapshot reads is a natural number, and it is that of a hold row
\* when it is positive (billing.go taskHoldTx).
LEMMA HeldAmountBacked ==
    ASSUME TypeOK, HoldRowsTake, NEW t \in Tasks
    PROVE  /\ HeldAmount(t) \in Nat
           /\ HeldAmount(t) > 0 => \E h \in HoldRows(t) : HeldAmount(t) = -h.amount
<1>1. CASE HoldRows(t) = {}
  BY <1>1 DEF HeldAmount
<1>2. CASE HoldRows(t) # {}
  <2>1. PICK h \in HoldRows(t) : HeldAmount(t) = -h.amount
    BY <1>2 DEF HeldAmount
  <2>2. Owner[t] \in Users
    BY LedgerAssumption
  <2>3. PICK i \in DOMAIN ledger[Owner[t]] : h = ledger[Owner[t]][i]
    BY <2>1 DEF HoldRows, Rows
  <2>4. h.type = "hold"
    BY <2>1 DEF HoldRows
  <2>5. h.amount <= 0
    BY <2>2, <2>3, <2>4 DEF HoldRowsTake
  <2>6. h.amount \in Int
    BY <2>2, <2>3, RowTyped DEF Entries
  <2> QED
    BY <2>1, <2>5, <2>6
<1> QED
  BY <1>1, <1>2

\* A booking appends one row to the ledger of one user and moves both cached
\* totals (ledger.go appendLedgerTx): the parts of Post the proofs below use.
Booked(u, type, t, amount, key) ==
    LET last == Len(ledger[u]) + 1
    IN  /\ credits' = [credits EXCEPT ![u] = credits[u] + amount]
        /\ credits' \in [Users -> Int]
        /\ held' \in [Users -> Nat]
        /\ ledger' \in [Users -> Seq(Entries)]
        /\ \A v \in Users \ {u} : ledger'[v] = ledger[v]
        /\ Len(ledger'[u]) = last
        /\ DOMAIN ledger'[u] = DOMAIN ledger[u] \cup {last}
        /\ last \notin DOMAIN ledger[u]
        /\ \A i \in DOMAIN ledger[u] : ledger'[u][i] = ledger[u][i]
        /\ ledger'[u][last].type = type
        /\ ledger'[u][last].task = t
        /\ ledger'[u][last].amount = amount
        /\ ledger'[u][last].balanceAfter = credits[u] + amount
        /\ ledger'[u][last].key = key

\* What appendLedgerTx writes: one row more for its user, booked on his balance,
\* and nothing for anybody else.
LEMMA PostAppends ==
    ASSUME TypeOK, NEW u \in Users, NEW type \in EntryTypes,
           NEW t \in Tasks \cup {NoTask}, NEW amount \in Int, NEW key \in Keys,
           NEW heldDelta \in Int, Post(u, type, t, amount, key, heldDelta)
    PROVE  Booked(u, type, t, amount, key)
<1> DEFINE row == [type |-> type, task |-> t, amount |-> amount,
                   balanceAfter |-> credits[u] + amount, key |-> key,
                   heldDelta |-> heldDelta]
<1>1. credits[u] \in Int /\ held[u] \in Nat /\ ledger[u] \in Seq(Entries)
  BY DEF TypeOK
<1>2. row \in Entries
  BY <1>1 DEF Entries
<1>3. ledger' = [ledger EXCEPT ![u] = Append(ledger[u], row)]
  BY DEF Post
<1>4. ledger'[u] = Append(ledger[u], row)
  BY <1>3 DEF TypeOK
<1>5. credits' = [credits EXCEPT ![u] = credits[u] + amount]
  BY DEF Post
<1>6. held' \in [Users -> Nat]
  <2>1. Clamp(held[u] + heldDelta) \in Nat
    BY <1>1 DEF Clamp
  <2>2. held' = [held EXCEPT ![u] = Clamp(held[u] + heldDelta)]
    BY DEF Post
  <2> QED
    BY <2>1, <2>2 DEF TypeOK
<1> HIDE DEF row
<1>7. Append(ledger[u], row) \in Seq(Entries)
  BY <1>1, <1>2
<1>8. ledger' \in [Users -> Seq(Entries)]
  BY <1>3, <1>7 DEF TypeOK
<1>9. /\ Len(ledger'[u]) = Len(ledger[u]) + 1
      /\ DOMAIN ledger'[u] = DOMAIN ledger[u] \cup {Len(ledger[u]) + 1}
      /\ Len(ledger[u]) + 1 \notin DOMAIN ledger[u]
      /\ \A i \in DOMAIN ledger[u] : ledger'[u][i] = ledger[u][i]
      /\ ledger'[u][Len(ledger[u]) + 1] = row
  BY <1>1, <1>2, <1>4
<1>10. \A v \in Users \ {u} : ledger'[v] = ledger[v]
  BY <1>3 DEF TypeOK
<1>11. credits' \in [Users -> Int]
  BY <1>1, <1>5 DEF TypeOK
<1> QED
  BY <1>2, <1>5, <1>6, <1>8, <1>9, <1>10, <1>11 DEF row, Booked

-----------------------------------------------------------------------------
(* A booking keeps every statement about the rows *)

\* A row that may be booked for task t of user u: a hold takes money from the
\* owner of its task; a settlement carries the task's key and gives back no more
\* than a hold of the task took.
Bookable(u, type, t, amount, key) ==
    /\ type = "hold" => t \in Tasks /\ Owner[t] = u /\ amount <= 0
    /\ type \in SettleTypes =>
          /\ t \in Tasks
          /\ key = SettleKey(t)
          /\ 0 <= amount
          /\ amount > 0 => \E h \in HoldRows(t) : amount <= -h.amount

\* Holds are never taken out of the ledger.
LEMMA PostKeepsHolds ==
    ASSUME TypeOK, NEW u \in Users, NEW type \in EntryTypes,
           NEW t \in Tasks \cup {NoTask}, NEW amount \in Int, NEW key \in Keys,
           NEW heldDelta \in Int, Post(u, type, t, amount, key, heldDelta),
           NEW x \in Tasks
    PROVE  HoldRows(x) \subseteq HoldRows(x)'
<1> SUFFICES ASSUME NEW h \in HoldRows(x) PROVE h \in HoldRows(x)'
  OBVIOUS
<1>1. PICK i \in DOMAIN ledger[Owner[x]] : h = ledger[Owner[x]][i]
  BY DEF HoldRows, Rows
<1>2. Owner[x] \in Users
  BY LedgerAssumption
<1>3. i \in DOMAIN ledger'[Owner[x]] /\ h = ledger'[Owner[x]][i]
  <2>1. Booked(u, type, t, amount, key)
    BY PostAppends
  <2> QED
    BY <1>1, <1>2, <2>1 DEF Booked
<1>4. h \in Rows(Owner[x])'
  BY <1>3 DEF Rows
<1> QED
  BY <1>4 DEF HoldRows

\* A row that settles a task under the key of that task, and any other row, leaves
\* the keys unique and one hold per task.
LEMMA PostKeepsRows ==
    ASSUME TypeOK, HoldRowsTake, SettleRowsKeyed, KeysUnique,
           NEW u \in Users, NEW type \in EntryTypes,
           NEW t \in Tasks \cup {NoTask}, NEW amount \in Int, NEW key \in Keys,
           NEW heldDelta \in Int, Post(u, type, t, amount, key, heldDelta),
           Bookable(u, type, t, amount, key)
    PROVE  HoldRowsTake' /\ SettleRowsKeyed' /\ KeysUnique'
<1> DEFINE last == Len(ledger[u]) + 1
<1>1. /\ \A v \in Users \ {u} : ledger'[v] = ledger[v]
      /\ DOMAIN ledger'[u] = DOMAIN ledger[u] \cup {last}
      /\ last \notin DOMAIN ledger[u]
      /\ \A i \in DOMAIN ledger[u] : ledger'[u][i] = ledger[u][i]
      /\ ledger'[u][last].type = type
      /\ ledger'[u][last].task = t
      /\ ledger'[u][last].amount = amount
      /\ ledger'[u][last].key = key
  <2>1. Booked(u, type, t, amount, key)
    BY PostAppends
  <2> QED
    BY <2>1 DEF Booked
<1>2. \A v \in Users : \A i \in DOMAIN ledger'[v] :
          \/ v = u /\ i = last
          \/ i \in DOMAIN ledger[v] /\ ledger'[v][i] = ledger[v][i]
  BY <1>1
<1>3. key # NoKey => \A v \in Users : \A i \in DOMAIN ledger[v] : ledger[v][i].key # key
  BY DEF Post, KeyTaken, Rows
<1> HIDE DEF last
<1>4. HoldRowsTake'
  BY <1>1, <1>2 DEF HoldRowsTake, Bookable
<1>5. SettleRowsKeyed'
  <2> SUFFICES ASSUME NEW v \in Users, NEW i \in DOMAIN ledger'[v],
                      ledger'[v][i].type \in SettleTypes
               PROVE  /\ ledger'[v][i].task \in Tasks
                      /\ ledger'[v][i].key = SettleKey(ledger'[v][i].task)
    BY DEF SettleRowsKeyed, SettleKey
  <2> QED
    BY <1>1, <1>2 DEF SettleRowsKeyed, Bookable
<1>6. KeysUnique'
  <2> SUFFICES ASSUME NEW v \in Users, NEW w \in Users,
                      NEW i \in DOMAIN ledger'[v], NEW j \in DOMAIN ledger'[w],
                      ledger'[v][i].key = ledger'[w][j].key,
                      ledger'[v][i].key # NoKey
               PROVE  v = w /\ i = j
    BY DEF KeysUnique, NoKey
  <2>1. CASE /\ i \in DOMAIN ledger[v] /\ ledger'[v][i] = ledger[v][i]
             /\ j \in DOMAIN ledger[w] /\ ledger'[w][j] = ledger[w][j]
    BY <2>1 DEF KeysUnique
  <2>2. CASE v = u /\ i = last
    BY <1>1, <1>2, <1>3, <2>2
  <2>3. CASE w = u /\ j = last
    BY <1>1, <1>2, <1>3, <2>3
  <2> QED
    BY <1>2, <2>1, <2>2, <2>3
<1> QED
  BY <1>4, <1>5, <1>6

\* A settlement that gives back no more than the hold keeps ReturnsWithinHold.
LEMMA PostKeepsReturns ==
    ASSUME TypeOK, ReturnsWithinHold,
           NEW u \in Users, NEW type \in EntryTypes,
           NEW t \in Tasks \cup {NoTask}, NEW amount \in Int, NEW key \in Keys,
           NEW heldDelta \in Int, Post(u, type, t, amount, key, heldDelta),
           Bookable(u, type, t, amount, key)
    PROVE  ReturnsWithinHold'
<1> SUFFICES ASSUME NEW x \in Tasks, NEW e \in SettleRows(x)'
             PROVE  /\ 0 <= e.amount
                    /\ e.amount > 0 => \E h \in HoldRows(x)' : e.amount <= -h.amount
  BY DEF ReturnsWithinHold
<1>1. Owner[x] \in Users
  BY LedgerAssumption
<1>2. e.type \in SettleTypes /\ e.task = x
  BY DEF SettleRows
<1>3. PICK i \in DOMAIN ledger'[Owner[x]] : e = ledger'[Owner[x]][i]
  BY DEF SettleRows, Rows
<1>4. HoldRows(x) \subseteq HoldRows(x)'
  BY PostKeepsHolds
<1>5. CASE i \in DOMAIN ledger[Owner[x]] /\ e = ledger[Owner[x]][i]
  <2>1. e \in SettleRows(x)
    BY <1>2, <1>5 DEF SettleRows, Rows
  <2> QED
    BY <1>4, <2>1 DEF ReturnsWithinHold
<1>6. CASE e.type = type /\ e.task = t /\ e.amount = amount
  BY <1>2, <1>4, <1>6 DEF Bookable
<1>7. \/ i \in DOMAIN ledger[Owner[x]] /\ e = ledger[Owner[x]][i]
      \/ e.type = type /\ e.task = t /\ e.amount = amount
  <2>1. Booked(u, type, t, amount, key)
    BY PostAppends
  <2> QED
    BY <1>1, <1>3, <2>1 DEF Booked
<1> QED
  BY <1>5, <1>6, <1>7

\* appendLedgerTx continues the chain of balances.
LEMMA PostKeepsChain ==
    ASSUME TypeOK, BalanceChain,
           NEW u \in Users, NEW type \in EntryTypes,
           NEW t \in Tasks \cup {NoTask}, NEW amount \in Int, NEW key \in Keys,
           NEW heldDelta \in Int, Post(u, type, t, amount, key, heldDelta)
    PROVE  BalanceChain'
<1> DEFINE last == Len(ledger[u]) + 1
<1>1. /\ credits' = [credits EXCEPT ![u] = credits[u] + amount]
      /\ \A v \in Users \ {u} : ledger'[v] = ledger[v]
      /\ Len(ledger'[u]) = last
      /\ DOMAIN ledger'[u] = DOMAIN ledger[u] \cup {last}
      /\ \A i \in DOMAIN ledger[u] : ledger'[u][i] = ledger[u][i]
      /\ ledger'[u][last].amount = amount
      /\ ledger'[u][last].balanceAfter = credits[u] + amount
  <2>1. Booked(u, type, t, amount, key)
    BY PostAppends
  <2> QED
    BY <2>1 DEF Booked
<1>2. Len(ledger[u]) \in Nat /\ DOMAIN ledger[u] = 1 .. Len(ledger[u])
  BY DEF TypeOK
<1>3. credits[u] = BalanceBefore(u, last)
  BY DEF BalanceChain
<1>4. \A i \in 1 .. last : BalanceBefore(u, i)' = BalanceBefore(u, i)
  BY <1>1, <1>2 DEF BalanceBefore
<1>5. credits'[u] = BalanceBefore(u, Len(ledger[u]) + 1)'
  <2>1. credits'[u] = credits[u] + amount
    BY <1>1 DEF TypeOK
  <2>2. (Len(ledger[u]) + 1)' = last + 1
    BY <1>1
  <2> QED
    BY <1>1, <1>2, <2>1, <2>2 DEF BalanceBefore
<1>6. \A i \in DOMAIN ledger'[u] :
          ledger'[u][i].balanceAfter = BalanceBefore(u, i)' + ledger'[u][i].amount
  <2> TAKE i \in DOMAIN ledger'[u]
  <2>1. CASE i \in DOMAIN ledger[u]
    BY <1>1, <1>2, <1>4, <2>1 DEF BalanceChain
  <2>2. CASE i = last
    BY <1>1, <1>2, <1>3, <1>4, <2>2
  <2> QED
    BY <1>1, <2>1, <2>2
<1>7. \A v \in Users \ {u} : credits'[v] = credits[v]
  BY <1>1 DEF TypeOK
<1>8. ASSUME NEW v \in Users
      PROVE  /\ credits'[v] = BalanceBefore(v, Len(ledger[v]) + 1)'
             /\ \A i \in DOMAIN ledger'[v] :
                   ledger'[v][i].balanceAfter
                       = BalanceBefore(v, i)' + ledger'[v][i].amount
  <2>1. CASE v = u
    BY <1>5, <1>6, <2>1
  <2>2. CASE v # u
    <3>1. ledger'[v] = ledger[v] /\ credits'[v] = credits[v]
      BY <1>1, <1>7, <2>2
    <3> QED
      BY <3>1 DEF BalanceChain, BalanceBefore
  <2> QED
    BY <2>1, <2>2
<1> QED
  BY <1>8 DEF BalanceChain

-----------------------------------------------------------------------------
(* The invariant is inductive *)

\* The empty ledger satisfies the invariant.
LEMMA InitEstablishes == Init => IInv
<1> SUFFICES ASSUME Init PROVE IInv
  OBVIOUS
<1>1. TypeOK
  BY DEF Init, TypeOK, Idle
<1>2. HoldRowsTake /\ SettleRowsKeyed /\ KeysUnique
  BY DEF Init, HoldRowsTake, SettleRowsKeyed, KeysUnique
<1>3. SnapshotBacked
  BY DEF Init, SnapshotBacked
<1>4. ReturnsWithinHold
  BY LedgerAssumption DEF Init, ReturnsWithinHold, SettleRows, Rows
<1>5. BalanceChain
  BY DEF Init, BalanceChain, BalanceBefore
<1>6. NoOverdraft
  BY DEF Init, NoOverdraft
<1> QED
  BY <1>1, <1>2, <1>3, <1>4, <1>5, <1>6 DEF IInv

\* Any booking with a bookable row, whose session state stays typed and backed,
\* keeps the invariant if it leaves the balance it changes covered.
LEMMA BookingKeeps ==
    ASSUME IInv,
           NEW u \in Users, NEW type \in EntryTypes,
           NEW t \in Tasks \cup {NoTask}, NEW amount \in Int, NEW key \in Keys,
           NEW heldDelta \in Int, Post(u, type, t, amount, key, heldDelta),
           Bookable(u, type, t, amount, key),
           TopupAmounts \subseteq Nat => credits[u] + amount >= 0,
           \/ UNCHANGED txn
           \/ \E s \in Sessions : txn' = [txn EXCEPT ![s] = Idle]
    PROVE  IInv'
<1> USE DEF IInv
<1>1. Booked(u, type, t, amount, key)
  BY PostAppends
<1>2. txn' \in [Sessions -> Pending \cup {Idle}]
  BY DEF TypeOK
<1>3. TypeOK'
  BY <1>1, <1>2 DEF TypeOK, Booked
<1>4. HoldRowsTake' /\ SettleRowsKeyed' /\ KeysUnique'
  BY PostKeepsRows
<1>5. SnapshotBacked'
  <2> SUFFICES ASSUME NEW s \in Sessions, NEW x \in Tasks,
                      txn'[s] # Idle, txn'[s].task = x
               PROVE  /\ txn'[s].actual <= txn'[s].held
                      /\ txn'[s].held > 0 =>
                           \E h \in HoldRows(x)' : txn'[s].held = -h.amount
    BY DEF SnapshotBacked, Idle
  <2>1. txn'[s] = txn[s] /\ txn[s] # Idle
    BY DEF TypeOK
  <2>2. HoldRows(x) \subseteq HoldRows(x)'
    BY PostKeepsHolds
  <2> QED
    BY <2>1, <2>2 DEF SnapshotBacked
<1>6. ReturnsWithinHold'
  BY PostKeepsReturns
<1>7. BalanceChain'
  BY PostKeepsChain
<1>8. NoOverdraft'
  <2>1. credits' = [credits EXCEPT ![u] = credits[u] + amount]
    BY <1>1 DEF Booked
  <2> QED
    BY <2>1 DEF NoOverdraft, TypeOK
<1> QED
  BY <1>3, <1>4, <1>5, <1>6, <1>7, <1>8

\* A step that reads or drops a snapshot leaves every row alone.
LEMMA SnapshotKeeps ==
    ASSUME IInv, UNCHANGED <<credits, held, ledger>>, NEW s \in Sessions,
           NEW p \in Pending \cup {Idle}, txn' = [txn EXCEPT ![s] = p],
           p # Idle =>
             /\ p.actual <= p.held
             /\ p.held > 0 => \E h \in HoldRows(p.task) : p.held = -h.amount
    PROVE  IInv'
<1> USE DEF IInv
<1>1. TypeOK'
  BY DEF TypeOK
<1>2. HoldRowsTake' /\ SettleRowsKeyed' /\ KeysUnique'
  BY DEF HoldRowsTake, SettleRowsKeyed, KeysUnique
<1>3. ReturnsWithinHold' /\ BalanceChain' /\ NoOverdraft'
  BY DEF ReturnsWithinHold, SettleRows, HoldRows, Rows, BalanceChain,
         BalanceBefore, NoOverdraft
<1>4. SnapshotBacked'
  <2> SUFFICES ASSUME NEW x \in Sessions, NEW t \in Tasks,
                      txn'[x] # Idle, txn'[x].task = t
               PROVE  /\ txn'[x].actual <= txn'[x].held
                      /\ txn'[x].held > 0 =>
                           \E h \in HoldRows(t)' : txn'[x].held = -h.amount
    BY DEF SnapshotBacked, Idle
  <2>1. HoldRows(t)' = HoldRows(t)
    BY DEF HoldRows, Rows
  <2>2. CASE x = s
    BY <2>1, <2>2 DEF TypeOK
  <2>3. CASE x # s
    BY <2>1, <2>3 DEF TypeOK, SnapshotBacked
  <2> QED
    BY <2>2, <2>3
<1> QED
  BY <1>1, <1>2, <1>3, <1>4

\* Every transaction keeps the invariant.
LEMMA NextKeeps == IInv /\ [Next]_vars => IInv'
<1> SUFFICES ASSUME IInv, [Next]_vars PROVE IInv'
  OBVIOUS
<1> USE LedgerAssumption
<1>1. ASSUME NEW t \in Tasks, NEW a \in HoldAmounts, Hold(t, a)
      PROVE  IInv'
  <2>1. Post(Owner[t], "hold", t, -a, NoKey, a) /\ UNCHANGED txn
    BY <1>1 DEF Hold
  <2>2. "hold" \in EntryTypes /\ NoKey \in Keys /\ Owner[t] \in Users
    BY DEF EntryTypes, Keys
  <2>3. Bookable(Owner[t], "hold", t, -a, NoKey)
    BY DEF Bookable, SettleTypes
  <2>4. credits[Owner[t]] + (-a) >= 0
    BY <1>1, <2>2 DEF Hold, IInv, TypeOK
  <2> QED
    BY <2>1, <2>2, <2>3, <2>4, BookingKeeps
<1>2. ASSUME NEW u \in Users, NEW a \in TopupAmounts, NEW k \in TopupKeys,
             Topup(u, a, k)
      PROVE  IInv'
  <2>1. Post(u, "topup", NoTask, a, AdminKey(k), 0) /\ UNCHANGED txn
    BY <1>2 DEF Topup
  <2>2. "topup" \in EntryTypes /\ AdminKey(k) \in Keys /\ a \in Int
    BY DEF EntryTypes, Keys, AdminKey
  <2>3. Bookable(u, "topup", NoTask, a, AdminKey(k))
    BY DEF Bookable, SettleTypes
  <2>4. TopupAmounts \subseteq Nat => credits[u] + a >= 0
    BY DEF IInv, NoOverdraft, TypeOK
  <2> QED
    BY <2>1, <2>2, <2>3, <2>4, BookingKeeps
<1>3. ASSUME NEW s \in Sessions, NEW t \in Tasks, NEW a \in HoldAmounts,
             BeginCharge(s, t, a)
      PROVE  IInv'
  <2> DEFINE p == [phase |-> "pending", type |-> "charge", task |-> t,
                   held |-> HeldAmount(t), actual |-> a]
  <2>1. /\ HeldAmount(t) \in Nat
        /\ HeldAmount(t) > 0 => \E h \in HoldRows(t) : HeldAmount(t) = -h.amount
    BY HeldAmountBacked DEF IInv
  <2>2. p \in Pending \cup {Idle}
    BY <2>1 DEF Pending, SettleTypes
  <2>3. /\ UNCHANGED <<credits, held, ledger>>
        /\ txn' = [txn EXCEPT ![s] = p]
        /\ a <= HeldAmount(t)
    BY <1>3 DEF BeginCharge
  <2>4. /\ p.actual <= p.held
        /\ p.held > 0 => \E h \in HoldRows(p.task) : p.held = -h.amount
    BY <2>1, <2>3
  <2> QED
    BY <2>2, <2>3, <2>4, SnapshotKeeps
<1>4. ASSUME NEW s \in Sessions, NEW t \in Tasks, BeginRefund(s, t)
      PROVE  IInv'
  <2> DEFINE p == [phase |-> "pending", type |-> "refund", task |-> t,
                   held |-> HeldAmount(t), actual |-> 0]
  <2>1. /\ HeldAmount(t) \in Nat
        /\ HeldAmount(t) > 0 => \E h \in HoldRows(t) : HeldAmount(t) = -h.amount
    BY HeldAmountBacked DEF IInv
  <2>2. p \in Pending \cup {Idle}
    BY <2>1 DEF Pending, SettleTypes
  <2>3. /\ UNCHANGED <<credits, held, ledger>>
        /\ txn' = [txn EXCEPT ![s] = p]
    BY <1>4 DEF BeginRefund
  <2>4. /\ p.actual <= p.held
        /\ p.held > 0 => \E h \in HoldRows(p.task) : p.held = -h.amount
    BY <2>1
  <2> QED
    BY <2>2, <2>3, <2>4, SnapshotKeeps
<1>5. ASSUME NEW s \in Sessions, Settle(s)
      PROVE  IInv'
  <2> DEFINE p == txn[s]
  <2>1. p \in Pending
    BY <1>5 DEF Settle, IInv, TypeOK
  <2>2. /\ p.type \in SettleTypes /\ p.type \in EntryTypes
        /\ p.task \in Tasks /\ Owner[p.task] \in Users
        /\ p.held \in Nat /\ p.actual \in Nat
    BY <2>1 DEF Pending, EntryTypes
  <2>3. /\ p.actual <= p.held
        /\ p.held > 0 => \E h \in HoldRows(p.task) : p.held = -h.amount
    BY <1>5, <2>2 DEF Settle, IInv, SnapshotBacked
  <2>4. /\ Post(Owner[p.task], p.type, p.task, p.held - p.actual,
                SettleKey(p.task), -p.held)
        /\ txn' = [txn EXCEPT ![s] = Idle]
    BY <1>5 DEF Settle
  <2> HIDE DEF p
  <2>5. SettleKey(p.task) \in Keys
    BY <2>2 DEF SettleKey, Keys
  <2>6. p.held - p.actual \in Nat /\ -p.held \in Int
    BY <2>2, <2>3
  <2>7. Bookable(Owner[p.task], p.type, p.task, p.held - p.actual, SettleKey(p.task))
    <3>1. p.type # "hold"
      BY <2>2 DEF SettleTypes
    <3>2. ASSUME p.held - p.actual > 0
          PROVE  \E h \in HoldRows(p.task) : p.held - p.actual <= -h.amount
      <4>1. PICK h \in HoldRows(p.task) : p.held = -h.amount
        BY <2>2, <2>3, <3>2
      <4> QED
        BY <2>2, <4>1
    <3> QED
      BY <2>2, <2>6, <3>1, <3>2 DEF Bookable
  <2>8. TopupAmounts \subseteq Nat =>
            credits[Owner[p.task]] + (p.held - p.actual) >= 0
    BY <2>2, <2>6 DEF IInv, NoOverdraft, TypeOK
  <2>9. PICK back \in Int : back = p.held - p.actual
    BY <2>6
  <2>10. PICK delta \in Int : delta = -p.held
    BY <2>6
  <2>11. /\ Post(Owner[p.task], p.type, p.task, back, SettleKey(p.task), delta)
         /\ Bookable(Owner[p.task], p.type, p.task, back, SettleKey(p.task))
         /\ TopupAmounts \subseteq Nat => credits[Owner[p.task]] + back >= 0
         /\ \E x \in Sessions : txn' = [txn EXCEPT ![x] = Idle]
    BY <2>4, <2>7, <2>8, <2>9, <2>10
  <2>12. p.task \in Tasks \cup {NoTask}
    BY <2>2
  <2> QED
    BY <2>2, <2>5, <2>11, <2>12, BookingKeeps
<1>6. ASSUME NEW s \in Sessions, AlreadySettled(s) \/ Abort(s)
      PROVE  IInv'
  <2>1. UNCHANGED <<credits, held, ledger>> /\ txn' = [txn EXCEPT ![s] = Idle]
    BY <1>6 DEF AlreadySettled, Abort
  <2> QED
    BY <2>1, SnapshotKeeps
<1>7. CASE UNCHANGED vars
  BY <1>7 DEF vars, IInv, TypeOK, HoldRowsTake, SettleRowsKeyed, KeysUnique,
         SnapshotBacked, ReturnsWithinHold, SettleRows, HoldRows, Rows,
         BalanceChain, BalanceBefore, NoOverdraft
<1> QED
  BY <1>1, <1>2, <1>3, <1>4, <1>5, <1>6, <1>7 DEF Next

\* One key per task and one row per key make one settlement per task.
LEMMA KeysSettleOnce ==
    ASSUME SettleRowsKeyed, KeysUnique
    PROVE  SettledOnce
<1> SUFFICES ASSUME NEW u \in Users,
                    NEW i \in DOMAIN ledger[u], NEW j \in DOMAIN ledger[u],
                    ledger[u][i].type \in SettleTypes,
                    ledger[u][j].type \in SettleTypes,
                    ledger[u][i].task = ledger[u][j].task
             PROVE  i = j
  BY DEF SettledOnce
<1>1. ledger[u][i].key = SettleKey(ledger[u][i].task)
  BY DEF SettleRowsKeyed
<1>2. ledger[u][j].key = SettleKey(ledger[u][i].task)
  BY DEF SettleRowsKeyed
<1>3. SettleKey(ledger[u][i].task) # NoKey
  BY DEF SettleKey, NoKey
<1> QED
  BY <1>1, <1>2, <1>3 DEF KeysUnique

-----------------------------------------------------------------------------
(* The theorems *)

\* The inductive invariant holds in every reachable state.
THEOREM LedgerInvariant == Spec => []IInv
<1>1. Init => IInv
  BY InitEstablishes
<1>2. IInv /\ [Next]_vars => IInv'
  BY NextKeeps
<1> QED
  BY <1>1, <1>2, PTL DEF Spec

\* The ledger is type correct.
THEOREM LedgerTypeCorrect == Spec => []TypeOK
<1>1. IInv => TypeOK
  BY DEF IInv
<1> QED
  BY <1>1, LedgerInvariant, PTL

\* The cached balance and the balance_after column follow the rows, for any
\* interleaving of holds, settlements and topups.
THEOREM LedgerKeepsChain == Spec => []BalanceChain
<1>1. IInv => BalanceChain
  BY DEF IInv
<1> QED
  BY <1>1, LedgerInvariant, PTL

\* No task is settled twice, although two settlements may read one snapshot.
THEOREM LedgerSettlesOnce == Spec => []SettledOnce
<1>1. IInv => SettledOnce
  BY KeysSettleOnce DEF IInv
<1> QED
  BY <1>1, LedgerInvariant, PTL

\* No settlement gives back more than its task froze.
THEOREM LedgerReturnsWithinHold == Spec => []ReturnsWithinHold
<1>1. IInv => ReturnsWithinHold
  BY DEF IInv
<1> QED
  BY <1>1, LedgerInvariant, PTL

\* Without deductions by an administrator no balance is ever negative.
THEOREM LedgerNeverOverdrawn == Spec => []NoOverdraft
<1>1. IInv => NoOverdraft
  BY DEF IInv
<1> QED
  BY <1>1, LedgerInvariant, PTL

-----------------------------------------------------------------------------
(* What a booking makes of the rows of each task *)

\* A task is held once, whatever settled it before.
HoldsOnce == \A t \in Tasks : \A e, f \in HoldRows(t) : e = f

\* One row joins those of its task, and no other task notices.
LEMMA PostRows ==
    ASSUME TypeOK, NEW u \in Users, NEW type \in EntryTypes,
           NEW t \in Tasks \cup {NoTask}, NEW amount \in Int, NEW key \in Keys,
           NEW heldDelta \in Int, Post(u, type, t, amount, key, heldDelta)
    PROVE  \E r \in Entries :
              /\ r.type = type /\ r.task = t /\ r.amount = amount /\ r.heldDelta = heldDelta
              /\ \A x \in Tasks :
                    /\ HoldRows(x)' = IF u = Owner[x] /\ type = "hold" /\ t = x
                                      THEN HoldRows(x) \cup {r} ELSE HoldRows(x)
                    /\ SettleRows(x)' = IF u = Owner[x] /\ type \in SettleTypes /\ t = x
                                        THEN SettleRows(x) \cup {r} ELSE SettleRows(x)
<1> DEFINE r == [type |-> type, task |-> t, amount |-> amount,
                 balanceAfter |-> credits[u] + amount, key |-> key, heldDelta |-> heldDelta]
<1>1. credits[u] \in Int /\ ledger[u] \in Seq(Entries)
  BY DEF TypeOK
<1>2. r \in Entries
  BY <1>1 DEF Entries
<1>3. r.type = type /\ r.task = t /\ r.amount = amount /\ r.heldDelta = heldDelta
  OBVIOUS
<1>4. ledger' = [ledger EXCEPT ![u] = Append(ledger[u], r)]
  BY DEF Post
<1> HIDE DEF r
<1>5. ledger'[u] = Append(ledger[u], r) /\ \A v \in Users \ {u} : ledger'[v] = ledger[v]
  BY <1>4 DEF TypeOK
<1>6. /\ DOMAIN ledger'[u] = DOMAIN ledger[u] \cup {Len(ledger[u]) + 1}
      /\ \A i \in DOMAIN ledger[u] : ledger'[u][i] = ledger[u][i]
      /\ ledger'[u][Len(ledger[u]) + 1] = r
  BY <1>1, <1>2, <1>5
<1>7. Rows(u)' = Rows(u) \cup {r}
  BY <1>6 DEF Rows
<1>8. \A v \in Users \ {u} : Rows(v)' = Rows(v)
  BY <1>5 DEF Rows
<1>9. ASSUME NEW x \in Tasks
      PROVE  /\ HoldRows(x)' = IF u = Owner[x] /\ type = "hold" /\ t = x
                               THEN HoldRows(x) \cup {r} ELSE HoldRows(x)
             /\ SettleRows(x)' = IF u = Owner[x] /\ type \in SettleTypes /\ t = x
                                 THEN SettleRows(x) \cup {r} ELSE SettleRows(x)
  <2>1. Owner[x] \in Users
    BY LedgerAssumption
  <2>2. CASE u = Owner[x]
    <3>1. Rows(Owner[x])' = Rows(Owner[x]) \cup {r}
      BY <1>7, <2>2
    <3> QED
      BY <1>3, <2>2, <3>1 DEF HoldRows, SettleRows
  <2>3. CASE u # Owner[x]
    <3>1. Rows(Owner[x])' = Rows(Owner[x])
      BY <1>8, <2>1, <2>3
    <3> QED
      BY <2>3, <3>1 DEF HoldRows, SettleRows
  <2> QED
    BY <2>2, <2>3
<1> QED
  BY <1>2, <1>3, <1>9

\* A task whose rows stay says what it said.
LEMMA SameHolds ==
    ASSUME NEW t \in Tasks, HoldRows(t)' = HoldRows(t) PROVE HeldAmount(t)' = HeldAmount(t)
  BY DEF HeldAmount

LEMMA SameSettles ==
    ASSUME NEW t \in Tasks, SettleRows(t)' = SettleRows(t)
    PROVE  Released(t)' = Released(t) /\ Returned(t)' = Returned(t)
  BY DEF Released, Returned

\* Hold: the first hold row of its task, and nothing else.
LEMMA HoldRowsMove ==
    ASSUME IInv, NEW t \in Tasks, NEW a \in HoldAmounts, Hold(t, a)
    PROVE  /\ credits' = [credits EXCEPT ![Owner[t]] = credits[Owner[t]] - a]
           /\ held' = [held EXCEPT ![Owner[t]] = held[Owner[t]] + a]
           /\ HoldRows(t) = {} /\ HeldAmount(t) = 0 /\ HoldRows(t)' # {} /\ HeldAmount(t)' = a
           /\ \A e, f \in HoldRows(t)' : e = f
           /\ \A x \in Tasks : SettleRows(x)' = SettleRows(x)
           /\ \A x \in Tasks \ {t} : HoldRows(x)' = HoldRows(x)
<1>1. Post(Owner[t], "hold", t, -a, NoKey, a) /\ HoldRows(t) = {}
  BY DEF Hold
<1>2. /\ "hold" \in EntryTypes /\ "hold" \notin SettleTypes /\ NoKey \in Keys /\ Owner[t] \in Users
      /\ a \in Nat /\ -a \in Int
  BY LedgerAssumption DEF EntryTypes, SettleTypes, Keys
<1>3. PICK r \in Entries :
         /\ r.amount = -a
         /\ HoldRows(t)' = {r}
         /\ \A x \in Tasks : SettleRows(x)' = SettleRows(x)
         /\ \A x \in Tasks \ {t} : HoldRows(x)' = HoldRows(x)
  BY <1>1, <1>2, PostRows DEF IInv
<1>4. HeldAmount(t)' = a /\ HeldAmount(t) = 0
  BY <1>1, <1>2, <1>3 DEF HeldAmount
<1>5. held[Owner[t]] \in Nat /\ credits[Owner[t]] \in Int
  BY <1>2 DEF IInv, TypeOK
<1>6. Clamp(held[Owner[t]] + a) = held[Owner[t]] + a /\ credits[Owner[t]] + (-a) = credits[Owner[t]] - a
  BY <1>2, <1>5 DEF Clamp
<1>7. /\ credits' = [credits EXCEPT ![Owner[t]] = credits[Owner[t]] + (-a)]
      /\ held' = [held EXCEPT ![Owner[t]] = Clamp(held[Owner[t]] + a)]
  BY <1>1 DEF Post
<1> QED
  BY <1>1, <1>3, <1>4, <1>6, <1>7

\* Settle: the first settlement row of its task, which gives back and releases no more
\* than its hold.
LEMMA SettleRowsMove ==
    ASSUME IInv, HoldsOnce, NEW s \in Sessions, Settle(s)
    PROVE  \E t \in Tasks, h \in Nat, back \in Nat :
              /\ h = 0 \/ (h = HeldAmount(t) /\ HoldRows(t) # {})
              /\ back <= h
              /\ credits' = [credits EXCEPT ![Owner[t]] = credits[Owner[t]] + back]
              /\ held' = [held EXCEPT ![Owner[t]] = Clamp(held[Owner[t]] - h)]
              /\ SettleRows(t) = {} /\ SettleRows(t)' # {} /\ Returned(t)' = back /\ Released(t)' = h
              /\ \A x \in Tasks : HoldRows(x)' = HoldRows(x)
              /\ \A x \in Tasks \ {t} : SettleRows(x)' = SettleRows(x)
<1>1. txn[s] \in Pending
  BY DEF Settle, IInv, TypeOK
<1>2. PICK t \in Tasks, h \in Nat, actual \in Nat, type \in SettleTypes :
         t = txn[s].task /\ h = txn[s].held /\ actual = txn[s].actual /\ type = txn[s].type
  BY <1>1 DEF Pending
<1>3. /\ actual <= h
      /\ h > 0 => \E e \in HoldRows(t) : h = -e.amount
  BY <1>2 DEF Settle, IInv, SnapshotBacked
<1>4. PICK back \in Nat, delta \in Int : back = h - actual /\ delta = -h
  <2>1. h - actual \in Nat /\ -h \in Int
    BY <1>3
  <2> QED
    BY <2>1
<1>5. Post(Owner[t], type, t, back, SettleKey(t), delta)
  BY <1>2, <1>4 DEF Settle
<1>6. /\ type \in EntryTypes /\ type # "hold" /\ SettleKey(t) \in Keys /\ Owner[t] \in Users /\ back \in Int
      /\ t \in Tasks \cup {NoTask}
  BY <1>2, <1>4, LedgerAssumption DEF EntryTypes, SettleTypes, Keys, SettleKey
\* The index would have refused a second row under the key of the task.
<1>7. SettleRows(t) = {}
  <2> SUFFICES ASSUME NEW e \in SettleRows(t) PROVE FALSE
    OBVIOUS
  <2>1. PICK i \in DOMAIN ledger[Owner[t]] : e = ledger[Owner[t]][i]
    BY DEF SettleRows, Rows
  <2>2. e.key = SettleKey(t)
    BY <1>6, <2>1 DEF IInv, SettleRowsKeyed, SettleRows
  <2>3. SettleKey(t) # NoKey
    BY DEF SettleKey, NoKey
  <2> QED
    BY <1>5, <1>6, <2>2, <2>3 DEF Post, KeyTaken, SettleRows
<1>8. PICK r \in Entries :
         /\ r.amount = back /\ r.heldDelta = delta
         /\ SettleRows(t)' = {r}
         /\ \A x \in Tasks : HoldRows(x)' = HoldRows(x)
         /\ \A x \in Tasks \ {t} : SettleRows(x)' = SettleRows(x)
  <2>1. TypeOK
    BY DEF IInv
  <2>2. PICK r \in Entries :
           /\ r.type = type /\ r.task = t /\ r.amount = back /\ r.heldDelta = delta
           /\ \A x \in Tasks :
                 /\ HoldRows(x)' = IF Owner[t] = Owner[x] /\ type = "hold" /\ t = x
                                   THEN HoldRows(x) \cup {r} ELSE HoldRows(x)
                 /\ SettleRows(x)' = IF Owner[t] = Owner[x] /\ type \in SettleTypes /\ t = x
                                     THEN SettleRows(x) \cup {r} ELSE SettleRows(x)
    BY <1>4, <1>5, <1>6, <2>1, PostRows
  <2> QED
    BY <1>2, <1>6, <1>7, <2>2
<1>9. Returned(t)' = back /\ Released(t)' = h
  BY <1>4, <1>8 DEF Returned, Released
<1>10. h = 0 \/ (h = HeldAmount(t) /\ HoldRows(t) # {})
  <2> SUFFICES ASSUME h # 0 PROVE h = HeldAmount(t) /\ HoldRows(t) # {}
    OBVIOUS
  <2>1. PICK e \in HoldRows(t) : h = -e.amount
    BY <1>3
  <2>2. PICK f \in HoldRows(t) : HeldAmount(t) = -f.amount
    BY <2>1 DEF HeldAmount
  <2> QED
    BY <2>1, <2>2 DEF HoldsOnce
<1>11. /\ credits' = [credits EXCEPT ![Owner[t]] = credits[Owner[t]] + back]
       /\ held' = [held EXCEPT ![Owner[t]] = Clamp(held[Owner[t]] - h)]
  <2>1. /\ credits' = [credits EXCEPT ![Owner[t]] = credits[Owner[t]] + back]
        /\ held' = [held EXCEPT ![Owner[t]] = Clamp(held[Owner[t]] + delta)]
    BY <1>5 DEF Post
  <2>2. held[Owner[t]] + delta = held[Owner[t]] - h
    BY <1>4, <1>6 DEF IInv, TypeOK
  <2> QED
    BY <2>1, <2>2
<1>12. back <= h /\ SettleRows(t)' # {}
  BY <1>3, <1>4, <1>8
<1> QED
  BY <1>7, <1>8, <1>9, <1>10, <1>11, <1>12

\* A topup concerns no task.
LEMMA TopupRowsStay ==
    ASSUME IInv, NEW u \in Users, NEW a \in TopupAmounts, NEW k \in TopupKeys, Topup(u, a, k)
    PROVE  /\ credits' = [credits EXCEPT ![u] = credits[u] + a]
           /\ held' = held
           /\ \A x \in Tasks : HoldRows(x)' = HoldRows(x) /\ SettleRows(x)' = SettleRows(x)
<1>1. Post(u, "topup", NoTask, a, AdminKey(k), 0)
  BY DEF Topup
<1>2. /\ "topup" \in EntryTypes /\ "topup" \notin SettleTypes /\ "topup" # "hold"
      /\ AdminKey(k) \in Keys /\ a \in Int /\ 0 \in Int /\ NoTask \in Tasks \cup {NoTask}
  BY LedgerAssumption DEF EntryTypes, SettleTypes, Keys, AdminKey
<1>3. \A x \in Tasks : HoldRows(x)' = HoldRows(x) /\ SettleRows(x)' = SettleRows(x)
  BY <1>1, <1>2, PostRows DEF IInv
<1>4. /\ credits' = [credits EXCEPT ![u] = credits[u] + a]
      /\ held' = [held EXCEPT ![u] = Clamp(held[u] + 0)]
  BY <1>1 DEF Post
<1>5. Clamp(held[u] + 0) = held[u] /\ held \in [Users -> Nat]
  BY DEF Clamp, IInv, TypeOK
<1> QED
  BY <1>3, <1>4, <1>5

LEMMA HoldsOnceKept ==
    ASSUME IInv, HoldsOnce, [Next]_vars
    PROVE  HoldsOnce'
<1>1. ASSUME NEW t \in Tasks, NEW a \in HoldAmounts, Hold(t, a) PROVE HoldsOnce'
  <2>1. /\ \A e, f \in HoldRows(t)' : e = f
        /\ \A x \in Tasks \ {t} : HoldRows(x)' = HoldRows(x)
    BY <1>1, HoldRowsMove
  <2>2. ASSUME NEW x \in Tasks \ {t} PROVE \A e, f \in HoldRows(x)' : e = f
    BY <2>1 DEF HoldsOnce
  <2> QED
    BY <2>1, <2>2 DEF HoldsOnce
<1>2. ASSUME \A x \in Tasks : HoldRows(x)' = HoldRows(x) PROVE HoldsOnce'
  BY <1>2 DEF HoldsOnce
<1>3. ASSUME NEW u \in Users, NEW a \in TopupAmounts, NEW k \in TopupKeys, Topup(u, a, k) PROVE HoldsOnce'
  <2>1. \A x \in Tasks : HoldRows(x)' = HoldRows(x)
    BY <1>3, TopupRowsStay
  <2> QED
    BY <1>2, <2>1
<1>4. ASSUME NEW s \in Sessions, Settle(s) PROVE HoldsOnce'
  <2>1. \A x \in Tasks : HoldRows(x)' = HoldRows(x)
    BY <1>4, SettleRowsMove
  <2> QED
    BY <1>2, <2>1
<1>5. ASSUME UNCHANGED ledger PROVE HoldsOnce'
  BY <1>5 DEF HoldsOnce, HoldRows, Rows
<1> QED
  BY <1>1, <1>3, <1>4, <1>5 DEF Next, vars, BeginCharge, BeginRefund, AlreadySettled, Abort

-----------------------------------------------------------------------------
(* The ledger implements the accounts *)

LEMMA InitAccounts == ASSUME Init PROVE Accounts!Init
<1>1. ASSUME NEW x \in Tasks PROVE HoldRows(x) = {} /\ SettleRows(x) = {}
  <2>1. Rows(Owner[x]) = {}
    BY LedgerAssumption DEF Init, Rows
  <2> QED
    BY <2>1 DEF HoldRows, SettleRows
<1>2. [x \in Tasks |-> IF HoldRows(x) = {} THEN -1 ELSE HeldAmount(x)] = [x \in Tasks |-> -1]
  BY <1>1
<1>3. [x \in Tasks |-> Returned(x)] = [x \in Tasks |-> 0]
  BY <1>1 DEF Returned
<1>4. {x \in Tasks : SettleRows(x) # {}} = {}
  BY <1>1
<1> QED
  BY <1>2, <1>3, <1>4 DEF Init, Accounts!Init, Accounts!NotHeld

\* Each transaction that books a row is a step of the accounts, and every other one
\* leaves them where they are.
LEMMA StepsAreAccounts ==
    ASSUME IInv, HoldsOnce, [Next]_vars
    PROVE  [Accounts!Next]_(Accounts!vars)
<1> DEFINE F == [x \in Tasks |-> IF HoldRows(x) = {} THEN -1 ELSE HeldAmount(x)]
           B == [x \in Tasks |-> Returned(x)]
           C == {x \in Tasks : SettleRows(x) # {}}
<1>o. \A x \in Tasks : Owner[x] \in Users
  BY LedgerAssumption
<1>1. ASSUME NEW t \in Tasks, NEW a \in HoldAmounts, Hold(t, a) PROVE Accounts!Next
  <2>1. /\ credits' = [credits EXCEPT ![Owner[t]] = credits[Owner[t]] - a]
        /\ HoldRows(t) = {} /\ HoldRows(t)' # {} /\ HeldAmount(t)' = a
        /\ \A x \in Tasks : SettleRows(x)' = SettleRows(x)
        /\ \A x \in Tasks \ {t} : HoldRows(x)' = HoldRows(x)
    BY <1>1, HoldRowsMove
  <2>2. \A x \in Tasks \ {t} : HeldAmount(x)' = HeldAmount(x)
    BY <2>1, SameHolds
  <2>3. \A x \in Tasks : Returned(x)' = Returned(x)
    BY <2>1, SameSettles
  <2>4. F[t] = -1 /\ F' = [F EXCEPT ![t] = a]
    BY <2>1, <2>2
  <2>5. B' = B /\ C' = C
    BY <2>1, <2>3
  <2>6. credits[Owner[t]] >= a
    BY <1>1 DEF Hold
  <2>7. Accounts!Freeze(t, a)
    BY <2>1, <2>4, <2>5, <2>6 DEF Accounts!Freeze, Accounts!NotHeld
  <2> QED
    BY <2>7 DEF Accounts!Next
<1>2. ASSUME NEW u \in Users, NEW a \in TopupAmounts, NEW k \in TopupKeys, Topup(u, a, k)
      PROVE  Accounts!Next
  <2>1. /\ credits' = [credits EXCEPT ![u] = credits[u] + a]
        /\ \A x \in Tasks : HoldRows(x)' = HoldRows(x) /\ SettleRows(x)' = SettleRows(x)
    BY <1>2, TopupRowsStay
  <2>2. \A x \in Tasks : HeldAmount(x)' = HeldAmount(x) /\ Returned(x)' = Returned(x)
    BY <2>1, SameHolds, SameSettles
  <2>3. F' = F /\ B' = B /\ C' = C
    BY <2>1, <2>2
  <2>4. Accounts!Deposit(u, a)
    BY <2>1, <2>3 DEF Accounts!Deposit
  <2> QED
    BY <2>4 DEF Accounts!Next
<1>3. ASSUME NEW s \in Sessions, Settle(s) PROVE Accounts!Next
  <2>1. PICK t \in Tasks, h \in Nat, back \in Nat :
           /\ h = 0 \/ (h = HeldAmount(t) /\ HoldRows(t) # {})
           /\ back <= h
           /\ credits' = [credits EXCEPT ![Owner[t]] = credits[Owner[t]] + back]
           /\ SettleRows(t) = {} /\ SettleRows(t)' # {} /\ Returned(t)' = back
           /\ \A x \in Tasks : HoldRows(x)' = HoldRows(x)
           /\ \A x \in Tasks \ {t} : SettleRows(x)' = SettleRows(x)
    BY <1>3, SettleRowsMove
  <2>2. \A x \in Tasks : HeldAmount(x)' = HeldAmount(x)
    BY <2>1, SameHolds
  <2>3. \A x \in Tasks \ {t} : Returned(x)' = Returned(x)
    BY <2>1, SameSettles
  <2>4. F' = F
    BY <2>1, <2>2
  <2>5. B' = [B EXCEPT ![t] = back] /\ C' = C \cup {t} /\ t \notin C
    BY <2>1, <2>3
  <2>6. Accounts!Close(t, back)
    BY <2>1, <2>4, <2>5 DEF Accounts!Close
  <2>7. HeldAmount(t) \in Nat
    BY HeldAmountBacked DEF IInv
  <2>8. back \in 0 .. Accounts!Frozen(t)
    BY <2>1, <2>7 DEF Accounts!Frozen, Accounts!NotHeld
  <2> QED
    BY <2>6, <2>8 DEF Accounts!Next
<1>4. ASSUME UNCHANGED <<credits, ledger>> PROVE UNCHANGED Accounts!vars
  BY <1>4 DEF Accounts!vars, HoldRows, SettleRows, Rows, HeldAmount, Returned
<1> QED
  BY <1>1, <1>2, <1>3, <1>4 DEF Next, vars, BeginCharge, BeginRefund, AlreadySettled, Abort

\* Whatever transactions interleave, the ledger implements the accounts: the cached
\* balance moves only by deposit, by freezing what is available, and by closing a task
\* once with at most its hold coming back (internal/billing).
THEOREM LedgerImplementsAccounts == Spec => ImplementsAccounts
<1>1. Init => IInv /\ HoldsOnce /\ Accounts!Init
  <2>1. ASSUME Init PROVE HoldsOnce
    BY <2>1, LedgerAssumption DEF Init, HoldsOnce, HoldRows, Rows
  <2> QED
    BY <2>1, InitEstablishes, InitAccounts
<1>2. IInv /\ HoldsOnce /\ [Next]_vars => IInv' /\ HoldsOnce' /\ [Accounts!Next]_(Accounts!vars)
  BY NextKeeps, HoldsOnceKept, StepsAreAccounts
<1> QED
  BY <1>1, <1>2, PTL DEF Spec, ImplementsAccounts, Accounts!Spec

-----------------------------------------------------------------------------
(* credits_held counts what is still frozen *)

\* A settlement releases the whole hold it has seen, or has seen none.
ReleasesWhole ==
    \A t \in Tasks : Released(t) = 0 \/ (Released(t) = HeldAmount(t) /\ HoldRows(t) # {})

FrozenCounted ==
    \A u \in Users : IsFiniteSet(StillFrozen(u)) /\ held[u] = Cardinality(StillFrozen(u))

HeldInv == HoldsOnce /\ ReleasesWhole /\ FrozenCounted

\* What of its hold a task still keeps frozen.
Kept(t) == {t} \X (Released(t) + 1 .. HeldAmount(t))

LEMMA KeptIs ==
    /\ \A u : \A z : z \in StillFrozen(u) <=> \E t \in Tasks : Owner[t] = u /\ z \in Kept(t)
    /\ \A t : \A z \in Kept(t) : z[1] = t
  BY DEF StillFrozen, Kept

\* As many pairs as numbers.
LEMMA UnitsCount ==
    ASSUME NEW t, NEW n \in Nat
    PROVE  IsFiniteSet({t} \X (1 .. n)) /\ Cardinality({t} \X (1 .. n)) = n
<1> DEFINE S == {t} \X (1 .. n)
           f == [i \in 1 .. n |-> <<t, i>>]
<1>1. f \in Bijection(1 .. n, S)
  <2>1. f \in [1 .. n -> S]
    OBVIOUS
  <2>2. \A i, j \in 1 .. n : f[i] = f[j] => i = j
    OBVIOUS
  <2>3. \A z \in S : \E i \in 1 .. n : f[i] = z
    OBVIOUS
  <2> HIDE DEF f, S
  <2> QED
    BY <2>1, <2>2, <2>3, Fun_IsBij
<1>2. ExistsBijection(1 .. n, S)
  BY <1>1 DEF ExistsBijection
<1> HIDE DEF S
<1>3. IsFiniteSet(S) /\ Cardinality(S) = n
  BY <1>2, FS_NatBijection, FS_CountingElements
<1> QED
  BY <1>3 DEF S

\* The users none of whose tasks change their rows.
LEMMA FrozenStays ==
    ASSUME NEW u \in Users,
           \A t \in Tasks : Owner[t] = u => Kept(t)' = Kept(t)
    PROVE  StillFrozen(u)' = StillFrozen(u)
  BY DEF StillFrozen, Kept

LEMMA HeldAtHold ==
    ASSUME IInv, HeldInv, NEW t \in Tasks, NEW a \in HoldAmounts, Hold(t, a)
    PROVE  ReleasesWhole' /\ FrozenCounted'
<1>1. /\ held' = [held EXCEPT ![Owner[t]] = held[Owner[t]] + a]
      /\ HoldRows(t) = {} /\ HeldAmount(t) = 0 /\ HeldAmount(t)' = a
      /\ \A x \in Tasks : SettleRows(x)' = SettleRows(x)
      /\ \A x \in Tasks \ {t} : HoldRows(x)' = HoldRows(x)
  BY HoldRowsMove
<1>2. Owner[t] \in Users /\ a \in Nat
  BY LedgerAssumption
<1>3. \A x \in Tasks : Released(x)' = Released(x)
  BY <1>1, SameSettles
<1>4. \A x \in Tasks \ {t} : HeldAmount(x)' = HeldAmount(x)
  BY <1>1, SameHolds
<1>5. Released(t) = 0
  BY <1>1 DEF HeldInv, ReleasesWhole
<1>6. ReleasesWhole'
  BY <1>1, <1>3, <1>4, <1>5 DEF HeldInv, ReleasesWhole
<1>7. Kept(t) = {} /\ Kept(t)' = {t} \X (1 .. a)
  BY <1>1, <1>3, <1>5 DEF Kept
<1>8. \A x \in Tasks \ {t} : Kept(x)' = Kept(x)
  BY <1>3, <1>4 DEF Kept
<1>9. ASSUME NEW u \in Users, u # Owner[t]
      PROVE  IsFiniteSet(StillFrozen(u)') /\ held'[u] = Cardinality(StillFrozen(u)')
  <2>1. StillFrozen(u)' = StillFrozen(u)
    BY <1>8, <1>9, FrozenStays
  <2>2. held'[u] = held[u]
    BY <1>1, <1>9 DEF IInv, TypeOK
  <2> QED
    BY <2>1, <2>2 DEF HeldInv, FrozenCounted
<1>10. ASSUME NEW u \in Users, u = Owner[t]
       PROVE  IsFiniteSet(StillFrozen(u)') /\ held'[u] = Cardinality(StillFrozen(u)')
  <2> DEFINE S == StillFrozen(u)
             T == {t} \X (1 .. a)
             U == StillFrozen(u)'
  <2>1. U = S \cup T
    <3>1. \A z : z \in StillFrozen(u)' <=> \E x \in Tasks : Owner[x] = u /\ z \in Kept(x)'
      BY DEF StillFrozen, Kept
    <3> QED
      BY <1>7, <1>8, <1>10, <3>1, KeptIs
  <2>2. S \cap T = {}
    BY <1>7, KeptIs
  <2>3. IsFiniteSet(S) /\ held[u] = Cardinality(S) /\ held[u] \in Nat
    BY DEF HeldInv, FrozenCounted, IInv, TypeOK
  <2>4. IsFiniteSet(T) /\ Cardinality(T) = a
    BY <1>2, UnitsCount
  <2> HIDE DEF S, T, U
  <2>5. IsFiniteSet(S \cup T) /\ Cardinality(S \cup T) = held[u] + a
    <3>1. Cardinality(S \cap T) = 0
      BY <2>2, FS_EmptySet
    <3>2. /\ IsFiniteSet(S \cup T)
          /\ Cardinality(S \cup T) = Cardinality(S) + Cardinality(T) - Cardinality(S \cap T)
      BY <2>3, <2>4, FS_Union
    <3> QED
      BY <1>2, <2>3, <2>4, <3>1, <3>2
  <2>6. held'[u] = held[u] + a
    BY <1>1, <1>10 DEF IInv, TypeOK
  <2> QED
    BY <2>1, <2>5, <2>6 DEF U
<1> QED
  BY <1>6, <1>9, <1>10 DEF FrozenCounted

LEMMA HeldAtSettle ==
    ASSUME IInv, HeldInv, NEW s \in Sessions, Settle(s)
    PROVE  ReleasesWhole' /\ FrozenCounted'
<1>1. PICK t \in Tasks, h \in Nat :
         /\ h = 0 \/ (h = HeldAmount(t) /\ HoldRows(t) # {})
         /\ held' = [held EXCEPT ![Owner[t]] = Clamp(held[Owner[t]] - h)]
         /\ SettleRows(t) = {} /\ Released(t)' = h
         /\ \A x \in Tasks : HoldRows(x)' = HoldRows(x)
         /\ \A x \in Tasks \ {t} : SettleRows(x)' = SettleRows(x)
  BY SettleRowsMove DEF HeldInv
<1>2. Owner[t] \in Users
  BY LedgerAssumption
<1>3. \A x \in Tasks \ {t} : Released(x)' = Released(x)
  BY <1>1, SameSettles
<1>4. \A x \in Tasks : HeldAmount(x)' = HeldAmount(x)
  BY <1>1, SameHolds
<1>5. Released(t) = 0
  BY <1>1 DEF Released
<1>6. ReleasesWhole'
  BY <1>1, <1>3, <1>4 DEF HeldInv, ReleasesWhole
<1>7. h = 0 => Kept(t)' = Kept(t)
  BY <1>1, <1>4, <1>5 DEF Kept
<1>8. h # 0 => Kept(t)' = {} /\ Kept(t) = {t} \X (1 .. h)
  BY <1>1, <1>4, <1>5 DEF Kept
<1>9. \A x \in Tasks \ {t} : Kept(x)' = Kept(x)
  BY <1>3, <1>4 DEF Kept
<1>10. ASSUME NEW u \in Users, u # Owner[t] \/ h = 0
      PROVE  IsFiniteSet(StillFrozen(u)') /\ held'[u] = Cardinality(StillFrozen(u)')
  <2>1. StillFrozen(u)' = StillFrozen(u)
    BY <1>7, <1>9, <1>10, FrozenStays
  <2>2. held'[u] = held[u]
    BY <1>1, <1>2, <1>10 DEF IInv, TypeOK, Clamp
  <2> QED
    BY <2>1, <2>2 DEF HeldInv, FrozenCounted
<1>11. ASSUME NEW u \in Users, u = Owner[t], h # 0
       PROVE  IsFiniteSet(StillFrozen(u)') /\ held'[u] = Cardinality(StillFrozen(u)')
  <2> DEFINE S == StillFrozen(u)
             T == {t} \X (1 .. h)
             U == StillFrozen(u)'
  <2>1. U = S \ T
    <3>1. \A z : z \in StillFrozen(u)' <=> \E x \in Tasks : Owner[x] = u /\ z \in Kept(x)'
      BY DEF StillFrozen, Kept
    <3> QED
      BY <1>8, <1>9, <1>11, <3>1, KeptIs
  <2>2. S \cap T = T
    BY <1>8, <1>11, KeptIs
  <2>3. IsFiniteSet(S) /\ held[u] = Cardinality(S) /\ held[u] \in Nat
    BY DEF HeldInv, FrozenCounted, IInv, TypeOK
  <2>4. Cardinality(T) = h
    BY UnitsCount
  <2> HIDE DEF S, T, U
  <2>5. IsFiniteSet(U) /\ Cardinality(U) = held[u] - h /\ Cardinality(U) \in Nat
    BY <2>1, <2>2, <2>3, <2>4, FS_Difference, FS_CardinalityType
  <2>6. held'[u] = held[u] - h
    BY <1>1, <1>11, <2>3, <2>5 DEF IInv, TypeOK, Clamp
  <2> QED
    BY <2>5, <2>6 DEF U
<1> QED
  BY <1>6, <1>10, <1>11 DEF FrozenCounted

\* The transactions that move neither a row nor a total of credits_held.
LEMMA HeldElsewhere ==
    ASSUME HeldInv, held' = held,
           \A x \in Tasks : HoldRows(x)' = HoldRows(x) /\ SettleRows(x)' = SettleRows(x)
    PROVE  ReleasesWhole' /\ FrozenCounted'
<1>1. \A x \in Tasks : HeldAmount(x)' = HeldAmount(x) /\ Released(x)' = Released(x)
  BY SameHolds, SameSettles
<1>2. \A u \in Users : StillFrozen(u)' = StillFrozen(u)
  BY <1>1, FrozenStays DEF Kept
<1> QED
  BY <1>1, <1>2 DEF HeldInv, ReleasesWhole, FrozenCounted

LEMMA HeldInvKept ==
    ASSUME IInv, HeldInv, [Next]_vars
    PROVE  HeldInv'
<1>1. HoldsOnce'
  BY HoldsOnceKept DEF HeldInv
<1>2. ASSUME UNCHANGED <<held, ledger>> PROVE ReleasesWhole' /\ FrozenCounted'
  <2>1. \A x \in Tasks : HoldRows(x)' = HoldRows(x) /\ SettleRows(x)' = SettleRows(x)
    BY <1>2 DEF HoldRows, SettleRows, Rows
  <2> QED
    BY <1>2, <2>1, HeldElsewhere
<1>3. ASSUME NEW u \in Users, NEW a \in TopupAmounts, NEW k \in TopupKeys, Topup(u, a, k)
      PROVE  ReleasesWhole' /\ FrozenCounted'
  BY <1>3, TopupRowsStay, HeldElsewhere
<1>4. ReleasesWhole' /\ FrozenCounted'
  BY <1>2, <1>3, HeldAtHold, HeldAtSettle DEF Next, vars, BeginCharge, BeginRefund, AlreadySettled, Abort
<1> QED
  BY <1>1, <1>4 DEF HeldInv

\* credits_held counts what the holds of a user froze and their settlements have not
\* released: appendLedgerTx never has to clamp it (ledger.go; billing.go settleTx).
THEOREM LedgerHeldExplained == Spec => []HeldExplained
<1>1. ASSUME Init PROVE IInv /\ HeldInv
  <2>1. ASSUME NEW x \in Tasks PROVE HoldRows(x) = {} /\ SettleRows(x) = {}
    BY <1>1, LedgerAssumption DEF Init, HoldRows, SettleRows, Rows
  <2>2. \A x \in Tasks : HeldAmount(x) = 0 /\ Released(x) = 0
    BY <2>1 DEF HeldAmount, Released
  <2>3. \A x \in Tasks : Kept(x) = {}
    BY <2>2 DEF Kept
  <2>4. \A u \in Users : StillFrozen(u) = {}
    BY <2>3, KeptIs
  <2>5. FrozenCounted
    BY <1>1, <2>4, FS_EmptySet DEF Init, FrozenCounted
  <2> QED
    BY <1>1, <2>1, <2>2, <2>5, InitEstablishes DEF HeldInv, HoldsOnce, ReleasesWhole
<1>2. IInv /\ HeldInv /\ [Next]_vars => IInv' /\ HeldInv'
  BY NextKeeps, HeldInvKept
<1>3. HeldInv => HeldExplained
  BY DEF HeldInv, FrozenCounted, HeldExplained
<1> QED
  BY <1>1, <1>2, <1>3, PTL DEF Spec
=============================================================================
