--------------------------- MODULE TaskExecProofs ---------------------------
(***************************************************************************)
(* Proofs about TaskExec, for every set of tasks, processes and goroutines *)
(* and with every fault the model knows.                                   *)
(***************************************************************************)
EXTENDS TaskExec, TLAPS

-----------------------------------------------------------------------------
(* The inductive invariant *)

\* Goroutine g stands at pc with task t in its hands.
With(g, pc, t) == run[g].pc = pc /\ run[g].task = t

\* Whoever is about to settle a task has ended it, or has seen it ended.
PayersEntitled ==
    \A g \in Goroutines, t \in Tasks : requeues[t] = 0 =>
        /\ With(g, "charge", t) => status[t] = "succeeded"
        /\ With(g, "refund", t) \/ With(g, "outerRefund", t)
              => status[t] \in {"failed", "canceled"}

\* Whoever is about to call a task succeeded has stored its products.
FinishersStored ==
    \A g \in Goroutines, t \in Tasks : With(g, "succeed", t) => stored[t]

IInv ==
    /\ TypeOK
    /\ SettledAsShown
    /\ SucceededHasProducts
    /\ PayersEntitled
    /\ FinishersStored

-----------------------------------------------------------------------------
(* What a step may do, as far as the invariant is concerned *)

\* A status that is final is left only by a requeue.
KeepsFinal ==
    \A t \in Tasks : status[t] \in Terminal =>
        status'[t] = status[t] \/ Requeue(t)

\* Requeues are never taken back, and products stay stored.
KeepsHistory ==
    \A t \in Tasks :
        /\ requeues'[t] = 0 => requeues[t] = 0
        /\ stored[t] => stored'[t]

\* Only a goroutine that is at it settles a task.
SettlesByPayers ==
    \A t \in Tasks :
        /\ money'[t] = "charged" => \/ money[t] = "charged"
                                    \/ \E g \in Goroutines : With(g, "charge", t)
        /\ money'[t] = "refunded" => \/ money[t] = "refunded"
                                     \/ \E g \in Goroutines : With(g, "refund", t)
                                     \/ \E g \in Goroutines : With(g, "outerRefund", t)

\* Only a goroutine with the products in storage calls a task succeeded.
SucceedsByFinishers ==
    \A t \in Tasks : status'[t] = "succeeded" =>
        status[t] = "succeeded" \/ \E g \in Goroutines : With(g, "succeed", t)

\* A goroutine gets to the money through its UPDATE, to that through storage.
ReachesByRight ==
    \A g \in Goroutines, t \in Tasks :
        /\ With(g, "charge", t)' => With(g, "charge", t) \/ status'[t] = "succeeded"
        /\ With(g, "refund", t)' =>
              With(g, "refund", t) \/ status'[t] \in {"failed", "canceled"}
        /\ With(g, "outerRefund", t)' =>
              With(g, "outerRefund", t) \/ status'[t] = "canceled"
        /\ With(g, "succeed", t)' => With(g, "succeed", t) \/ stored'[t]

Proper ==
    /\ TypeOK'
    /\ KeepsFinal
    /\ KeepsHistory
    /\ SettlesByPayers
    /\ SucceedsByFinishers
    /\ ReachesByRight

\* Such a step preserves the invariant.
LEMMA ProperKeeps ==
    ASSUME IInv, Proper
    PROVE  IInv'
<1> USE DEF Terminal
<1>1. TypeOK'
  BY DEF Proper
<1>2. ASSUME NEW t \in Tasks, requeues'[t] = 0
      PROVE  /\ requeues[t] = 0
             /\ status[t] \in Terminal => status'[t] = status[t]
  <2>1. requeues[t] = 0
    BY <1>2 DEF Proper, KeepsHistory
  <2>2. ~Requeue(t)
    BY <1>2, <2>1 DEF Requeue, IInv, TypeOK
  <2> QED
    BY <2>1, <2>2 DEF Proper, KeepsFinal
<1>3. SettledAsShown'
  <2> SUFFICES ASSUME NEW t \in Tasks, requeues'[t] = 0
               PROVE  /\ money'[t] = "charged" => status'[t] = "succeeded"
                      /\ money'[t] = "refunded" => status'[t] \in {"failed", "canceled"}
    BY DEF SettledAsShown
  <2>1. requeues[t] = 0 /\ (status[t] \in Terminal => status'[t] = status[t])
    BY <1>2
  <2>2. ASSUME money'[t] = "charged" PROVE status[t] = "succeeded"
    BY <2>1, <2>2 DEF IInv, SettledAsShown, PayersEntitled, Proper, SettlesByPayers
  <2>3. ASSUME money'[t] = "refunded" PROVE status[t] \in {"failed", "canceled"}
    BY <2>1, <2>3 DEF IInv, SettledAsShown, PayersEntitled, Proper, SettlesByPayers
  <2> QED
    BY <2>1, <2>2, <2>3
<1>4. SucceededHasProducts'
  <2> SUFFICES ASSUME NEW t \in Tasks, status'[t] = "succeeded" PROVE stored'[t]
    BY DEF SucceededHasProducts
  <2>1. stored[t]
    BY DEF IInv, SucceededHasProducts, FinishersStored, Proper, SucceedsByFinishers
  <2> QED
    BY <2>1 DEF Proper, KeepsHistory
<1>5. PayersEntitled'
  <2> SUFFICES ASSUME NEW g \in Goroutines, NEW t \in Tasks, requeues'[t] = 0
               PROVE  /\ With(g, "charge", t)' => status'[t] = "succeeded"
                      /\ With(g, "refund", t)' \/ With(g, "outerRefund", t)'
                            => status'[t] \in {"failed", "canceled"}
    BY DEF PayersEntitled
  <2>1. requeues[t] = 0 /\ (status[t] \in Terminal => status'[t] = status[t])
    BY <1>2
  <2>2. /\ With(g, "charge", t) => status[t] = "succeeded"
        /\ With(g, "refund", t) \/ With(g, "outerRefund", t)
              => status[t] \in {"failed", "canceled"}
    BY <2>1 DEF IInv, PayersEntitled
  <2> QED
    BY <2>1, <2>2 DEF Proper, ReachesByRight
<1>6. FinishersStored'
  <2> SUFFICES ASSUME NEW g \in Goroutines, NEW t \in Tasks, With(g, "succeed", t)'
               PROVE  stored'[t]
    BY DEF FinishersStored
  <2> QED
    BY DEF IInv, FinishersStored, Proper, ReachesByRight, KeepsHistory
<1> QED
  BY <1>1, <1>3, <1>4, <1>5, <1>6 DEF IInv

-----------------------------------------------------------------------------
(* How a step moves one goroutine, and one row *)

\* A goroutine that stands anywhere but at idle has a task in its hands.
LEMMA BusyHasTask ==
    ASSUME TypeOK, NEW g \in Goroutines, run[g].pc # "idle"
    PROVE  run[g].task \in Tasks
<1>1. run[g] \in Runs
  BY DEF TypeOK
<1>2. run[g] # Idle
  BY DEF Idle
<1>3. run[g].task # NoTask
  BY <1>2 DEF TypeOK
<1> QED
  BY <1>1, <1>3 DEF Runs

\* Goroutine g, and no other, now stands at pc with task t.
Moved(g, pc, t) ==
    /\ run' \in [Goroutines -> Runs]
    /\ \A h \in Goroutines : run'[h].task = NoTask => run'[h] = Idle
    /\ \A h \in Goroutines \ {g} : run'[h] = run[h]
    /\ run'[g].pc = pc
    /\ run'[g].task = t

\* A goroutine that picks up a task, or lays it down, moves.
LEMMA TakeMoves ==
    ASSUME TypeOK, NEW g \in Goroutines, NEW r \in Runs,
           r.task = NoTask => r = Idle, run' = [run EXCEPT ![g] = r]
    PROVE  Moved(g, r.pc, r.task)
<1>1. run \in [Goroutines -> Runs]
  BY DEF TypeOK
<1>2. run'[g] = r /\ \A h \in Goroutines \ {g} : run'[h] = run[h]
  BY <1>1
<1>3. run' \in [Goroutines -> Runs]
  BY <1>1
<1>4. \A h \in Goroutines : run'[h].task = NoTask => run'[h] = Idle
  BY <1>2 DEF TypeOK
<1> QED
  BY <1>2, <1>3, <1>4 DEF Moved

\* A goroutine without a task is a goroutine.
LEMMA IdleTyped == ASSUME NoTask \notin Tasks PROVE Idle \in Runs
  BY ExecAssumption DEF Idle, Runs, Active, Points

\* A goroutine that goes on keeps its task.
LEMMA GotoMoves ==
    ASSUME TypeOK, NEW g \in Goroutines, NEW pc \in Points, NEW seen \in Active,
           run[g].pc # "idle", Goto(g, pc) \/ GotoSeeing(g, pc, seen)
    PROVE  Moved(g, pc, run[g].task)
<1>1. run \in [Goroutines -> Runs] /\ run[g] \in Runs
  BY DEF TypeOK
<1>2. run[g].task \in Tasks
  BY BusyHasTask
<1>3. \A h \in Goroutines \ {g} : run'[h] = run[h]
  BY <1>1 DEF Goto, GotoSeeing
<1>4. run'[g].pc = pc /\ run'[g].task = run[g].task
  BY <1>1 DEF Goto, GotoSeeing, Runs
<1>5. run' \in [Goroutines -> Runs]
  BY <1>1 DEF Goto, GotoSeeing, Runs
<1>6. run[g].task # NoTask
  BY <1>2, ExecAssumption
<1>7. \A h \in Goroutines : run'[h].task = NoTask => run'[h] = Idle
  BY <1>3, <1>4, <1>6 DEF TypeOK
<1> QED
  BY <1>3, <1>4, <1>5, <1>7 DEF Moved

\* Return moves a goroutine to idle or, in a cancel handler, on.
LEMMA ReturnMoves ==
    ASSUME TypeOK, NEW g \in Goroutines, run[g].pc # "idle", Return(g)
    PROVE  Moved(g, "outer", run[g].task) \/ Moved(g, "idle", NoTask)
<1>1. CASE g \in Cancellers
  <2>1. Goto(g, "outer")
    BY <1>1 DEF Return
  <2>2. "outer" \in Points /\ "queued" \in Active
    BY DEF Points, Active
  <2>3. Moved(g, "outer", run[g].task)
    BY <2>1, <2>2, GotoMoves
  <2> QED
    BY <2>3
<1>2. CASE g \notin Cancellers
  <2>1. run' = [run EXCEPT ![g] = Idle]
    BY <1>2 DEF Return
  <2>2. Idle \in Runs
    BY IdleTyped, ExecAssumption
  <2>3. Moved(g, Idle.pc, Idle.task)
    BY <2>1, <2>2, TakeMoves
  <2> QED
    BY <2>3 DEF Idle
<1> QED
  BY <1>1, <1>2

\* The points where right has to be shown.
Guarded == {"charge", "refund", "outerRefund", "succeed"}

\* A move to any other point needs none.
LEMMA MoveIsRight ==
    ASSUME NEW g \in Goroutines, NEW pc, NEW t, Moved(g, pc, t), pc \notin Guarded
    PROVE  ReachesByRight
  BY DEF Moved, Guarded, ReachesByRight, With

\* UpdateStatus leaves the row at next, having found it at expect or there.
LEMMA UpdateMoves ==
    ASSUME TypeOK, NEW t \in Tasks, NEW expect \in Active, NEW next \in Statuses,
           UpdateStatus(t, expect, next)
    PROVE  /\ status[t] \in {expect, next}
           /\ status'[t] = next
           /\ \A u \in Tasks \ {t} : status'[u] = status[u]
           /\ status' \in [Tasks -> Statuses]
           /\ lease' \in [Tasks -> Procs \cup {NoProc}]
           /\ due' \in [Tasks -> BOOLEAN]
<1>1. status' = [status EXCEPT ![t] = next] /\ status[t] \in {expect, next}
  BY DEF UpdateStatus
<1>2. lease' \in [Tasks -> Procs \cup {NoProc}] /\ due' \in [Tasks -> BOOLEAN]
  BY DEF UpdateStatus, TypeOK
<1> QED
  BY <1>1, <1>2 DEF TypeOK

\* The variables that hold neither a status nor money.
RestTyped ==
    /\ lease' \in [Tasks -> Procs \cup {NoProc}]
    /\ ref' \in [Tasks -> BOOLEAN]
    /\ due' \in [Tasks -> BOOLEAN]
    /\ attempt' \in [Tasks -> 0 .. MaxAttempt]
    /\ jobs' \in [Tasks -> Nat]
    /\ upstream' \in [Tasks -> {"none", "working"} \cup Terminal]
    /\ pending' \in [Tasks -> Procs \cup {NoProc}]
    /\ stopping' \subseteq Procs
    /\ restarts' \in 0 .. MaxRestarts

Still == UNCHANGED <<status, money, requeues, stored>>

\* Where status and money stand still, only the goroutines have to be looked at.
LEMMA StillProper ==
    ASSUME TypeOK, Still, RestTyped, ReachesByRight,
           run' \in [Goroutines -> Runs],
           \A h \in Goroutines : run'[h].task = NoTask => run'[h] = Idle
    PROVE  Proper
<1>1. TypeOK'
  BY DEF TypeOK, Still, RestTyped
<1>2. KeepsFinal /\ KeepsHistory /\ SettlesByPayers /\ SucceedsByFinishers
  BY DEF Still, KeepsFinal, KeepsHistory, SettlesByPayers, SucceedsByFinishers
<1> QED
  BY <1>1, <1>2 DEF Proper

\* A goroutine may move on within its task while the rows stand still.
LEMMA StillMoveProper ==
    ASSUME TypeOK, Still, RestTyped,
           NEW g \in Goroutines, NEW pc, NEW t, Moved(g, pc, t), pc \notin Guarded
    PROVE  Proper
<1>1. ReachesByRight
  BY MoveIsRight
<1> QED
  BY <1>1, StillProper DEF Moved

\* The rows may change apart from status and money while the goroutines stand still.
LEMMA StillStayProper ==
    ASSUME TypeOK, Still, RestTyped, run' = run
    PROVE  Proper
<1>1. ReachesByRight
  BY DEF ReachesByRight, With
<1>2. /\ run' \in [Goroutines -> Runs]
      /\ \A h \in Goroutines : run'[h].task = NoTask => run'[h] = Idle
  BY DEF TypeOK
<1> QED
  BY <1>1, <1>2, StillProper

\* UpdateStatus from an active status never takes a task out of a final one.
LEMMA UpdateProper ==
    ASSUME TypeOK, NEW t \in Tasks, NEW expect \in Active, NEW next \in Statuses,
           UpdateStatus(t, expect, next), UNCHANGED <<money, requeues, stored>>,
           next = "succeeded" => \E g \in Goroutines : With(g, "succeed", t)
    PROVE  KeepsFinal /\ KeepsHistory /\ SettlesByPayers /\ SucceedsByFinishers
<1>1. /\ status[t] \in {expect, next}
      /\ status'[t] = next
      /\ \A u \in Tasks \ {t} : status'[u] = status[u]
  BY UpdateMoves
<1>2. KeepsFinal
  BY <1>1 DEF KeepsFinal, Active, Terminal
<1>3. SucceedsByFinishers
  BY <1>1 DEF SucceedsByFinishers
<1>4. KeepsHistory /\ SettlesByPayers
  BY DEF KeepsHistory, SettlesByPayers
<1> QED
  BY <1>2, <1>3, <1>4

\* A goroutine that has just moved a row on, and goes to a point its new status
\* gives it the right to.
LEMMA UpdateMoveProper ==
    ASSUME TypeOK, NEW t \in Tasks, NEW expect \in Active, NEW next \in Statuses,
           UpdateStatus(t, expect, next), UNCHANGED <<money, requeues, stored>>,
           next = "succeeded" => \E h \in Goroutines : With(h, "succeed", t),
           RestTyped, NEW g \in Goroutines, NEW pc \in Points, Moved(g, pc, t),
           pc = "charge" => next = "succeeded",
           pc = "refund" => next \in {"failed", "canceled"},
           pc = "outerRefund" => next = "canceled",
           pc # "succeed"
    PROVE  Proper
<1>1. KeepsFinal /\ KeepsHistory /\ SettlesByPayers /\ SucceedsByFinishers
  BY UpdateProper
<1>2. status' \in [Tasks -> Statuses] /\ status'[t] = next
  BY UpdateMoves
<1>3. TypeOK'
  BY <1>2 DEF TypeOK, RestTyped, Moved
<1>4. ReachesByRight
  BY <1>2 DEF ReachesByRight, Moved, With
<1> QED
  BY <1>1, <1>3, <1>4 DEF Proper

-----------------------------------------------------------------------------
(* The actions, one by one *)

\* Submitting, canceling and requeueing over HTTP.
LEMMA HandlersProper ==
    ASSUME TypeOK, NEW t \in Tasks,
           \/ \E p \in Procs : Create(p, t)
           \/ HandlerStep(t)
           \/ Requeue(t)
    PROVE  Proper
<1> USE DEF row, world, procs
<1>1. ASSUME NEW p \in Procs, Create(p, t) PROVE Proper
  <2>1. TypeOK'
    BY <1>1 DEF Create, TypeOK, Statuses, Active
  <2>2. KeepsFinal /\ KeepsHistory /\ SettlesByPayers /\ SucceedsByFinishers
    BY <1>1 DEF Create, TypeOK, Terminal, KeepsFinal, KeepsHistory,
                SettlesByPayers, SucceedsByFinishers
  <2>3. ReachesByRight
    BY <1>1 DEF Create, ReachesByRight, With
  <2> QED
    BY <2>1, <2>2, <2>3 DEF Proper
<1>2. ASSUME Hold(t) PROVE Proper
  <2>1. TypeOK'
    BY <1>2 DEF Hold, TypeOK, Moneys, Settled
  <2>2. KeepsFinal /\ KeepsHistory /\ SucceedsByFinishers
    BY <1>2 DEF Hold, KeepsFinal, KeepsHistory, SucceedsByFinishers
  <2>3. SettlesByPayers
    BY <1>2 DEF Hold, TypeOK, SettlesByPayers
  <2>4. ReachesByRight
    BY <1>2 DEF Hold, ReachesByRight, With
  <2> QED
    BY <2>1, <2>2, <2>3, <2>4 DEF Proper
<1>3. ASSUME HoldFails(t) PROVE Proper
  <2>1. /\ UNCHANGED <<ref, attempt, money, stored, jobs, upstream, requeues, run,
                       stopping, restarts>>
        /\ pending' \in [Tasks -> Procs \cup {NoProc}]
    BY <1>3 DEF HoldFails, TypeOK
  <2>2. CASE UpdateStatus(t, "queued", "failed")
    <3>1. "queued" \in Active /\ "failed" \in Statuses
      BY DEF Active, Statuses, Terminal
    <3>2. KeepsFinal /\ KeepsHistory /\ SettlesByPayers /\ SucceedsByFinishers
      BY <2>1, <2>2, <3>1, UpdateProper
    <3>3. /\ status' \in [Tasks -> Statuses]
          /\ lease' \in [Tasks -> Procs \cup {NoProc}]
          /\ due' \in [Tasks -> BOOLEAN]
      BY <2>2, <3>1, UpdateMoves
    <3>4. TypeOK'
      BY <2>1, <3>3 DEF TypeOK
    <3>5. ReachesByRight
      BY <2>1 DEF ReachesByRight, With
    <3> QED
      BY <3>2, <3>4, <3>5 DEF Proper
  <2>3. CASE UNCHANGED <<status, lease, due>>
    <3>1. Still /\ RestTyped
      BY <2>1, <2>3 DEF Still, RestTyped, TypeOK
    <3> QED
      BY <2>1, <3>1, StillStayProper
  <2> QED
    BY <1>3, <2>2, <2>3 DEF HoldFails
<1>4. ASSUME Requeue(t) PROVE Proper
  <2>1. TypeOK'
    BY <1>4, ExecAssumption DEF Requeue, TypeOK, Statuses, Active
  <2>2. KeepsFinal
    <3>1. \A u \in Tasks \ {t} : status'[u] = status[u]
      BY <1>4 DEF Requeue, TypeOK
    <3> QED
      BY <1>4, <3>1 DEF KeepsFinal
  <2>3. KeepsHistory
    <3>1. requeues[t] \in Nat /\ requeues' = [requeues EXCEPT ![t] = requeues[t] + 1]
      BY <1>4, ExecAssumption DEF Requeue, TypeOK
    <3> QED
      BY <1>4, <3>1 DEF Requeue, TypeOK, KeepsHistory
  <2>4. SettlesByPayers /\ SucceedsByFinishers
    BY <1>4 DEF Requeue, TypeOK, SettlesByPayers, SucceedsByFinishers
  <2>5. ReachesByRight
    BY <1>4 DEF Requeue, ReachesByRight, With
  <2> QED
    BY <2>1, <2>2, <2>3, <2>4, <2>5 DEF Proper
<1> QED
  BY <1>1, <1>2, <1>3, <1>4 DEF HandlerStep

\* A goroutine picks up a task: to cancel, submit, poll or advance it.
LEMMA PickUpProper ==
    ASSUME TypeOK, NEW t \in Tasks, NEW g \in Goroutines,
           BeginCancel(g, t) \/ Claim(g, t) \/ ClaimPoll(g, t) \/ Webhook(g, t)
    PROVE  Proper
<1> USE DEF row, world, procs
<1>1. t # NoTask
  BY ExecAssumption
<1>2. 0 \in 0 .. MaxAttempt /\ 1 \in 0 .. MaxAttempt
  BY ExecAssumption
<1>4. ASSUME BeginCancel(g, t) PROVE Proper
  <2> DEFINE r == [Idle EXCEPT !.pc = "get", !.task = t, !.first = status[t]]
  <2>1. Still /\ RestTyped
    BY <1>4 DEF BeginCancel, Still, RestTyped, TypeOK
  <2>2. r \in Runs /\ r.task = t /\ r.pc = "get"
    BY <1>2, <1>4 DEF BeginCancel, Idle, Runs, Points, Active
  <2>3. Moved(g, r.pc, r.task)
    BY <1>1, <1>4, <2>2, TakeMoves DEF BeginCancel
  <2> QED
    BY <2>1, <2>2, <2>3, StillMoveProper DEF Guarded
<1>5. ASSUME Claim(g, t) PROVE Proper
  <2> DEFINE r == [Idle EXCEPT !.pc = "prepare", !.task = t,
                               !.tries = IF attempt[t] = 0 THEN 1 ELSE attempt[t]]
  <2>1. Still /\ RestTyped
    BY <1>5, ExecAssumption DEF Claim, Still, RestTyped, TypeOK
  <2>2. attempt[t] \in 0 .. MaxAttempt
    BY DEF TypeOK
  <2>3. r \in Runs /\ r.task = t /\ r.pc = "prepare"
    BY <1>2, <2>2 DEF Idle, Runs, Points, Cancelable, Active
  <2>4. Moved(g, r.pc, r.task)
    BY <1>1, <1>5, <2>3, TakeMoves DEF Claim
  <2> QED
    BY <2>1, <2>3, <2>4, StillMoveProper DEF Guarded
<1>6. ASSUME ClaimPoll(g, t) PROVE Proper
  <2> DEFINE r == [Idle EXCEPT !.pc = "ask", !.task = t, !.seen = "running"]
  <2>1. Still /\ RestTyped
    BY <1>6, ExecAssumption DEF ClaimPoll, Still, RestTyped, TypeOK
  <2>2. r \in Runs /\ r.task = t /\ r.pc = "ask"
    BY <1>2 DEF Idle, Runs, Points, Cancelable, Active
  <2>3. Moved(g, r.pc, r.task)
    BY <1>1, <1>6, <2>2, TakeMoves DEF ClaimPoll
  <2> QED
    BY <2>1, <2>2, <2>3, StillMoveProper DEF Guarded
<1>7. ASSUME Webhook(g, t) PROVE Proper
  <2> DEFINE r == [Idle EXCEPT !.pc = "ask", !.task = t, !.seen = status[t]]
  <2>1. Still /\ RestTyped
    BY <1>7 DEF Webhook, Still, RestTyped, TypeOK
  <2>2. r \in Runs /\ r.task = t /\ r.pc = "ask"
    BY <1>2, <1>7 DEF Webhook, Idle, Runs, Points, Cancelable, Active
  <2>3. Moved(g, r.pc, r.task)
    BY <1>1, <1>7, <2>2, TakeMoves DEF Webhook
  <2> QED
    BY <2>1, <2>2, <2>3, StillMoveProper DEF Guarded
<1> QED
  BY <1>4, <1>5, <1>6, <1>7

\* A goroutine goes on without touching status or money.
LEMMA GoOnProper ==
    ASSUME TypeOK, NEW g \in Goroutines, run[g].pc # "idle", Still, RestTyped,
           NEW pc \in Points, NEW seen \in Active, pc \notin Guarded,
           Goto(g, pc) \/ GotoSeeing(g, pc, seen)
    PROVE  Proper
<1>1. Moved(g, pc, run[g].task)
  BY GotoMoves
<1> QED
  BY <1>1, StillMoveProper

\* A goroutine goes on from UpdateStatus to a point without a right to show.
LEMMA MoveOnProper ==
    ASSUME TypeOK, NEW g \in Goroutines, run[g].pc # "idle",
           NEW expect \in Active, NEW next \in Statuses, next # "succeeded",
           UpdateStatus(run[g].task, expect, next),
           UNCHANGED <<money, requeues, stored>>, RestTyped,
           NEW pc \in Points, NEW seen \in Active, pc \notin Guarded,
           Goto(g, pc) \/ GotoSeeing(g, pc, seen)
    PROVE  Proper
<1>1. Moved(g, pc, run[g].task)
  BY GotoMoves
<1>2. run[g].task \in Tasks
  BY BusyHasTask
<1> QED
  BY <1>1, <1>2, UpdateMoveProper DEF Guarded

\* Every step of Run is proper.
LEMMA SubmitStepProper ==
    ASSUME TypeOK, NEW g \in Goroutines, SubmitStep(g)
    PROVE  Proper
<1> USE DEF row, world, procs
<1> DEFINE t == run[g].task
<1>1. run[g].pc # "idle"
  BY DEF SubmitStep, Prepare, Unprepared, Submit, SubmitAgain, SubmitFails, Record,
         Live, At
<1>2. t \in Tasks /\ run[g] \in Runs /\ run \in [Goroutines -> Runs]
  BY <1>1, BusyHasTask DEF TypeOK
<1>3. /\ {"submit", "release", "fail", "record", "transfer", "schedule", "cancel"}
             \subseteq Points \ Guarded
      /\ {"queued", "running"} \subseteq Active
      /\ Active \subseteq Statuses \ {"succeeded"}
  BY DEF Points, Cancelable, Guarded, Active, Statuses
<1> HIDE DEF t
<1>4. ASSUME Prepare(g) PROVE Proper
  <2>1. UNCHANGED <<ref, attempt, money, stored, jobs, upstream, pending, requeues,
                    stopping, restarts>>
    BY <1>4 DEF Prepare
  <2>2. CASE UpdateStatus(t, "queued", "running") /\ GotoSeeing(g, "submit", "running")
    <3>1. lease' \in [Tasks -> Procs \cup {NoProc}] /\ due' \in [Tasks -> BOOLEAN]
      BY <1>2, <1>3, <2>2, UpdateMoves
    <3>2. RestTyped
      BY <2>1, <3>1 DEF RestTyped, TypeOK
    <3> QED
      BY <1>1, <1>3, <2>1, <2>2, <3>2, MoveOnProper DEF t
  <2>3. CASE Goto(g, "release") /\ UNCHANGED <<status, lease, due>>
    <3>1. Still /\ RestTyped
      BY <2>1, <2>3 DEF Still, RestTyped, TypeOK
    <3> QED
      BY <1>1, <1>3, <2>3, <3>1, GoOnProper
  <2> QED
    BY <1>4, <2>2, <2>3 DEF Prepare, t
<1>5. ASSUME Unprepared(g) \/ SubmitFails(g) PROVE Proper
  <2>1. Still /\ RestTyped /\ Goto(g, "fail")
    BY <1>5 DEF Unprepared, SubmitFails, Still, RestTyped, TypeOK
  <2> QED
    BY <1>1, <1>3, <2>1, GoOnProper
<1>6. ASSUME Submit(g) PROVE Proper
  <2>1. Still /\ (Goto(g, "record") \/ Goto(g, "transfer"))
    BY <1>6 DEF Submit, Still
  <2>2. jobs' \in [Tasks -> Nat]
    <3>1. jobs' = [jobs EXCEPT ![t] = jobs[t] + 1]
      BY <1>6 DEF Submit, t
    <3>2. jobs \in [Tasks -> Nat] /\ jobs[t] \in Nat
      BY <1>2 DEF TypeOK
    <3>3. jobs[t] + 1 \in Nat
      BY <3>2
    <3> QED
      BY <3>1, <3>2, <3>3
  <2>3. upstream' \in [Tasks -> {"none", "working"} \cup Terminal]
    BY <1>6 DEF Submit, TypeOK
  <2>4. UNCHANGED <<lease, ref, due, attempt, pending, stopping, restarts>>
    BY <1>6 DEF Submit
  <2>5. RestTyped
    BY <2>2, <2>3, <2>4 DEF RestTyped, TypeOK
  <2> QED
    BY <1>1, <1>3, <2>1, <2>5, GoOnProper
<1>7. ASSUME SubmitAgain(g) PROVE Proper
  <2> DEFINE next == OneMore(attempt[t])
             tries == IF next > run[g].tries THEN next ELSE OneMore(run[g].tries)
             r == [run[g] EXCEPT !.tries = tries]
  <2>1. next \in 0 .. MaxAttempt /\ tries \in 0 .. MaxAttempt
    BY <1>2, ExecAssumption DEF TypeOK, Runs, OneMore
  <2>2. r \in Runs /\ r.task = t /\ r.pc = run[g].pc
    BY <1>2, <2>1 DEF Runs, t
  <2>3. run' = [run EXCEPT ![g] = r]
    BY <1>2, <1>7 DEF SubmitAgain, t
  <2>4. r.task # NoTask
    BY <1>2, <2>2, ExecAssumption
  <2>5. attempt' = [attempt EXCEPT ![t] = next] /\ run[g].pc = "submit"
    BY <1>7 DEF SubmitAgain, Live, At, t
  <2>6. Still /\ RestTyped
    BY <1>7, <2>1, <2>5 DEF SubmitAgain, Still, RestTyped, TypeOK
  <2> HIDE DEF r
  <2>7. Moved(g, r.pc, r.task)
    BY <2>2, <2>3, <2>4, TakeMoves
  <2> QED
    BY <1>3, <2>2, <2>5, <2>6, <2>7, StillMoveProper
<1>8. ASSUME Record(g) PROVE Proper
  <2>1. Still /\ \E pc \in {"schedule", "fail", "cancel"} : Goto(g, pc)
    BY <1>8 DEF Record, Still
  <2>2. RestTyped
    BY <1>8 DEF Record, RestTyped, TypeOK
  <2> QED
    BY <1>1, <1>3, <2>1, <2>2, GoOnProper
<1> QED
  BY <1>4, <1>5, <1>6, <1>7, <1>8 DEF SubmitStep

\* Every step of asking the upstream is proper.
LEMMA AdvanceStepProper ==
    ASSUME TypeOK, NEW g \in Goroutines, AdvanceStep(g)
    PROVE  Proper
<1> USE DEF row, world, procs
<1> DEFINE t == run[g].task
<1>1. run[g].pc # "idle"
  BY DEF AdvanceStep, Ask, AskFails, Unanswerable, Live, At
<1>2. t \in Tasks /\ run[g] \in Runs
  BY <1>1, BusyHasTask DEF TypeOK
<1>3. /\ {"release", "fail", "transfer", "schedule", "cancel"} \subseteq Points \ Guarded
      /\ {"queued", "running"} \subseteq Active
      /\ Active \subseteq Statuses \ {"succeeded"}
      /\ AfterAsk(t) \subseteq {"fail", "transfer", "schedule", "cancel"}
  BY DEF Points, Cancelable, Guarded, Active, Statuses, AfterAsk
<1> HIDE DEF t
<1>4. ASSUME Ask(g) PROVE Proper
  <2>1. /\ UNCHANGED <<attempt, money, stored, jobs, upstream, pending, requeues,
                       stopping, restarts>>
        /\ ref' \in [Tasks -> BOOLEAN]
    BY <1>4 DEF Ask, TypeOK
  <2>2. ASSUME NEW pc \in AfterAsk(t), GotoSeeing(g, pc, "running"),
               UpdateStatus(t, "queued", "running")
        PROVE  Proper
    <3>1. lease' \in [Tasks -> Procs \cup {NoProc}] /\ due' \in [Tasks -> BOOLEAN]
      BY <1>2, <1>3, <2>2, UpdateMoves
    <3>2. RestTyped
      BY <2>1, <3>1 DEF RestTyped, TypeOK
    <3> QED
      BY <1>1, <1>3, <2>1, <2>2, <3>2, MoveOnProper DEF t
  <2>3. ASSUME NEW pc \in AfterAsk(t) \cup {"release"},
               Goto(g, pc) \/ GotoSeeing(g, pc, "running"),
               UNCHANGED <<status, lease, due>>
        PROVE  Proper
    <3>1. Still /\ RestTyped
      BY <2>1, <2>3 DEF Still, RestTyped, TypeOK
    <3> QED
      BY <1>1, <1>3, <2>3, <3>1, GoOnProper
  <2>4. run[g].seen = "queued" \/ run[g].seen = "running"
    BY <1>2 DEF Runs, Active
  <2> QED
    BY <1>4, <2>2, <2>3, <2>4 DEF Ask, t
<1>5. ASSUME AskFails(g) PROVE Proper
  <2>1. OneMore(attempt[t]) \in 0 .. MaxAttempt
    BY <1>2, ExecAssumption DEF TypeOK, OneMore
  <2>2. attempt' = [attempt EXCEPT ![t] = OneMore(attempt[t])]
    BY <1>5 DEF AskFails, t
  <2>3. attempt' \in [Tasks -> 0 .. MaxAttempt]
    BY <2>1, <2>2 DEF TypeOK
  <2>4. Still /\ RestTyped
    BY <1>5, <2>3 DEF AskFails, Still, RestTyped, TypeOK
  <2>5. Goto(g, "schedule") \/ Goto(g, "fail")
    BY <1>5 DEF AskFails
  <2> QED
    BY <1>1, <1>3, <2>4, <2>5, GoOnProper
<1>6. ASSUME Unanswerable(g) PROVE Proper
  <2>1. Still /\ RestTyped /\ Goto(g, "fail")
    BY <1>6 DEF Unanswerable, Still, RestTyped, TypeOK
  <2> QED
    BY <1>1, <1>3, <2>1, GoOnProper
<1> QED
  BY <1>4, <1>5, <1>6 DEF AdvanceStep

\* A refund at a point that has the right to it, and the move after it.
LEMMA PayProper ==
    ASSUME TypeOK, NEW g \in Goroutines, NEW t \in Tasks,
           \/ With(g, "charge", t) /\ Charge(t)
           \/ (With(g, "refund", t) \/ With(g, "outerRefund", t)) /\ Refund(t),
           UNCHANGED <<status, stored, requeues>>, RestTyped,
           NEW pc, NEW to, Moved(g, pc, to), pc \notin Guarded
    PROVE  Proper
<1>1. money' \in [Tasks -> Moneys]
  BY DEF Charge, Refund, TypeOK, Moneys, Settled
<1>2. TypeOK'
  BY <1>1 DEF TypeOK, RestTyped, Moved
<1>3. SettlesByPayers
  BY DEF TypeOK, Charge, Refund, SettlesByPayers
<1>4. KeepsFinal /\ KeepsHistory /\ SucceedsByFinishers
  BY DEF KeepsFinal, KeepsHistory, SucceedsByFinishers
<1>5. ReachesByRight
  BY MoveIsRight
<1> QED
  BY <1>2, <1>3, <1>4, <1>5 DEF Proper

\* Every step of a cancellation request is proper.
LEMMA CancelStepProper ==
    ASSUME TypeOK, NEW g \in Goroutines, CancelStep(g)
    PROVE  Proper
<1> USE DEF row, world, procs
<1> DEFINE t == run[g].task
<1>1. run[g].pc # "idle"
  BY DEF CancelStep, CancelGet, CancelOuter, CancelOuterRefund, At
<1>2. t \in Tasks /\ run[g] \in Runs
  BY <1>1, BusyHasTask DEF TypeOK
<1>3. /\ {"cancel", "outer"} \subseteq Points \ Guarded
      /\ "outerRefund" \in Points /\ "idle" \notin Guarded
      /\ "canceled" \in Statuses \ {"succeeded"}
      /\ "queued" \in Active /\ run[g].first \in Active
  BY <1>2 DEF Points, Cancelable, Guarded, Active, Statuses, Terminal, Runs
<1> HIDE DEF t
<1>4. ASSUME CancelGet(g) PROVE Proper
  <2>1. Still /\ RestTyped
    BY <1>4 DEF CancelGet, Still, RestTyped, TypeOK
  <2>2. \/ status[t] \in Active /\ GotoSeeing(g, "cancel", status[t])
        \/ Goto(g, "outer")
    BY <1>4 DEF CancelGet, t
  <2> QED
    BY <1>1, <1>3, <2>1, <2>2, GoOnProper
<1>5. ASSUME run' = [run EXCEPT ![g] = Idle] PROVE Moved(g, "idle", NoTask)
  <2>1. Idle \in Runs
    BY IdleTyped, ExecAssumption
  <2>2. Moved(g, Idle.pc, Idle.task)
    BY <1>5, <2>1, TakeMoves
  <2> QED
    BY <2>2 DEF Idle
<1>6. ASSUME CancelOuter(g) PROVE Proper
  <2>1. UNCHANGED <<ref, attempt, money, stored, jobs, upstream, pending, requeues,
                    stopping, restarts>>
    BY <1>6 DEF CancelOuter
  <2>2. CASE UpdateStatus(t, run[g].first, "canceled") /\ Goto(g, "outerRefund")
    <3>1. lease' \in [Tasks -> Procs \cup {NoProc}] /\ due' \in [Tasks -> BOOLEAN]
      BY <1>2, <1>3, <2>2, UpdateMoves
    <3>2. RestTyped
      BY <2>1, <3>1 DEF RestTyped, TypeOK
    <3>3. Moved(g, "outerRefund", t)
      BY <1>1, <1>3, <2>2, GotoMoves DEF t
    <3> QED
      BY <1>2, <1>3, <2>1, <2>2, <3>2, <3>3, UpdateMoveProper
  <2>3. CASE run' = [run EXCEPT ![g] = Idle] /\ UNCHANGED <<status, lease, due>>
    <3>1. Still /\ RestTyped
      BY <2>1, <2>3 DEF Still, RestTyped, TypeOK
    <3> QED
      BY <1>3, <1>5, <2>3, <3>1, StillMoveProper
  <2> QED
    BY <1>6, <2>2, <2>3 DEF CancelOuter, t
<1>7. ASSUME CancelOuterRefund(g) PROVE Proper
  <2>1. UNCHANGED <<status, stored, requeues>> /\ RestTyped
    BY <1>7 DEF CancelOuterRefund, RestTyped, TypeOK
  <2>2. With(g, "outerRefund", t) /\ Refund(t) /\ Moved(g, "idle", NoTask)
    BY <1>5, <1>7 DEF CancelOuterRefund, With, At, t
  <2> QED
    BY <1>2, <1>3, <2>1, <2>2, PayProper
<1> QED
  BY <1>4, <1>6, <1>7 DEF CancelStep

\* An UPDATE to a terminal status is proper: it entitles its winner, and a loser
\* gets nowhere near the money.
LEMMA EndProper ==
    ASSUME TypeOK, NEW g \in Goroutines, NEW pc \in Points, NEW expect \in Active,
           NEW next \in Terminal, NEW paying \in {"charge", "refund"}, NEW Lose,
           End(g, pc, expect, next, paying, Lose), pc # "idle",
           paying = "charge" => next = "succeeded",
           paying = "refund" => next \in {"failed", "canceled"},
           next = "succeeded" => pc = "succeed",
           Lose => Goto(g, "release") \/ Return(g)
    PROVE  Proper
<1> USE DEF row, world, procs
<1> DEFINE t == run[g].task
<1>1. run[g].pc = pc
  BY DEF End, Live, At
<1>2. t \in Tasks
  BY <1>1, BusyHasTask
<1>3. /\ {"charge", "refund", "release"} \subseteq Points
      /\ {"release", "outer", "idle"} \cap Guarded = {}
      /\ next \in Statuses /\ "queued" \in Active
  BY DEF Points, Guarded, Statuses, Active
<1>4. UNCHANGED <<ref, attempt, money, stored, jobs, upstream, pending, requeues,
                  stopping, restarts>>
  BY DEF End
<1>5. \/ UpdateStatus(t, expect, next) /\ Goto(g, paying)
      \/ Lose /\ UNCHANGED <<status, lease, due>>
  BY DEF End
<1> HIDE DEF t
<1>6. CASE UpdateStatus(t, expect, next) /\ Goto(g, paying)
  <2>1. lease' \in [Tasks -> Procs \cup {NoProc}] /\ due' \in [Tasks -> BOOLEAN]
    BY <1>2, <1>3, <1>6, UpdateMoves
  <2>2. RestTyped
    BY <1>4, <2>1 DEF RestTyped, TypeOK
  <2>3. Moved(g, paying, t)
    BY <1>1, <1>3, <1>6, GotoMoves DEF t
  <2>4. next = "succeeded" => \E h \in Goroutines : With(h, "succeed", t)
    BY <1>1 DEF With, t
  <2> QED
    BY <1>2, <1>3, <1>4, <1>6, <2>2, <2>3, <2>4, UpdateMoveProper
<1>7. CASE Lose /\ UNCHANGED <<status, lease, due>>
  <2>1. Still /\ RestTyped
    BY <1>4, <1>7 DEF Still, RestTyped, TypeOK
  <2>2. CASE Goto(g, "release")
    BY <1>1, <1>3, <2>1, <2>2, GoOnProper
  <2>3. CASE Return(g)
    <3>1. Moved(g, "outer", t) \/ Moved(g, "idle", NoTask)
      BY <1>1, <2>3, ReturnMoves DEF t
    <3> QED
      BY <1>3, <2>1, <3>1, StillMoveProper
  <2> QED
    BY <1>7, <2>2, <2>3
<1> QED
  BY <1>5, <1>6, <1>7

\* Every step that ends a task, or gives it back, is proper.
LEMMA EndStepProper ==
    ASSUME TypeOK, NEW g \in Goroutines, EndStep(g)
    PROVE  Proper
<1> USE DEF row, world, procs
<1> DEFINE t == run[g].task
<1>1. run[g].pc # "idle"
  BY DEF EndStep, Schedule, Transfer, Succeed, Fail, CancelTask, End, Settle, Release,
         Live, At
<1>2. t \in Tasks /\ run[g] \in Runs
  BY <1>1, BusyHasTask DEF TypeOK
<1>3. /\ {"succeed", "fail", "cancel", "release"} \subseteq Points
      /\ {"release", "fail", "outer", "idle"} \cap Guarded = {}
      /\ {"queued", "running"} \subseteq Active /\ run[g].seen \in Active
      /\ {"succeeded", "failed", "canceled"} \subseteq Terminal
  BY <1>2 DEF Points, Cancelable, Guarded, Active, Terminal, Runs
<1> HIDE DEF t
<1>4. ASSUME Schedule(g) PROVE Proper
  <2>1. Still /\ RestTyped /\ Goto(g, "release")
    BY <1>4 DEF Schedule, Still, RestTyped, TypeOK
  <2> QED
    BY <1>1, <1>3, <2>1, GoOnProper
<1>5. ASSUME Transfer(g) PROVE Proper
  <2>1. RestTyped /\ UNCHANGED <<status, money, requeues>>
    BY <1>5 DEF Transfer, RestTyped, TypeOK
  <2>2. CASE UNCHANGED stored /\ Goto(g, "fail")
    BY <1>1, <1>3, <2>1, <2>2, GoOnProper DEF Still
  <2>3. CASE stored' = [stored EXCEPT ![t] = TRUE] /\ Goto(g, "succeed")
    <3>1. Moved(g, "succeed", t)
      BY <1>1, <1>3, <2>3, GotoMoves DEF t
    <3>2. stored' \in [Tasks -> BOOLEAN] /\ stored'[t] /\ KeepsHistory
      BY <1>2, <2>1, <2>3 DEF TypeOK, KeepsHistory
    <3>3. TypeOK'
      BY <2>1, <3>1, <3>2 DEF TypeOK, RestTyped, Moved
    <3>4. KeepsFinal /\ SettlesByPayers /\ SucceedsByFinishers
      BY <2>1 DEF KeepsFinal, SettlesByPayers, SucceedsByFinishers
    <3>5. ReachesByRight
      BY <3>1, <3>2 DEF Moved, ReachesByRight, With
    <3> QED
      BY <3>2, <3>3, <3>4, <3>5 DEF Proper
  <2> QED
    BY <1>5, <2>2, <2>3 DEF Transfer, t
<1>6. ASSUME Succeed(g) PROVE Proper
  BY <1>3, <1>6, EndProper DEF Succeed
<1>7. ASSUME Fail(g) PROVE Proper
  BY <1>3, <1>7, EndProper DEF Fail
<1>8. ASSUME CancelTask(g) PROVE Proper
  BY <1>3, <1>8, EndProper DEF CancelTask
<1>9. ASSUME Settle(g) PROVE Proper
  <2>1. UNCHANGED <<status, stored, requeues>> /\ RestTyped
    BY <1>9 DEF Settle, RestTyped, TypeOK
  <2>2. Moved(g, "release", t)
    BY <1>1, <1>3, <1>9, GotoMoves DEF Settle, t
  <2>3. \/ With(g, "charge", t) /\ Charge(t)
        \/ With(g, "refund", t) /\ Refund(t)
    BY <1>9 DEF Settle, With, At, t
  <2> QED
    BY <1>2, <1>3, <2>1, <2>2, <2>3, PayProper
<1>10. ASSUME Release(g) PROVE Proper
  <2>1. Still
    BY <1>10 DEF Release, Still
  <2>2. lease' \in [Tasks -> Procs \cup {NoProc}]
    BY <1>10 DEF Release, ReleaseLease, TypeOK
  <2>3. RestTyped
    BY <1>10, <2>2 DEF Release, RestTyped, TypeOK
  <2>4. Moved(g, "outer", t) \/ Moved(g, "idle", NoTask)
    BY <1>1, <1>10, ReturnMoves DEF Release, t
  <2> QED
    BY <1>3, <2>1, <2>3, <2>4, StillMoveProper
<1> QED
  BY <1>4, <1>5, <1>6, <1>7, <1>8, <1>9, <1>10 DEF EndStep

\* Faults, the upstream, and the comings and goings of processes.
LEMMA FaultsProper ==
    ASSUME TypeOK,
           \/ \E g \in Goroutines : Interrupt(g)
           \/ \E t \in Tasks : Expire(t) \/ UpstreamEnds(t)
           \/ \E p \in Procs : Stop(p) \/ Restart(p) \/ Crash(p)
    PROVE  Proper
<1> USE DEF row, world, procs
<1>1. ASSUME NEW g \in Goroutines, Interrupt(g) PROVE Proper
  <2>1. Still /\ RestTyped /\ Goto(g, "release")
    BY <1>1 DEF Interrupt, Still, RestTyped, TypeOK
  <2>2. run[g].pc # "idle"
    BY <1>1 DEF Interrupt, Cancelable
  <2>3. "release" \in Points \ Guarded /\ "queued" \in Active
    BY DEF Points, Guarded, Active
  <2> QED
    BY <2>1, <2>2, <2>3, GoOnProper
<1>2. ASSUME NEW t \in Tasks, Expire(t) PROVE Proper
  <2>1. Still /\ RestTyped /\ run' = run
    BY <1>2 DEF Expire, Still, RestTyped, TypeOK
  <2> QED
    BY <2>1, StillStayProper
<1>3. ASSUME NEW t \in Tasks, UpstreamEnds(t) PROVE Proper
  <2>1. Still /\ RestTyped /\ run' = run
    BY <1>3 DEF UpstreamEnds, Still, RestTyped, TypeOK
  <2> QED
    BY <2>1, StillStayProper
<1>4. ASSUME NEW p \in Procs, Stop(p) PROVE Proper
  <2>1. Still /\ run' = run
    BY <1>4 DEF Stop, Still
  <2>2. restarts' \in 0 .. MaxRestarts /\ stopping' \subseteq Procs
    BY <1>4, ExecAssumption DEF Stop, TypeOK
  <2>3. RestTyped
    BY <1>4, <2>2 DEF Stop, RestTyped, TypeOK
  <2> QED
    BY <2>1, <2>3, StillStayProper
<1>5. ASSUME NEW p \in Procs, Restart(p) PROVE Proper
  <2>1. Still /\ RestTyped /\ run' = run
    BY <1>5 DEF Restart, GiveUp, Still, RestTyped, TypeOK
  <2> QED
    BY <2>1, StillStayProper
<1>6. ASSUME NEW p \in Procs, Crash(p) PROVE Proper
  <2>1. Still
    BY <1>6 DEF Crash, Still
  <2>2. restarts' \in 0 .. MaxRestarts
    BY <1>6, ExecAssumption DEF Crash, TypeOK
  <2>3. RestTyped
    BY <1>6, <2>2 DEF Crash, GiveUp, RestTyped, TypeOK
  <2>4. Idle \in Runs
    BY IdleTyped, ExecAssumption
  <2>5. run' = [g \in Goroutines |-> IF Proc[g] = p THEN Idle ELSE run[g]]
    BY <1>6 DEF Crash
  <2>6. /\ run' \in [Goroutines -> Runs]
        /\ \A h \in Goroutines : run'[h].task = NoTask => run'[h] = Idle
    BY <2>4, <2>5 DEF TypeOK
  <2>7. ReachesByRight
    BY <2>5 DEF ReachesByRight, With, Idle
  <2> QED
    BY <2>1, <2>3, <2>6, <2>7, StillProper
<1> QED
  BY <1>1, <1>2, <1>3, <1>4, <1>5, <1>6

-----------------------------------------------------------------------------
(* The theorems *)

\* No task exists at first.
LEMMA InitEstablishes == ASSUME Init PROVE IInv
<1>1. Idle \in Runs
  BY IdleTyped, ExecAssumption
<1>2. TypeOK
  BY <1>1, ExecAssumption DEF Init, TypeOK, Statuses, Moneys
<1>3. SettledAsShown /\ SucceededHasProducts /\ PayersEntitled /\ FinishersStored
  BY DEF Init, SettledAsShown, SucceededHasProducts, PayersEntitled, FinishersStored,
         With, Idle
<1> QED
  BY <1>2, <1>3 DEF IInv

\* Every step is proper.
LEMMA NextProper == ASSUME TypeOK, [Next]_vars PROVE Proper
<1>1. CASE Next
  <2>1. ASSUME NEW g \in Goroutines, Step(g) PROVE Proper
    BY <2>1, SubmitStepProper, AdvanceStepProper, CancelStepProper, EndStepProper
       DEF Step
  <2> QED
    BY <1>1, <2>1, HandlersProper, PickUpProper, FaultsProper DEF Next, Goroutines
<1>2. CASE UNCHANGED vars
  <2>1. Still /\ RestTyped /\ run' = run
    BY <1>2 DEF vars, Still, RestTyped, TypeOK
  <2> QED
    BY <2>1, StillStayProper
<1> QED
  BY <1>1, <1>2

\* The inductive invariant holds of every task, whatever workers, callbacks,
\* cancellations, crashes and lost leases do.
THEOREM ExecInvariant == Spec => []IInv
<1>1. Init => IInv
  BY InitEstablishes
<1>2. IInv /\ [Next]_vars => IInv'
  BY NextProper, ProperKeeps DEF IInv
<1> QED
  BY <1>1, <1>2, PTL DEF Spec

\* Every variable of the model keeps its type.
THEOREM ExecTypeCorrect == Spec => []TypeOK
<1>1. IInv => TypeOK
  BY DEF IInv
<1> QED
  BY <1>1, ExecInvariant, PTL

\* A task is charged only when it succeeded and refunded only when it failed or
\* was canceled (runner.go finish, fail, cancelTask).
THEOREM ExecSettlesAsShown == Spec => []SettledAsShown
<1>1. IInv => SettledAsShown
  BY DEF IInv
<1> QED
  BY <1>1, ExecInvariant, PTL

\* A task is called succeeded only with its products in storage (runner.go
\* finish).
THEOREM ExecSucceedsWithProducts == Spec => []SucceededHasProducts
<1>1. IInv => SucceededHasProducts
  BY DEF IInv
<1> QED
  BY <1>1, ExecInvariant, PTL

\* A terminal status is left by a requeue only (task.go UpdateStatus, Requeue).
THEOREM ExecKeepsFinal == Spec => TerminalIsFinal
<1>1. IInv /\ [Next]_vars =>
        [\A t \in Tasks : status[t] \in Terminal =>
            status'[t] = status[t] \/ Requeue(t)]_vars
  BY NextProper DEF IInv, Proper, KeepsFinal
<1> QED
  BY <1>1, ExecInvariant, PTL DEF Spec, TerminalIsFinal

-----------------------------------------------------------------------------
(* One job for each task *)

\* Which goroutine may stand where.
Roles ==
    \A g \in Goroutines :
        /\ run[g].pc = "idle" => run[g].task = NoTask
        /\ g \in Cancellers => run[g].pc \in {"idle", "get", "cancel", "outer", "refund",
                                              "release", "outerRefund"}

\* A queued task is in the hands of one worker at most, who leases it; one worker
\* at most is about to submit it, and nobody else has done so.
OneJob(t) ==
    /\ jobs[t] <= 1
    /\ jobs[t] > 0 => status[t] \notin {"absent", "queued"}
    /\ ref[t] => jobs[t] > 0
    /\ \A g \in Goroutines : run[g].task = t =>
          /\ status[t] # "absent"
          /\ run[g].pc \in {"prepare", "submit"} => jobs[t] = 0
          /\ run[g].pc = "submit" => status[t] # "queued"
          /\ run[g].pc \in {"record", "ask"} => jobs[t] > 0
          /\ g \in Cancellers /\ run[g].pc \in {"refund", "release"} => status[t] # "queued"
          /\ g \notin Cancellers /\ status[t] = "queued" => g \in Submitters /\ lease[t] = Proc[g]
    /\ \A g, h \in Goroutines \ Cancellers :
          /\ run[g].task = t /\ run[h].task = t
          /\ status[t] = "queued" \/ {run[g].pc, run[h].pc} \subseteq {"prepare", "submit"}
          => g = h

Jobs == ~Stalls => \A t \in Tasks : requeues[t] = 0 => OneJob(t)

\* The columns OneJob reads, of every task but one.
OnlyTouches(t) ==
    \A u \in Tasks \ {t} : /\ jobs'[u] = jobs[u] /\ status'[u] = status[u]
                           /\ ref'[u] = ref[u] /\ lease'[u] = lease[u]

\* A task whose row stands still, and that nobody new takes up.
LEMMA JobUntouched ==
    ASSUME NEW u \in Tasks, OneJob(u),
           jobs'[u] = jobs[u], status'[u] = status[u], ref'[u] = ref[u], lease'[u] = lease[u],
           \A h \in Goroutines : run'[h].task = u => run[h].task = u /\ run'[h].pc = run[h].pc
    PROVE  OneJob(u)'
  BY DEF OneJob

\* A goroutine goes on with its task, or lays it down.
LEMMA JobMoves ==
    ASSUME NEW t \in Tasks, NEW g \in Goroutines, OneJob(t), run[g].task = t,
           jobs[t] \in Nat, jobs'[t] = jobs[t],
           \A h \in Goroutines \ {g} : run'[h] = run[h],
           status'[t] = status[t] \/ status'[t] \notin {"absent", "queued"},
           ref'[t] => ref[t] \/ jobs[t] > 0,
           \/ lease'[t] = lease[t] \/ status'[t] # "queued"
           \/ g \notin Cancellers /\ run'[g].task # t,
           run'[g].task = t =>
              /\ run'[g].pc \in {"prepare", "submit"} => run[g].pc \in {"prepare", "submit"}
              /\ run'[g].pc = "submit" => status'[t] # "queued"
              /\ run'[g].pc \in {"record", "ask"} => jobs[t] > 0
              /\ g \in Cancellers /\ run'[g].pc \in {"refund", "release"} => status'[t] # "queued"
    PROVE  OneJob(t)'
  BY DEF OneJob

\* A goroutine that moves leaves the roles of the others alone.
LEMMA RolesMove ==
    ASSUME Roles, NEW g \in Goroutines, NEW pc, NEW t, Moved(g, pc, t),
           pc = "idle" => t = NoTask,
           g \in Cancellers => pc \in {"idle", "get", "cancel", "outer", "refund", "release",
                                       "outerRefund"}
    PROVE  Roles'
  BY DEF Roles, Moved

\* Where a step takes a goroutine, and that it touches no other task.
LEMMA StepMoves ==
    ASSUME TypeOK, Roles, NEW g \in Goroutines, Step(g) \/ Interrupt(g)
    PROVE  /\ run[g].pc # "idle" /\ run[g].task \in Tasks
           /\ \E pc \in Points : \/ pc # "idle" /\ Moved(g, pc, run[g].task)
                                 \/ pc = "idle" /\ Moved(g, pc, NoTask)
           /\ OnlyTouches(run[g].task)
           /\ Roles'
<1> USE DEF row, world, procs
<1> DEFINE t == run[g].task
           P == {"get", "prepare", "submit", "record", "schedule", "ask", "transfer", "succeed",
                 "fail", "cancel", "charge", "refund", "release", "outer", "outerRefund"}
           C == {"get", "cancel", "outer", "refund", "release", "outerRefund"}
<1>1. run[g].pc # "idle"
  BY DEF Step, SubmitStep, AdvanceStep, CancelStep, EndStep, Prepare, Unprepared, Submit, SubmitAgain,
         SubmitFails, Record, Ask, AskFails, Unanswerable, CancelGet, CancelOuter, CancelOuterRefund,
         Schedule, Transfer, Succeed, Fail, CancelTask, End, Settle, Release, Interrupt, Live, At,
         Cancelable
<1>2. t \in Tasks /\ run[g] \in Runs
  BY <1>1, BusyHasTask DEF TypeOK
<1>p. P \subseteq Points /\ "queued" \in Active /\ "running" \in Active
  BY DEF Points, Cancelable, Active
<1> HIDE DEF t
<1>m. ASSUME NEW pc \in P, NEW seen \in Active, Goto(g, pc) \/ GotoSeeing(g, pc, seen),
             g \in Cancellers => pc \in C
      PROVE  (\E q \in Points : \/ q # "idle" /\ Moved(g, q, t)
                                \/ q = "idle" /\ Moved(g, q, NoTask)) /\ Roles'
  <2>1. Moved(g, pc, t)
    BY <1>1, <1>p, <1>m, GotoMoves DEF t
  <2>2. Roles'
    BY <1>m, <2>1, RolesMove
  <2> QED
    BY <1>p, <2>1, <2>2
<1>g. ASSUME NEW pc \in P, Goto(g, pc), g \in Cancellers => pc \in C
      PROVE  (\E q \in Points : \/ q # "idle" /\ Moved(g, q, t)
                                \/ q = "idle" /\ Moved(g, q, NoTask)) /\ Roles'
  BY <1>p, <1>g, <1>m
<1>i. ASSUME run' = [run EXCEPT ![g] = Idle]
      PROVE  (\E q \in Points : \/ q # "idle" /\ Moved(g, q, t)
                                \/ q = "idle" /\ Moved(g, q, NoTask)) /\ Roles'
  <2>1. Moved(g, Idle.pc, Idle.task)
    BY <1>i, IdleTyped, ExecAssumption, TakeMoves
  <2>2. Moved(g, "idle", NoTask) /\ "idle" \in Points
    BY <2>1 DEF Idle, Points
  <2>3. Roles'
    BY <2>2, RolesMove
  <2> QED
    BY <2>2, <2>3
<1>r. ASSUME Return(g)
      PROVE  (\E q \in Points : \/ q # "idle" /\ Moved(g, q, t)
                                \/ q = "idle" /\ Moved(g, q, NoTask)) /\ Roles'
  BY <1>g, <1>i, <1>r DEF Return
<1>c. g \in Cancellers => run[g].pc \in C
  BY <1>1 DEF Roles
<1>3. ASSUME SubmitStep(g)
      PROVE  (\E q \in Points : \/ q # "idle" /\ Moved(g, q, t)
                                \/ q = "idle" /\ Moved(g, q, NoTask)) /\ Roles' /\ OnlyTouches(t)
  <2>1. g \notin Cancellers
    BY <1>3, <1>c DEF SubmitStep, Prepare, Unprepared, Submit, SubmitAgain, SubmitFails, Record, Live, At
  <2>2. OnlyTouches(t)
    BY <1>3 DEF SubmitStep, Prepare, Unprepared, Submit, SubmitAgain, SubmitFails, Record, UpdateStatus,
                OnlyTouches, TypeOK, t
  <2>3. ASSUME SubmitAgain(g)
        PROVE  (\E q \in Points : \/ q # "idle" /\ Moved(g, q, t)
                                  \/ q = "idle" /\ Moved(g, q, NoTask)) /\ Roles'
    <3> DEFINE next == OneMore(attempt[t])
               tries == IF next > run[g].tries THEN next ELSE OneMore(run[g].tries)
               r == [run[g] EXCEPT !.tries = tries]
    <3>1. next \in 0 .. MaxAttempt /\ tries \in 0 .. MaxAttempt
      BY <1>2, ExecAssumption DEF TypeOK, Runs, OneMore
    <3>2. r \in Runs /\ r.task = t /\ r.pc = "submit"
      BY <1>2, <2>3, <3>1 DEF Runs, t, SubmitAgain, Live, At
    <3>3. run' = [run EXCEPT ![g] = r]
      BY <1>2, <2>3 DEF SubmitAgain, t, TypeOK
    <3>4. r.task # NoTask
      BY <1>2, <3>2, ExecAssumption
    <3> HIDE DEF r
    <3>5. Moved(g, "submit", t)
      BY <3>2, <3>3, <3>4, TakeMoves
    <3>6. Roles'
      BY <2>1, <3>5, RolesMove
    <3> QED
      BY <1>p, <3>5, <3>6
  <2>4. ASSUME Prepare(g) \/ Unprepared(g) \/ Submit(g) \/ SubmitFails(g) \/ Record(g)
        PROVE  \E pc \in P : Goto(g, pc) \/ GotoSeeing(g, pc, "running")
    BY <2>4 DEF Prepare, Unprepared, Submit, SubmitFails, Record
  <2> QED
    BY <1>3, <1>m, <1>p, <2>1, <2>2, <2>3, <2>4 DEF SubmitStep
<1>4. ASSUME AdvanceStep(g)
      PROVE  (\E q \in Points : \/ q # "idle" /\ Moved(g, q, t)
                                \/ q = "idle" /\ Moved(g, q, NoTask)) /\ Roles' /\ OnlyTouches(t)
  <2>1. g \notin Cancellers
    BY <1>4, <1>c DEF AdvanceStep, Ask, AskFails, Unanswerable, Live, At
  <2>2. OnlyTouches(t)
    BY <1>2, <1>4 DEF AdvanceStep, Ask, AskFails, Unanswerable, UpdateStatus, OnlyTouches, TypeOK, Runs,
                      Active, t
  <2>3. AfterAsk(t) \subseteq P
    BY DEF AfterAsk
  <2>4. \E pc \in P : Goto(g, pc) \/ GotoSeeing(g, pc, "running")
    BY <1>4, <2>3 DEF AdvanceStep, Ask, AskFails, Unanswerable, t
  <2> QED
    BY <1>m, <1>p, <2>1, <2>2, <2>4
<1>5. ASSUME CancelStep(g)
      PROVE  (\E q \in Points : \/ q # "idle" /\ Moved(g, q, t)
                                \/ q = "idle" /\ Moved(g, q, NoTask)) /\ Roles' /\ OnlyTouches(t)
  <2>1. OnlyTouches(t)
    BY <1>5 DEF CancelStep, CancelGet, CancelOuter, CancelOuterRefund, UpdateStatus, OnlyTouches, TypeOK, t
  <2>2. \/ run' = [run EXCEPT ![g] = Idle]
        \/ \E pc \in C, seen \in Active : Goto(g, pc) \/ GotoSeeing(g, pc, seen)
    BY <1>p, <1>5 DEF CancelStep, CancelGet, CancelOuter, CancelOuterRefund
  <2> QED
    BY <1>i, <1>m, <2>1, <2>2
<1>6. ASSUME EndStep(g)
      PROVE  (\E q \in Points : \/ q # "idle" /\ Moved(g, q, t)
                                \/ q = "idle" /\ Moved(g, q, NoTask)) /\ Roles' /\ OnlyTouches(t)
  <2>1. OnlyTouches(t)
    BY <1>6 DEF EndStep, Schedule, Transfer, Succeed, Fail, CancelTask, End, Settle, Release, ReleaseLease,
                UpdateStatus, OnlyTouches, TypeOK, t
  <2>2. ASSUME Schedule(g) \/ Transfer(g) \/ Succeed(g) \/ Fail(g)
        PROVE  g \notin Cancellers /\ \E pc \in P : Goto(g, pc)
    BY <1>c, <2>2 DEF Schedule, Transfer, Succeed, Fail, End, Live, At
  <2>3. ASSUME CancelTask(g) \/ Settle(g) \/ Release(g)
        PROVE  Return(g) \/ \E pc \in P \cap C : Goto(g, pc)
    BY <2>3 DEF CancelTask, Settle, Release, End
  <2> QED
    BY <1>6, <1>g, <1>r, <2>1, <2>2, <2>3 DEF EndStep
<1>7. ASSUME Interrupt(g)
      PROVE  (\E q \in Points : \/ q # "idle" /\ Moved(g, q, t)
                                \/ q = "idle" /\ Moved(g, q, NoTask)) /\ Roles' /\ OnlyTouches(t)
  <2>1. Goto(g, "release") /\ OnlyTouches(t)
    BY <1>7 DEF Interrupt, OnlyTouches
  <2> QED
    BY <1>g, <2>1
<1> QED
  BY <1>1, <1>2, <1>3, <1>4, <1>5, <1>6, <1>7 DEF Step, t

\* What a goroutine does with the task in its hands.
LEMMA JobAtStep ==
    ASSUME TypeOK, Roles, NEW g \in Goroutines, Step(g) \/ Interrupt(g),
           NEW t \in Tasks, run[g].task = t, OneJob(t)
    PROVE  OneJob(t)'
<1> USE DEF row, world, procs
<1>0. run[g].task = t
  OBVIOUS
<1>1. run[g].pc # "idle" /\ run[g] \in Runs /\ run[g].seen \in Active
  BY StepMoves DEF TypeOK, Runs
<1>2. OneJob(t) /\ jobs[t] \in Nat
  BY <1>0 DEF TypeOK
<1>3. \A h \in Goroutines \ {g} : run'[h] = run[h]
  BY StepMoves DEF Moved
<1>4. run'[g].task = t => run'[g].pc # "idle"
  BY <1>0, StepMoves, ExecAssumption DEF Moved
<1>g. ASSUME NEW pc \in Points, NEW seen \in Active, Goto(g, pc) \/ GotoSeeing(g, pc, seen)
      PROVE  run'[g].pc = pc /\ run'[g].task = t
  BY <1>0, <1>1, <1>g, GotoMoves DEF Moved
<1>h. ASSUME NEW pc \in Points, Goto(g, pc) PROVE run'[g].pc = pc /\ run'[g].task = t
  <2>1. "queued" \in Active
    BY DEF Active
  <2> QED
    BY <1>g, <1>h, <2>1
<1>p. /\ {"get", "prepare", "submit", "record", "schedule", "ask", "transfer", "succeed", "fail", "cancel",
          "charge", "refund", "release", "outer", "outerRefund"} \subseteq Points
      /\ "running" \in Active
      /\ Terminal \cap {"absent", "queued"} = {}
  BY DEF Points, Cancelable, Active, Terminal
\* The task is given back or taken further without a new job.
<1>m. ASSUME jobs'[t] = jobs[t],
             status'[t] = status[t] \/ status'[t] \notin {"absent", "queued"},
             ref'[t] => ref[t] \/ jobs[t] > 0,
             \/ lease'[t] = lease[t] \/ status'[t] # "queued"
             \/ g \notin Cancellers /\ run'[g].task # t,
             run'[g].task = t =>
                /\ run'[g].pc \in {"prepare", "submit"} => run[g].pc \in {"prepare", "submit"}
                /\ run'[g].pc = "submit" => status'[t] # "queued"
                /\ run'[g].pc \in {"record", "ask"} => jobs[t] > 0
                /\ g \in Cancellers /\ run'[g].pc \in {"refund", "release"} => status'[t] # "queued"
      PROVE  OneJob(t)'
  BY <1>0, <1>2, <1>3, <1>m, JobMoves
\* Neither the row nor the lease changes, and the goroutine is about to end or to give back.
<1>w. ASSUME UNCHANGED <<jobs, status, ref, lease>>,
             run'[g].task = t =>
                /\ run'[g].pc \notin {"prepare", "submit", "record", "ask"}
                /\ g \in Cancellers /\ run'[g].pc \in {"refund", "release"} => status[t] # "queued"
      PROVE  OneJob(t)'
  BY <1>m, <1>w
<1>u. ASSUME NEW expect, NEW next, UpdateStatus(t, expect, next)
      PROVE  status'[t] = next
  BY <1>u DEF UpdateStatus, TypeOK
<1>5. ASSUME Prepare(g) PROVE OneJob(t)'
  <2>1. CASE UpdateStatus(t, "queued", "running") /\ GotoSeeing(g, "submit", "running")
    <3>1. status'[t] = "running" /\ run'[g].pc = "submit"
      BY <1>g, <1>p, <1>u, <2>1
    <3> QED
      BY <1>0, <1>5, <1>m, <3>1 DEF Prepare, Live, At
  <2>2. CASE Goto(g, "release") /\ UNCHANGED <<status, lease, due>>
    <3>1. g \notin Cancellers
      BY <1>5 DEF Prepare, Live, At, Roles
    <3> QED
      BY <1>5, <1>h, <1>p, <1>w, <2>2, <3>1 DEF Prepare
  <2> QED
    BY <1>0, <1>5, <2>1, <2>2 DEF Prepare
<1>6. ASSUME Unprepared(g) \/ SubmitFails(g) \/ AskFails(g) \/ Unanswerable(g) \/ Transfer(g) \/ Schedule(g)
      PROVE  OneJob(t)'
  <2>1. /\ UNCHANGED <<jobs, status, ref, lease>>
        /\ Goto(g, "fail") \/ Goto(g, "schedule") \/ Goto(g, "succeed") \/ Goto(g, "release")
        /\ run[g].pc \in {"prepare", "submit", "ask", "transfer", "schedule"}
    BY <1>6 DEF Unprepared, SubmitFails, AskFails, Unanswerable, Transfer, Schedule, Live, At
  <2>2. g \notin Cancellers
    BY <2>1 DEF Roles
  <2> QED
    BY <1>h, <1>p, <1>w, <2>1, <2>2
\* The one submission.
<1>7. ASSUME Submit(g) PROVE OneJob(t)'
  <2>1. /\ run[g].pc = "submit" /\ UNCHANGED <<status, ref, lease>>
        /\ Goto(g, "record") \/ Goto(g, "transfer")
        /\ jobs' = [jobs EXCEPT ![t] = jobs[t] + 1]
    BY <1>0, <1>7 DEF Submit, Live, At
  <2>2. jobs'[t] = jobs[t] + 1
    BY <1>2, <2>1 DEF TypeOK
  <2>3. g \notin Cancellers
    BY <2>1 DEF Roles
  <2>4. jobs[t] = 0 /\ status[t] \notin {"absent", "queued"}
    BY <1>0, <1>2, <2>1 DEF OneJob
  <2>5. run'[g].task = t /\ run'[g].pc \in {"record", "transfer"}
    BY <1>h, <1>p, <2>1
  <2>6. \A h \in Goroutines : run[h].task = t /\ run[h].pc \in {"prepare", "submit"} => h = g
    <3>1. \A h \in Goroutines : run[h].pc \in {"prepare", "submit"} => h \notin Cancellers
      BY DEF Roles
    <3> QED
      BY <1>0, <1>2, <2>1, <2>3, <3>1 DEF OneJob
  <2>7. OneJob(t)'
    BY <1>2, <1>3, <2>1, <2>2, <2>3, <2>4, <2>5, <2>6 DEF OneJob
  <2> QED
    BY <2>7
<1>8. ASSUME SubmitAgain(g) PROVE OneJob(t)'
  <2>1. /\ UNCHANGED <<jobs, status, ref, lease>> /\ run[g].pc = "submit"
        /\ run'[g].pc = run[g].pc
    BY <1>1, <1>8 DEF SubmitAgain, Live, At, TypeOK, Runs
  <2>2. status[t] # "queued"
    BY <1>0, <1>2, <2>1 DEF OneJob
  <2> QED
    BY <1>m, <2>1, <2>2
<1>9. ASSUME Record(g) PROVE OneJob(t)'
  <2>1. /\ UNCHANGED <<jobs, status, lease>> /\ run[g].pc = "record"
        /\ \E pc \in {"schedule", "fail", "cancel"} : Goto(g, pc)
    BY <1>9 DEF Record, Live, At
  <2>2. jobs[t] > 0
    BY <1>0, <1>2, <2>1 DEF OneJob
  <2> QED
    BY <1>h, <1>m, <1>p, <2>1, <2>2
<1>10. ASSUME Ask(g) PROVE OneJob(t)'
  <2>1. /\ UNCHANGED jobs /\ run[g].pc = "ask"
        /\ \/ UpdateStatus(t, "queued", "running") \/ UNCHANGED <<status, lease>>
        /\ \/ \E pc \in AfterAsk(t) : GotoSeeing(g, pc, "running")
           \/ Goto(g, "release")
    BY <1>0, <1>1, <1>10 DEF Ask, Live, At, Active
  <2>2. jobs[t] > 0
    BY <1>0, <1>2, <2>1 DEF OneJob
  <2>3. AfterAsk(t) \subseteq {"transfer", "fail", "cancel", "schedule"}
    BY DEF AfterAsk
  <2>4. g \notin Cancellers
    BY <2>1 DEF Roles
  <2>5. run'[g].pc \in {"transfer", "fail", "cancel", "schedule", "release"}
    BY <1>g, <1>h, <1>p, <2>1, <2>3
  <2>6. status'[t] = "running" \/ UNCHANGED <<status, lease>>
    BY <1>u, <2>1
  <2> QED
    BY <1>m, <2>1, <2>2, <2>4, <2>5, <2>6
<1>11. ASSUME CancelGet(g) PROVE OneJob(t)'
  <2>1. /\ UNCHANGED <<jobs, status, ref, lease>>
        /\ \/ status[t] \in Active /\ GotoSeeing(g, "cancel", status[t])
           \/ Goto(g, "outer")
    BY <1>0, <1>11 DEF CancelGet
  <2>2. run'[g].pc \in {"cancel", "outer"}
    BY <1>g, <1>h, <1>p, <2>1
  <2> QED
    BY <1>w, <2>1, <2>2
<1>12. ASSUME CancelOuter(g) PROVE OneJob(t)'
  <2>1. UNCHANGED <<jobs, ref>>
    BY <1>12 DEF CancelOuter
  <2>2. CASE UpdateStatus(t, run[g].first, "canceled") /\ Goto(g, "outerRefund")
    <3>1. status'[t] = "canceled" /\ run'[g].pc = "outerRefund"
      BY <1>h, <1>p, <1>u, <2>2
    <3> QED
      BY <1>m, <2>1, <3>1
  <2>3. CASE run' = [run EXCEPT ![g] = Idle] /\ UNCHANGED <<status, lease>>
    <3>1. run'[g].pc = "idle"
      BY <2>3 DEF Idle, TypeOK
    <3> QED
      BY <1>w, <2>1, <2>3, <3>1
  <2> QED
    BY <1>0, <1>12, <2>2, <2>3 DEF CancelOuter
<1>13. ASSUME CancelOuterRefund(g) PROVE OneJob(t)'
  <2>1. UNCHANGED <<jobs, status, ref, lease>> /\ run'[g].pc = "idle"
    BY <1>13 DEF CancelOuterRefund, Idle, TypeOK
  <2> QED
    BY <1>w, <2>1
\* An end is no way back to the queue.
<1>14. ASSUME Succeed(g) \/ Fail(g) \/ CancelTask(g) PROVE OneJob(t)'
  <2>1. UNCHANGED <<jobs, ref>>
    BY <1>14 DEF Succeed, Fail, CancelTask, End
  <2>2. ASSUME NEW expect, NEW next \in Terminal, NEW pc \in {"charge", "refund"},
               UpdateStatus(t, expect, next), Goto(g, pc)
        PROVE  OneJob(t)'
    <3>1. status'[t] = next /\ next \notin {"absent", "queued"}
      BY <1>p, <1>u, <2>2
    <3>2. run'[g].pc \in {"charge", "refund"}
      BY <1>h, <1>p, <2>2
    <3> QED
      BY <1>m, <2>1, <3>1, <3>2
  <2>3. ASSUME Goto(g, "release"), g \notin Cancellers, UNCHANGED <<status, lease>> PROVE OneJob(t)'
    BY <1>h, <1>p, <1>w, <2>1, <2>3
  <2>4. ASSUME Return(g), UNCHANGED <<status, lease>> PROVE OneJob(t)'
    <3>1. Goto(g, "outer") \/ run' = [run EXCEPT ![g] = Idle]
      BY <2>4 DEF Return
    <3>2. run'[g].pc \in {"outer", "idle"}
      BY <1>h, <1>p, <3>1 DEF Idle, TypeOK
    <3> QED
      BY <1>w, <2>1, <2>4, <3>2
  <2>5. CASE Succeed(g)
    <3>1. g \notin Cancellers
      BY <2>5 DEF Succeed, End, Live, At, Roles
    <3> QED
      BY <1>0, <2>2, <2>3, <2>5, <3>1 DEF Succeed, End, Terminal
  <2>6. CASE Fail(g)
    <3>1. g \notin Cancellers
      BY <2>6 DEF Fail, End, Live, At, Roles
    <3> QED
      BY <1>0, <2>2, <2>3, <2>6, <3>1 DEF Fail, End, Terminal
  <2>7. CASE CancelTask(g)
    BY <1>0, <2>2, <2>4, <2>7 DEF CancelTask, End, Terminal
  <2> QED
    BY <1>14, <2>5, <2>6, <2>7
<1>15. ASSUME Settle(g) PROVE OneJob(t)'
  <2>1. UNCHANGED <<jobs, status, ref, lease>> /\ Goto(g, "release") /\ run[g].pc \in {"charge", "refund"}
    BY <1>15 DEF Settle, At
  <2>2. g \in Cancellers => status[t] # "queued"
    BY <1>0, <1>2, <2>1 DEF OneJob, Roles
  <2> QED
    BY <1>h, <1>p, <1>w, <2>1, <2>2
<1>16. ASSUME Release(g) PROVE OneJob(t)'
  <2>1. UNCHANGED <<jobs, status, ref>> /\ run[g].pc = "release" /\ Return(g)
    BY <1>16 DEF Release, At
  <2>2. CASE g \in Cancellers
    <3>1. status[t] # "queued"
      BY <1>0, <1>2, <2>1, <2>2 DEF OneJob
    <3>2. run'[g].pc = "outer"
      BY <1>h, <1>p, <2>1, <2>2 DEF Return
    <3> QED
      BY <1>m, <2>1, <3>1, <3>2
  <2>3. CASE g \notin Cancellers
    <3>1. run'[g].task # t
      BY <2>1, <2>3, ExecAssumption DEF Return, Idle, TypeOK
    <3> QED
      BY <1>m, <2>1, <2>3, <3>1
  <2> QED
    BY <2>2, <2>3
<1>17. ASSUME Interrupt(g) PROVE OneJob(t)'
  <2>1. UNCHANGED <<jobs, status, ref, lease>> /\ Goto(g, "release") /\ g \notin Cancellers
    BY <1>17, ExecAssumption DEF Interrupt
  <2> QED
    BY <1>h, <1>p, <1>w, <2>1
<1> QED
  BY <1>5, <1>6, <1>7, <1>8, <1>9, <1>10, <1>11, <1>12, <1>13, <1>14, <1>15, <1>16, <1>17
     DEF Step, SubmitStep, AdvanceStep, CancelStep, EndStep

\* A goroutine that picks up a task was idle, and then has it in its hands.
LEMMA PickUpMoves ==
    ASSUME TypeOK, NEW g \in Goroutines, NEW t \in Tasks,
           BeginCancel(g, t) \/ Claim(g, t) \/ ClaimPoll(g, t) \/ Webhook(g, t)
    PROVE  /\ run[g].pc = "idle" /\ run'[g].task = t
           /\ BeginCancel(g, t) => run'[g].pc = "get"
           /\ Claim(g, t) => run'[g].pc = "prepare"
           /\ ClaimPoll(g, t) \/ Webhook(g, t) => run'[g].pc = "ask"
           /\ \A h \in Goroutines \ {g} : run'[h] = run[h]
<1> USE DEF Live, At
<1>1. run[g].pc = "idle"
  BY DEF BeginCancel, Claim, ClaimPoll, Webhook
<1>2. ASSUME BeginCancel(g, t)
      PROVE  run'[g].task = t /\ run'[g].pc = "get" /\ \A h \in Goroutines \ {g} : run'[h] = run[h]
  BY <1>2 DEF BeginCancel, Idle, TypeOK
<1>3. ASSUME Claim(g, t)
      PROVE  run'[g].task = t /\ run'[g].pc = "prepare" /\ \A h \in Goroutines \ {g} : run'[h] = run[h]
  BY <1>3 DEF Claim, Idle, TypeOK
<1>4. ASSUME ClaimPoll(g, t)
      PROVE  run'[g].task = t /\ run'[g].pc = "ask" /\ \A h \in Goroutines \ {g} : run'[h] = run[h]
  BY <1>4 DEF ClaimPoll, Idle, TypeOK
<1>5. ASSUME Webhook(g, t)
      PROVE  run'[g].task = t /\ run'[g].pc = "ask" /\ \A h \in Goroutines \ {g} : run'[h] = run[h]
  BY <1>5 DEF Webhook, Idle, TypeOK
<1> QED
  BY <1>1, <1>2, <1>3, <1>4, <1>5

LEMMA RolesKept ==
    ASSUME TypeOK, Roles, [Next]_vars
    PROVE  Roles'
<1>1. ASSUME NEW g \in Goroutines, Step(g) \/ Interrupt(g) PROVE Roles'
  BY <1>1, StepMoves
<1>2. ASSUME NEW t \in Tasks, NEW g \in Cancellers, BeginCancel(g, t) PROVE Roles'
  <2>1. g \in Goroutines
    BY DEF Goroutines
  <2> QED
    BY <1>2, <2>1, PickUpMoves DEF Roles
<1>3. ASSUME NEW t \in Tasks, NEW g \in Submitters \cup Pollers \cup Hooks,
             Claim(g, t) \/ ClaimPoll(g, t) \/ Webhook(g, t)
      PROVE  Roles'
  <2>1. g \in Goroutines /\ g \notin Cancellers
    BY ExecAssumption DEF Goroutines
  <2>2. run'[g].pc \in {"prepare", "ask", "get"} /\ \A h \in Goroutines \ {g} : run'[h] = run[h]
    BY <1>3, <2>1, PickUpMoves
  <2> QED
    BY <2>1, <2>2 DEF Roles
<1>4. ASSUME NEW p \in Procs, Crash(p) PROVE Roles'
  <2>1. \A g \in Goroutines : run'[g] = Idle \/ run'[g] = run[g]
    BY <1>4 DEF Crash
  <2> QED
    BY <2>1 DEF Roles, Idle
<1>5. ASSUME run' = run PROVE Roles'
  BY <1>5 DEF Roles
<1>6. ASSUME NEW t \in Tasks, NEW p \in Procs,
             \/ Create(p, t) \/ HandlerStep(t) \/ Requeue(t) \/ Expire(t) \/ UpstreamEnds(t)
             \/ Stop(p) \/ Restart(p)
      PROVE  run' = run
  BY <1>6 DEF Create, HandlerStep, Hold, HoldFails, Requeue, Expire, UpstreamEnds, Stop, Restart
<1>7. ASSUME NEW t \in Tasks, HandlerStep(t) \/ Requeue(t) \/ Expire(t) \/ UpstreamEnds(t) PROVE run' = run
  BY <1>7 DEF HandlerStep, Hold, HoldFails, Requeue, Expire, UpstreamEnds
<1>8. ASSUME NEW p \in Procs, Stop(p) \/ Restart(p) PROVE run' = run
  BY <1>8 DEF Stop, Restart
<1> QED
  BY <1>1, <1>2, <1>3, <1>4, <1>5, <1>6, <1>7, <1>8 DEF Next, vars

LEMMA JobKept ==
    ASSUME TypeOK, Roles, [Next]_vars, ~Stalls, NEW u \in Tasks,
           requeues[u] = 0, requeues'[u] = 0, OneJob(u)
    PROVE  OneJob(u)'
<1> USE DEF row, world, procs
<1>i. \A h \in Goroutines : run[h].pc = "idle" => run[h].task # u
  BY ExecAssumption DEF Roles
<1>1. ASSUME NEW g \in Goroutines, Step(g) \/ Interrupt(g) PROVE OneJob(u)'
  <2>1. CASE run[g].task = u
    BY <1>1, <2>1, JobAtStep
  <2>2. CASE run[g].task # u
    <3>1. OnlyTouches(run[g].task)
      BY <1>1, StepMoves
    <3>2. run'[g].task # u /\ \A h \in Goroutines \ {g} : run'[h] = run[h]
      BY <1>1, <2>2, StepMoves, ExecAssumption DEF Moved
    <3> QED
      BY <2>2, <3>1, <3>2, JobUntouched DEF OnlyTouches
  <2> QED
    BY <2>1, <2>2
\* A pickup of another task touches neither the row nor the holders of this one.
<1>p. ASSUME NEW g \in Goroutines, NEW t \in Tasks \ {u},
             BeginCancel(g, t) \/ Claim(g, t) \/ ClaimPoll(g, t) \/ Webhook(g, t)
      PROVE  OneJob(u)'
  <2>1. run'[g].task # u /\ \A h \in Goroutines \ {g} : run'[h] = run[h]
    BY <1>p, PickUpMoves
  <2>2. UNCHANGED <<jobs, status, ref>> /\ lease'[u] = lease[u]
    BY <1>p DEF BeginCancel, Claim, ClaimPoll, Webhook, TypeOK
  <2> QED
    BY <2>1, <2>2, JobUntouched
<1>2. ASSUME NEW g \in Cancellers, BeginCancel(g, u) PROVE OneJob(u)'
  <2>1. g \in Goroutines
    BY DEF Goroutines
  <2>2. run'[g].pc = "get" /\ \A h \in Goroutines \ {g} : run'[h] = run[h]
    BY <1>2, <2>1, PickUpMoves
  <2>3. UNCHANGED <<jobs, status, ref, lease>> /\ status[u] # "absent"
    BY <1>2 DEF BeginCancel, Active
  <2> QED
    BY <1>2, <2>1, <2>2, <2>3 DEF OneJob
\* A queued task that nobody leases is in no worker's hands.
<1>3. ASSUME NEW g \in Submitters, Claim(g, u) PROVE OneJob(u)'
  <2>1. g \in Goroutines /\ g \notin Cancellers
    BY ExecAssumption DEF Goroutines
  <2>2. run'[g].pc = "prepare" /\ run'[g].task = u /\ \A h \in Goroutines \ {g} : run'[h] = run[h]
    BY <1>3, <2>1, PickUpMoves
  <2>3. /\ UNCHANGED <<jobs, status, ref>> /\ status[u] = "queued" /\ lease[u] = NoProc
        /\ lease' = [lease EXCEPT ![u] = Proc[g]]
    BY <1>3 DEF Claim
  <2>4. lease'[u] = Proc[g] /\ \A h \in Goroutines : Proc[h] # NoProc
    BY <2>3, ExecAssumption DEF TypeOK
  <2>5. \A h \in Goroutines \ Cancellers : run[h].task # u
    BY <2>3, <2>4 DEF OneJob
  <2>6. jobs[u] \in Nat /\ jobs[u] = 0
    BY <2>3 DEF OneJob, TypeOK
  <2> QED
    BY <2>1, <2>2, <2>3, <2>4, <2>5, <2>6 DEF OneJob
\* Only a task that has been submitted can be polled or called back for.
<1>4. ASSUME NEW g \in Pollers \cup Hooks, ClaimPoll(g, u) \/ Webhook(g, u) PROVE OneJob(u)'
  <2>1. g \in Goroutines /\ g \notin Cancellers
    BY ExecAssumption DEF Goroutines
  <2>2. /\ UNCHANGED <<jobs, status, ref>> /\ ref[u]
        /\ run'[g].pc = "ask" /\ run'[g].task = u /\ \A h \in Goroutines \ {g} : run'[h] = run[h]
    BY <1>4, <2>1, PickUpMoves DEF ClaimPoll, Webhook
  <2>3. jobs[u] > 0 /\ status[u] \notin {"absent", "queued"}
    BY <2>2 DEF OneJob
  <2> QED
    BY <2>1, <2>2, <2>3 DEF OneJob
<1>5. ASSUME NEW p \in Procs, NEW t \in Tasks, Create(p, t) PROVE OneJob(u)'
  <2>1. UNCHANGED <<jobs, ref, lease, run>> /\ status' = [status EXCEPT ![t] = "queued"] /\ status[t] = "absent"
    BY <1>5 DEF Create
  <2>2. CASE t # u
    <3>1. status'[u] = status[u]
      BY <2>1, <2>2 DEF TypeOK
    <3> QED
      BY <2>1, <3>1, JobUntouched
  <2>3. CASE t = u
    <3>1. status'[u] = "queued"
      BY <2>1, <2>3 DEF TypeOK
    <3>2. \A h \in Goroutines : run[h].task # u
      BY <2>1, <2>3 DEF OneJob
    <3> QED
      BY <2>1, <2>3, <3>1, <3>2 DEF OneJob
  <2> QED
    BY <2>2, <2>3
<1>6. ASSUME NEW t \in Tasks, Hold(t) \/ UpstreamEnds(t) PROVE OneJob(u)'
  <2>1. UNCHANGED <<jobs, status, ref, lease, run>>
    BY <1>6 DEF Hold, UpstreamEnds
  <2> QED
    BY <2>1, JobUntouched
<1>7. ASSUME NEW t \in Tasks, HoldFails(t) PROVE OneJob(u)'
  <2>1. /\ UNCHANGED <<jobs, ref, run>>
        /\ \/ UNCHANGED <<status, lease>>
           \/ UpdateStatus(t, "queued", "failed")
    BY <1>7 DEF HoldFails
  <2>2. CASE UNCHANGED <<status, lease>>
    BY <2>1, <2>2, JobUntouched
  <2>3. CASE UpdateStatus(t, "queued", "failed") /\ t # u
    <3>1. status'[u] = status[u] /\ lease'[u] = lease[u]
      BY <2>3 DEF UpdateStatus, TypeOK
    <3> QED
      BY <2>1, <3>1, JobUntouched
  <2>4. CASE UpdateStatus(t, "queued", "failed") /\ t = u
    <3>1. status'[u] = "failed" /\ status[u] # "absent"
      BY <2>4 DEF UpdateStatus, TypeOK
    <3> QED
      BY <2>1, <3>1 DEF OneJob
  <2> QED
    BY <2>1, <2>2, <2>3, <2>4
<1>8. ASSUME NEW t \in Tasks, Requeue(t) PROVE OneJob(u)'
  <2>1. t # u
    BY <1>8, ExecAssumption DEF Requeue, TypeOK
  <2>2. UNCHANGED <<jobs, run>> /\ status'[u] = status[u] /\ ref'[u] = ref[u] /\ lease'[u] = lease[u]
    BY <1>8, <2>1 DEF Requeue, TypeOK
  <2> QED
    BY <2>2, JobUntouched
\* A lease does not expire under the worker that renews it.
<1>9. ASSUME NEW t \in Tasks, Expire(t) PROVE OneJob(u)'
  <2>1. UNCHANGED <<jobs, status, ref, run>> /\ ~Renewing(lease[t], t) /\ lease' = [lease EXCEPT ![t] = NoProc]
    BY <1>9 DEF Expire
  <2>2. CASE t # u
    <3>1. lease'[u] = lease[u]
      BY <2>1, <2>2 DEF TypeOK
    <3> QED
      BY <2>1, <3>1, JobUntouched
  <2>3. CASE t = u
    <3>1. status[u] = "queued" => \A h \in Goroutines \ Cancellers : run[h].task # u
      BY <2>1, <2>3 DEF OneJob, Renewing
    <3> QED
      BY <2>1, <3>1 DEF OneJob
  <2> QED
    BY <2>2, <2>3
\* A process gives up its leases with its workers gone.
<1>10. ASSUME NEW p \in Procs, Restart(p) PROVE OneJob(u)'
  <2>1. /\ UNCHANGED <<jobs, status, ref, run>> /\ lease'[u] = IF lease[u] = p THEN NoProc ELSE lease[u]
        /\ \A g \in Submitters \cup Pollers : Proc[g] = p => run[g].pc = "idle"
    BY <1>10 DEF Restart, GiveUp, At
  <2>2. \A h \in Submitters : h \in Goroutines
    BY DEF Goroutines
  <2>3. CASE lease[u] # p
    BY <2>1, <2>3, JobUntouched
  <2>4. CASE lease[u] = p
    <3>1. status[u] = "queued" => \A h \in Goroutines \ Cancellers : run[h].task # u
      BY <1>i, <2>1, <2>2, <2>4 DEF OneJob
    <3> QED
      BY <2>1, <3>1 DEF OneJob
  <2> QED
    BY <2>3, <2>4
<1>11. ASSUME NEW p \in Procs, Crash(p) PROVE OneJob(u)'
  <2>1. /\ UNCHANGED <<jobs, status, ref>> /\ lease'[u] = IF lease[u] = p THEN NoProc ELSE lease[u]
        /\ \A g \in Goroutines : run'[g] = IF Proc[g] = p THEN Idle ELSE run[g]
    BY <1>11 DEF Crash, GiveUp
  <2>2. \A g \in Goroutines : run'[g].task = u => run'[g] = run[g] /\ Proc[g] # p
    BY <2>1, ExecAssumption DEF Idle
  <2> QED
    BY <2>1, <2>2 DEF OneJob
<1>12. ASSUME NEW p \in Procs, Stop(p) PROVE OneJob(u)'
  <2>1. UNCHANGED <<jobs, status, ref, lease, run>>
    BY <1>12 DEF Stop
  <2> QED
    BY <2>1, JobUntouched
<1>13. ASSUME UNCHANGED vars PROVE OneJob(u)'
  BY <1>13, JobUntouched DEF vars
<1> QED
  BY <1>1, <1>p, <1>2, <1>3, <1>4, <1>5, <1>6, <1>7, <1>8, <1>9, <1>10, <1>11, <1>12, <1>13
     DEF Next, HandlerStep, Goroutines

\* What the invariants below build on.
Base == TypeOK /\ Roles /\ Jobs

LEMMA InitBase == ASSUME Init PROVE Base
<1>1. TypeOK
  BY InitEstablishes DEF IInv
<1>2. Roles
  BY DEF Init, Roles, Idle
<1>3. Jobs
  BY ExecAssumption DEF Init, Jobs, OneJob, Idle
<1> QED
  BY <1>1, <1>2, <1>3 DEF Base

LEMMA BaseKept == ASSUME Base, [Next]_vars PROVE Base'
<1>1. TypeOK' /\ KeepsHistory
  BY NextProper DEF Base, Proper
<1>2. Roles'
  BY RolesKept DEF Base
<1>3. Jobs'
  BY <1>1, JobKept DEF Base, Jobs, KeepsHistory
<1> QED
  BY <1>1, <1>2, <1>3 DEF Base

LEMMA BaseAlways == Spec => []Base
<1>1. Init => Base
  BY InitBase
<1>2. Base /\ [Next]_vars => Base'
  BY BaseKept
<1> QED
  BY <1>1, <1>2, PTL DEF Spec

\* One generation is paid for once while leases are kept and nobody requeues it: neither
\* claims, retries, polls and callbacks nor crashes send a second job upstream
\* (runner.go Run, queue.go claim).
THEOREM ExecPaysOnce == Spec => []PaidOnce
<1>1. Base => PaidOnce
  BY DEF Base, Jobs, OneJob, PaidOnce
<1> QED
  BY <1>1, BaseAlways, PTL

-----------------------------------------------------------------------------
(* A running task is tended *)

\* No lease expires under a worker, no statement fails, no process ends, nobody requeues.
Quiet == ~Stalls /\ ~DbFaults /\ MaxRestarts = 0 /\ MaxRequeues = 0

\* A worker that will put the task on the schedule, or end it.
Tending(g, t) ==
    /\ run[g].task = t
    /\ run[g].pc \in {"submit", "record", "schedule", "transfer", "succeed", "fail", "cancel"}
    /\ run[g].seen = "running"

Tended(t) ==
    /\ status[t] = "running" => (due[t] /\ ref[t]) \/ \E g \in Submitters : Tending(g, t)
    /\ \A g \in Goroutines : run[g].task = t /\ run[g].pc \in {"ask", "schedule"} => ref[t]

AllTended == Quiet => stopping = {} /\ \A t \in Tasks : Tended(t)

\* A step that leaves the row where it is, or moves it away from running, and no
\* goroutine of the task.
LEMMA TendedUntouched ==
    ASSUME NEW u \in Tasks, Tended(u),
           status'[u] = status[u] \/ status'[u] # "running",
           due'[u] = due[u] \/ status'[u] # "running", ref'[u] = ref[u],
           \A h \in Goroutines : run[h].task = u \/ run'[h].task = u => run'[h] = run[h]
    PROVE  Tended(u)'
<1>1. Submitters \subseteq Goroutines
  BY DEF Goroutines
<1> QED
  BY <1>1 DEF Tended, Tending

\* A goroutine goes on with its task, or lays it down.
LEMMA TendedMoves ==
    ASSUME NEW t \in Tasks, NEW g \in Goroutines, Tended(t),
           \A h \in Goroutines \ {g} : run'[h] = run[h],
           ref[t] => ref'[t],
           status'[t] = "running" =>
              \/ g \in Submitters /\ Tending(g, t)'
              \/ /\ status[t] = "running"
                 /\ due[t] => due'[t]
                 /\ g \in Submitters /\ Tending(g, t) => due'[t] /\ ref'[t],
           run'[g].task = t /\ run'[g].pc \in {"ask", "schedule"} => ref'[t]
    PROVE  Tended(t)'
<1>1. Submitters \subseteq Goroutines
  BY DEF Goroutines
<1> QED
  BY <1>1 DEF Tended, Tending

\* What Goto keeps.
LEMMA GotoKeeps ==
    ASSUME TypeOK, NEW g \in Goroutines, NEW pc, Goto(g, pc)
    PROVE  run'[g].pc = pc /\ run'[g].task = run[g].task /\ run'[g].seen = run[g].seen
  BY DEF Goto, TypeOK, Runs

LEMMA GotoSees ==
    ASSUME TypeOK, NEW g \in Goroutines, NEW pc, NEW seen, GotoSeeing(g, pc, seen)
    PROVE  run'[g].pc = pc /\ run'[g].task = run[g].task /\ run'[g].seen = seen
  BY DEF GotoSeeing, TypeOK, Runs

LEMMA TendedAtStep ==
    ASSUME Base, Quiet, stopping = {}, NEW g \in Goroutines, Step(g) \/ Interrupt(g),
           NEW t \in Tasks, run[g].task = t, requeues[t] = 0, Tended(t)
    PROVE  Tended(t)'
<1> USE DEF row, world, procs
<1>0. TypeOK /\ Roles /\ OneJob(t)
  BY DEF Base, Jobs, Quiet
<1>1. \A h \in Goroutines \ {g} : run'[h] = run[h]
  BY <1>0, StepMoves DEF Moved
<1>2. run[g].task = t /\ run[g] \in Runs
  BY <1>0 DEF TypeOK
\* The row stands still; a worker that tends goes on tending.
<1>w. ASSUME UNCHANGED <<status, due>>, ref[t] => ref'[t],
             g \in Submitters /\ Tending(g, t) => Tending(g, t)' \/ (due'[t] /\ ref'[t]),
             run'[g].task = t /\ run'[g].pc \in {"ask", "schedule"} => ref'[t]
      PROVE  Tended(t)'
  BY <1>1, <1>w, TendedMoves
\* It stays where tending goes on.
<1>k. ASSUME UNCHANGED <<status, due, ref>>, run'[g].task = t, run'[g].seen = run[g].seen,
             run'[g].pc \in {"submit", "record", "transfer", "succeed", "fail"}
      PROVE  Tended(t)'
  <2>1. CASE Tending(g, t)
    <3>1. Tending(g, t)'
      BY <1>k, <2>1 DEF Tending
    <3>2. run'[g].pc \notin {"ask", "schedule"}
      BY <1>k
    <3>3. CASE g \in Submitters
      BY <1>1, <1>k, <3>1, <3>2, <3>3, TendedMoves
    <3>4. CASE g \notin Submitters
      BY <1>w, <1>k, <3>2, <3>4
    <3> QED
      BY <3>3, <3>4
  <2>2. CASE ~Tending(g, t)
    BY <1>w, <1>k, <2>2
  <2> QED
    BY <2>1, <2>2
<1>n. ASSUME status'[t] # "running", UNCHANGED ref, run'[g].pc \notin {"ask", "schedule"}
      PROVE  Tended(t)'
  BY <1>1, <1>n, TendedMoves
<1>g. ASSUME NEW pc, Goto(g, pc)
      PROVE  run'[g].pc = pc /\ run'[g].task = t /\ run'[g].seen = run[g].seen
  BY <1>0, <1>2, <1>g, GotoKeeps
<1>s. ASSUME NEW pc, NEW seen, GotoSeeing(g, pc, seen)
      PROVE  run'[g].pc = pc /\ run'[g].task = t /\ run'[g].seen = seen
  BY <1>0, <1>2, <1>s, GotoSees
<1>i. ASSUME run' = [run EXCEPT ![g] = Idle] PROVE run'[g].pc = "idle"
  BY <1>0, <1>i DEF TypeOK, Idle
<1>u. ASSUME NEW expect, NEW next, UpdateStatus(t, expect, next)
      PROVE  status'[t] = next /\ status[t] \in {expect, next} /\ (next = "running" => UNCHANGED due)
  BY <1>0, <1>u DEF UpdateStatus, TypeOK, Terminal
<1>3. ASSUME Prepare(g) PROVE Tended(t)'
  <2>1. run[g].pc = "prepare" /\ UNCHANGED ref
    BY <1>3 DEF Prepare, Live, At
  <2>2. g \notin Cancellers
    BY <1>0, <2>1 DEF Roles
  <2>3. CASE UpdateStatus(t, "queued", "running") /\ GotoSeeing(g, "submit", "running")
    <3>1. Tending(g, t)' /\ run'[g].pc = "submit"
      BY <1>s, <2>3 DEF Tending
    <3>2. status[t] = "queued" \/ status[t] = "running"
      BY <1>u, <2>3
    <3>3. status[t] = "queued" => g \in Submitters
      BY <1>0, <1>2, <2>2 DEF OneJob
    <3>4. ~Tending(g, t)
      BY <2>1 DEF Tending
    <3> QED
      BY <1>1, <1>u, <2>1, <2>3, <3>1, <3>2, <3>3, <3>4, TendedMoves
  <2>4. CASE Goto(g, "release") /\ UNCHANGED <<status, due>>
    BY <1>g, <1>w, <2>1, <2>4 DEF Tending
  <2> QED
    BY <1>2, <1>3, <2>3, <2>4 DEF Prepare
<1>4. ASSUME Unprepared(g) \/ Submit(g) \/ SubmitFails(g) \/ Transfer(g) PROVE Tended(t)'
  <2>1. UNCHANGED <<status, due, ref>> /\ \E pc \in {"fail", "record", "transfer", "succeed"} : Goto(g, pc)
    BY <1>4 DEF Unprepared, Submit, SubmitFails, Transfer
  <2>2. /\ run'[g].pc \in {"fail", "record", "transfer", "succeed"}
        /\ run'[g].task = t /\ run'[g].seen = run[g].seen
    BY <1>g, <2>1
  <2> QED
    BY <1>k, <2>1, <2>2
<1>5. ASSUME SubmitAgain(g) PROVE Tended(t)'
  <2>1. /\ UNCHANGED <<status, due, ref>> /\ run[g].pc = "submit"
        /\ run'[g].pc = "submit" /\ run'[g].task = t /\ run'[g].seen = run[g].seen
    BY <1>0, <1>2, <1>5 DEF SubmitAgain, Live, At, TypeOK, Runs
  <2> QED
    BY <1>k, <2>1
\* The reference is recorded before the poll is set.
<1>6. ASSUME Record(g) PROVE Tended(t)'
  <2>1. /\ UNCHANGED <<status, due>> /\ ref' = [ref EXCEPT ![t] = TRUE]
        /\ \E pc \in {"schedule", "fail", "cancel"} : Goto(g, pc)
    BY <1>2, <1>6 DEF Record, Quiet
  <2>2. ref'[t]
    BY <1>0, <2>1 DEF TypeOK
  <2> QED
    BY <1>g, <1>w, <2>1, <2>2 DEF Tending
<1>7. ASSUME Schedule(g) PROVE Tended(t)'
  <2>1. /\ UNCHANGED <<status, ref>> /\ due'[t] /\ run[g].pc = "schedule" /\ Goto(g, "release")
    BY <1>0, <1>2, <1>7 DEF Schedule, Live, At, TypeOK
  <2>2. ref[t]
    BY <1>2, <2>1 DEF Tended
  <2>3. status[t] = "running" => due'[t] /\ ref'[t]
    BY <2>1, <2>2
  <2>4. run'[g].pc = "release"
    BY <1>g, <2>1
  <2> QED
    BY <1>1, <2>1, <2>2, <2>4, TendedMoves
\* Only a task with a reference is asked about.
<1>8. ASSUME Ask(g) PROVE Tended(t)'
  <2>1. /\ run[g].pc = "ask" /\ (ref[t] => ref'[t])
        /\ UNCHANGED <<status, due>> \/ UpdateStatus(t, "queued", "running")
        /\ \/ \E pc \in AfterAsk(t) : GotoSeeing(g, pc, "running")
           \/ Goto(g, "release")
    BY <1>0, <1>2, <1>8 DEF Ask, Live, At, TypeOK, Runs, Active
  <2>2. ref[t] /\ status[t] # "queued"
    BY <1>0, <1>2, <2>1 DEF Tended, OneJob
  <2>3. status'[t] = "running" => status[t] = "running" /\ due'[t] = due[t]
    BY <1>u, <2>1, <2>2
  <2>4. ~Tending(g, t)
    BY <2>1 DEF Tending
  <2> QED
    BY <1>1, <2>1, <2>2, <2>3, <2>4, TendedMoves
<1>9. ASSUME AskFails(g) \/ Unanswerable(g) PROVE Tended(t)'
  <2>1. UNCHANGED <<status, due, ref>> /\ run[g].pc = "ask"
    BY <1>9 DEF AskFails, Unanswerable, Live, At
  <2>2. ref[t] /\ ~Tending(g, t)
    BY <1>2, <2>1 DEF Tended, Tending
  <2> QED
    BY <1>w, <2>1, <2>2
\* Cancellers tend no task.
<1>10. ASSUME CancelStep(g) PROVE Tended(t)'
  <2>1. UNCHANGED ref /\ ~Tending(g, t)
    BY <1>10 DEF CancelStep, CancelGet, CancelOuter, CancelOuterRefund, Tending, At
  <2>2. run'[g].pc \in {"cancel", "outer", "outerRefund", "idle"}
    BY <1>10, <1>g, <1>i, <1>s DEF CancelStep, CancelGet, CancelOuter, CancelOuterRefund
  <2>3. UNCHANGED <<status, due>> \/ UpdateStatus(t, run[g].first, "canceled")
    BY <1>2, <1>10 DEF CancelStep, CancelGet, CancelOuter, CancelOuterRefund
  <2> QED
    BY <1>n, <1>u, <1>w, <2>1, <2>2, <2>3
\* Who tends a task and loses it to another finds it no longer running.
<1>11. ASSUME NEW pc, NEW expect, NEW next \in Terminal, NEW paying \in {"charge", "refund"}, NEW Lose,
              End(g, pc, expect, next, paying, Lose), Lose => Goto(g, "release") \/ Return(g),
              run[g].seen = "running" => expect = "running"
       PROVE  Tended(t)'
  <2>1. UNCHANGED ref
    BY <1>11 DEF End
  <2>2. CASE UpdateStatus(t, expect, next) /\ Goto(g, paying)
    BY <1>g, <1>n, <1>u, <1>11, <2>1, <2>2 DEF Terminal
  <2>3. CASE Conflict(t, expect, next) /\ Lose /\ UNCHANGED <<status, lease, due>>
    <3>1. run'[g].pc \in {"release", "outer", "idle"}
      BY <1>g, <1>i, <1>11, <2>3 DEF Return
    <3>2. Tending(g, t) => status[t] # "running"
      BY <1>11, <2>3 DEF Tending, Conflict
    <3> QED
      BY <1>n, <1>w, <2>1, <2>3, <3>1, <3>2
  <2> QED
    BY <1>2, <1>11, <2>2, <2>3 DEF End
<1>12. ASSUME Succeed(g) \/ Fail(g) \/ CancelTask(g) PROVE Tended(t)'
  BY <1>11, <1>12 DEF Succeed, Fail, CancelTask, Terminal
<1>13. ASSUME Settle(g) \/ Release(g) PROVE Tended(t)'
  <2>1. UNCHANGED <<status, due, ref>> /\ ~Tending(g, t)
    BY <1>13 DEF Settle, Release, Tending, At
  <2>2. run'[g].pc \in {"release", "outer", "idle"}
    BY <1>13, <1>g, <1>i DEF Settle, Release, Return
  <2> QED
    BY <1>w, <2>1, <2>2
\* Only callbacks are interrupted.
<1>14. ASSUME Interrupt(g) PROVE Tended(t)'
  <2>1. UNCHANGED <<status, due, ref>> /\ Goto(g, "release") /\ g \notin Submitters
    BY <1>14, ExecAssumption DEF Interrupt, Quiet
  <2> QED
    BY <1>g, <1>w, <2>1
<1> QED
  BY <1>3, <1>4, <1>5, <1>6, <1>7, <1>8, <1>9, <1>10, <1>12, <1>13, <1>14
     DEF Step, SubmitStep, AdvanceStep, EndStep

\* A task stays tended whoever moves: its row changes hands only when it is claimed
\* while queued, or with its reference on it.
LEMMA TendedKept ==
    ASSUME Base, Quiet, stopping = {}, [Next]_vars, NEW u \in Tasks, Tended(u)
    PROVE  Tended(u)'
<1> USE DEF row, world, procs
<1>0. TypeOK /\ Roles /\ requeues[u] = 0 /\ OneJob(u) /\ Submitters \subseteq Goroutines
  <2>1. TypeOK /\ Roles /\ Submitters \subseteq Goroutines
    BY DEF Base, Goroutines
  <2>2. requeues[u] = 0
    BY <2>1, ExecAssumption DEF TypeOK, Quiet
  <2> QED
    BY <2>1, <2>2 DEF Base, Jobs, Quiet
<1>1. ASSUME NEW g \in Goroutines, Step(g) \/ Interrupt(g) PROVE Tended(u)'
  <2>1. CASE run[g].task = u
    BY <1>0, <1>1, <2>1, TendedAtStep
  <2>2. CASE run[g].task # u
    <3>1. OnlyTouches(run[g].task) /\ run'[g].task # u /\ \A h \in Goroutines \ {g} : run'[h] = run[h]
      BY <1>0, <1>1, <2>2, StepMoves, ExecAssumption DEF Moved
    <3>2. ASSUME NEW t, t # u, NEW expect, NEW next, UpdateStatus(t, expect, next) PROVE due'[u] = due[u]
      <4>1. due' = [due EXCEPT ![t] = FALSE] \/ due' = due
        BY <3>2 DEF UpdateStatus
      <4> QED
        BY <1>0, <3>2, <4>1 DEF TypeOK
    <3>3. ASSUME SubmitStep(g) \/ AdvanceStep(g) PROVE due'[u] = due[u]
      <4>1. ASSUME Prepare(g) \/ Unprepared(g) \/ Submit(g) \/ SubmitAgain(g) \/ SubmitFails(g) \/ Record(g)
            PROVE  due'[u] = due[u]
        BY <2>2, <3>2, <4>1 DEF Prepare, Unprepared, Submit, SubmitAgain, SubmitFails, Record
      <4>2. ASSUME Ask(g) PROVE due'[u] = due[u]
        <5>1. UNCHANGED due \/ UpdateStatus(run[g].task, "queued", "running")
          BY <1>0, <4>2 DEF Ask, TypeOK, Runs, Active
        <5> QED
          BY <2>2, <3>2, <5>1
      <4>3. ASSUME AskFails(g) \/ Unanswerable(g) PROVE due'[u] = due[u]
        BY <4>3 DEF AskFails, Unanswerable
      <4> QED
        BY <3>3, <4>1, <4>2, <4>3 DEF SubmitStep, AdvanceStep
    <3>4. ASSUME CancelStep(g) PROVE due'[u] = due[u]
      BY <2>2, <3>2, <3>4 DEF CancelStep, CancelGet, CancelOuter, CancelOuterRefund
    <3>5. ASSUME Schedule(g) PROVE due'[u] = due[u]
      BY <1>0, <2>2, <3>5 DEF Schedule, TypeOK
    <3>6. ASSUME \/ Transfer(g) \/ Succeed(g) \/ Fail(g) \/ CancelTask(g) \/ Settle(g) \/ Release(g)
                 \/ Interrupt(g)
          PROVE  due'[u] = due[u]
      BY <2>2, <3>2, <3>6 DEF Transfer, Succeed, Fail, CancelTask, End, Settle, Release, Interrupt
    <3>7. due'[u] = due[u]
      BY <1>1, <3>3, <3>4, <3>5, <3>6 DEF Step, EndStep
    <3> QED
      BY <2>2, <3>1, <3>7, TendedUntouched DEF OnlyTouches
  <2> QED
    BY <2>1, <2>2
\* Whoever is idle tends nothing.
<1>p. ASSUME NEW g \in Goroutines, NEW t \in Tasks,
             BeginCancel(g, t) \/ Claim(g, t) \/ ClaimPoll(g, t) \/ Webhook(g, t)
      PROVE  Tended(u)'
  <2>1. /\ run[g].pc = "idle" /\ run'[g].task = t /\ \A h \in Goroutines \ {g} : run'[h] = run[h]
        /\ run'[g].pc = "ask" => ref[t]
        /\ run'[g].pc \in {"get", "prepare", "ask"}
        /\ UNCHANGED <<status, ref, due>>
    BY <1>0, <1>p, PickUpMoves DEF BeginCancel, Claim, ClaimPoll, Webhook
  <2>2. ~Tending(g, u)
    BY <2>1 DEF Tending
  <2> QED
    BY <2>1, <2>2, TendedMoves
<1>3. ASSUME NEW t \in Tasks, NEW p \in Procs, Create(p, t) PROVE Tended(u)'
  <2>1. UNCHANGED <<ref, due, run>> /\ (status'[u] = status[u] \/ status'[u] = "queued")
    BY <1>0, <1>3 DEF Create, TypeOK
  <2> QED
    BY <2>1, TendedUntouched
<1>4. ASSUME NEW t \in Tasks, HoldFails(t) PROVE Tended(u)'
  <2>1. UNCHANGED <<ref, run>>
    BY <1>4 DEF HoldFails
  <2>2. \/ status'[u] = status[u] /\ due'[u] = due[u]
        \/ status'[u] = "failed"
    BY <1>0, <1>4 DEF HoldFails, UpdateStatus, TypeOK
  <2> QED
    BY <2>1, <2>2, TendedUntouched
<1>5. ASSUME NEW t \in Tasks, Hold(t) \/ Expire(t) \/ UpstreamEnds(t) PROVE Tended(u)'
  <2>1. UNCHANGED <<status, ref, due, run>>
    BY <1>5 DEF Hold, Expire, UpstreamEnds
  <2> QED
    BY <2>1, TendedUntouched
\* Nobody requeues, and no process ends.
<1>6. ASSUME NEW t \in Tasks PROVE ~Requeue(t)
  BY <1>0, ExecAssumption DEF Requeue, Quiet, TypeOK
<1>7. ASSUME NEW p \in Procs PROVE ~Stop(p) /\ ~Restart(p) /\ ~Crash(p)
  BY <1>0, ExecAssumption DEF Stop, Restart, Crash, Quiet, TypeOK
<1>8. ASSUME UNCHANGED vars PROVE Tended(u)'
  <2>1. UNCHANGED <<status, ref, due, run>>
    BY <1>8 DEF vars
  <2> QED
    BY <2>1, TendedUntouched
<1> QED
  BY <1>1, <1>p, <1>3, <1>4, <1>5, <1>6, <1>7, <1>8 DEF Next, HandlerStep, Goroutines

LEMMA AllTendedKept == ASSUME Base, AllTended, [Next]_vars PROVE AllTended'
<1>1. ASSUME Quiet, stopping = {} PROVE stopping' = {}
  <2>1. \A p \in Procs : ~Stop(p) /\ ~Restart(p) /\ ~Crash(p)
    BY <1>1, ExecAssumption DEF Stop, Restart, Crash, Quiet, Base, TypeOK
  <2>2. ASSUME NEW g \in Goroutines, Step(g) \/ Interrupt(g) PROVE UNCHANGED stopping
    BY <2>2 DEF Step, SubmitStep, AdvanceStep, CancelStep, EndStep, Prepare, Unprepared, Submit, SubmitAgain,
                SubmitFails, Record, Ask, AskFails, Unanswerable, CancelGet, CancelOuter, CancelOuterRefund,
                Schedule, Transfer, Succeed, Fail, CancelTask, End, Settle, Release, Interrupt, procs
  <2>3. ASSUME NEW t \in Tasks, NEW g, NEW p,
               \/ Create(p, t) \/ HandlerStep(t) \/ Requeue(t) \/ BeginCancel(g, t) \/ Claim(g, t)
               \/ ClaimPoll(g, t) \/ Webhook(g, t) \/ Expire(t) \/ UpstreamEnds(t)
        PROVE  UNCHANGED stopping
    BY <2>3 DEF Create, HandlerStep, Hold, HoldFails, Requeue, BeginCancel, Claim, ClaimPoll, Webhook, Expire,
                UpstreamEnds, procs
  <2>4. UNCHANGED stopping
    BY <2>1, <2>2, <2>3 DEF Next, vars
  <2> QED
    BY <1>1, <2>4
<1> QED
  BY <1>1, TendedKept DEF AllTended

\* Without faults, a running task is in somebody's hands or on the poll schedule with
\* its reference: whoever lays it down has ended it or scheduled it, and has recorded
\* the reference first (runner.go Run, Advance: there is no third case).
THEOREM ExecTendsRunning == Spec => [](Quiet => RunningIsTended)
<1>1. Init => Base /\ AllTended
  BY InitBase, ExecAssumption DEF Init, AllTended, Tended, Idle
<1>2. Base /\ AllTended /\ [Next]_vars => Base' /\ AllTended'
  BY BaseKept, AllTendedKept
<1>3. AllTended => (Quiet => RunningIsTended)
  BY DEF AllTended, Tended, Tending, RunningIsTended, InHand, Goroutines
<1> QED
  BY <1>1, <1>2, <1>3, PTL DEF Spec

-----------------------------------------------------------------------------
(* Nothing stays frozen *)

\* Between its INSERT and Hold a task is nobody's but its handler's.
Fresh(t) ==
    /\ status[t] = "absent" => pending[t] = NoProc
    /\ status[t] = "absent" \/ pending[t] # NoProc =>
          /\ status[t] \in {"absent", "queued"} /\ money[t] = "none" /\ ~ref[t]
          /\ \A g \in Goroutines : run[g].task # t

Paying == {"charge", "refund", "outerRefund"}
Payer(g, t) == run[g].task = t /\ run[g].pc \in Paying

\* A hold on a task that has ended is about to be settled.
Owed(t) ==
    /\ money[t] # "stranded"
    /\ status[t] \in Terminal /\ money[t] = "held" => \E g \in Goroutines : Payer(g, t)

\* Hold comes before anybody else sees the task, and no process dies at work.
Orderly == PromptHold /\ (~Crashes \/ MaxRestarts = 0)

AllOwed == Orderly => \A t \in Tasks : Fresh(t) /\ Owed(t)

\* A task that nobody takes up, lays down or takes further.
LEMMA OwedUntouched ==
    ASSUME NEW u \in Tasks, Fresh(u), Owed(u), pending'[u] = pending[u],
           money'[u] = money[u], status'[u] = status[u], ref'[u] = ref[u],
           \A h \in Goroutines : run[h].task = u \/ run'[h].task = u => run'[h] = run[h]
    PROVE  Fresh(u)' /\ Owed(u)'
<1>1. Fresh(u)'
  BY DEF Fresh
<1>2. Owed(u)'
  BY DEF Owed, Payer
<1> QED
  BY <1>1, <1>2

\* A goroutine goes on with its task: what is owed stays owed by somebody.
LEMMA OwedMoves ==
    ASSUME NEW t \in Tasks, NEW g \in Goroutines, Fresh(t), Owed(t), run[g].task = t,
           \A h \in Goroutines \ {g} : run'[h] = run[h],
           pending'[t] = pending[t], money'[t] # "stranded", status'[t] # "absent",
           status'[t] \in Terminal /\ money'[t] = "held" =>
              \/ run'[g].task = t /\ run'[g].pc \in Paying
              \/ status[t] \in Terminal /\ money[t] = "held" /\ run[g].pc \notin Paying
    PROVE  Fresh(t)' /\ Owed(t)'
<1>1. Fresh(t)'
  BY DEF Fresh
<1>2. Owed(t)'
  BY DEF Owed, Payer
<1> QED
  BY <1>1, <1>2

\* What a step makes of the status and of the money.
LEMMA MoneyAtStep ==
    ASSUME TypeOK, NEW g \in Goroutines, Step(g) \/ Interrupt(g),
           NEW t \in Tasks, run[g].task = t
    PROVE  /\ UNCHANGED pending
           /\ \/ UNCHANGED <<status, money>> /\ run[g].pc \notin Paying
              \/ UNCHANGED money /\ status'[t] = "running"
              \/ /\ UNCHANGED money /\ status'[t] \in Terminal
                 /\ run'[g].task = t /\ run'[g].pc \in Paying
              \/ UNCHANGED status /\ (Charge(t) \/ Refund(t))
<1> USE DEF row, world, procs, At, Live
<1>u. ASSUME NEW expect, NEW next, UpdateStatus(t, expect, next) PROVE status'[t] = next
  BY <1>u DEF UpdateStatus, TypeOK
<1>g. ASSUME NEW pc, Goto(g, pc) PROVE run'[g].pc = pc /\ run'[g].task = t
  BY <1>g, GotoKeeps
<1>1. ASSUME Prepare(g)
      PROVE  /\ UNCHANGED <<money, pending>>
             /\ (UNCHANGED status /\ run[g].pc \notin Paying) \/ status'[t] = "running"
  BY <1>1, <1>u DEF Prepare, Paying
<1>2. ASSUME Unprepared(g) \/ Submit(g) \/ SubmitAgain(g) \/ SubmitFails(g) \/ Record(g)
      PROVE  UNCHANGED <<status, money, pending>> /\ run[g].pc \notin Paying
  BY <1>2 DEF Unprepared, Submit, SubmitAgain, SubmitFails, Record, Paying
<1>3. ASSUME Ask(g)
      PROVE  /\ UNCHANGED <<money, pending>>
             /\ (UNCHANGED status /\ run[g].pc \notin Paying) \/ status'[t] = "running"
  BY <1>3, <1>u DEF Ask, Paying, TypeOK, Runs, Active
<1>4. ASSUME AskFails(g) \/ Unanswerable(g)
      PROVE  UNCHANGED <<status, money, pending>> /\ run[g].pc \notin Paying
  BY <1>4 DEF AskFails, Unanswerable, Paying
<1>5. ASSUME CancelGet(g)
      PROVE  UNCHANGED <<status, money, pending>> /\ run[g].pc \notin Paying
  BY <1>5 DEF CancelGet, Paying
<1>6. ASSUME CancelOuter(g)
      PROVE  /\ UNCHANGED <<money, pending>>
             /\ \/ UNCHANGED status /\ run[g].pc \notin Paying
                \/ status'[t] \in Terminal /\ run'[g].task = t /\ run'[g].pc \in Paying
  BY <1>6, <1>u, <1>g DEF CancelOuter, Paying, Terminal
<1>7. ASSUME CancelOuterRefund(g) \/ Settle(g)
      PROVE  UNCHANGED <<status, pending>> /\ (Charge(t) \/ Refund(t))
  BY <1>7 DEF CancelOuterRefund, Settle
<1>8. ASSUME NEW pc \in {"succeed", "fail", "cancel"}, NEW expect, NEW next \in Terminal,
             NEW paying \in {"charge", "refund"}, NEW Lose, End(g, pc, expect, next, paying, Lose)
      PROVE  /\ UNCHANGED <<money, pending>>
             /\ \/ UNCHANGED status /\ run[g].pc \notin Paying
                \/ status'[t] \in Terminal /\ run'[g].task = t /\ run'[g].pc \in Paying
  BY <1>8, <1>u, <1>g DEF End, Paying
<1>9. ASSUME Succeed(g) \/ Fail(g) \/ CancelTask(g)
      PROVE  /\ UNCHANGED <<money, pending>>
             /\ \/ UNCHANGED status /\ run[g].pc \notin Paying
                \/ status'[t] \in Terminal /\ run'[g].task = t /\ run'[g].pc \in Paying
  BY <1>8, <1>9 DEF Succeed, Fail, CancelTask, Terminal
<1>10. ASSUME Schedule(g) \/ Transfer(g) \/ Release(g)
       PROVE  UNCHANGED <<status, money, pending>> /\ run[g].pc \notin Paying
  BY <1>10 DEF Schedule, Transfer, Release, Paying
<1>11. ASSUME Interrupt(g)
       PROVE  UNCHANGED <<status, money, pending>> /\ run[g].pc \notin Paying
  BY <1>11 DEF Interrupt, Paying, Cancelable
<1> QED
  BY <1>1, <1>2, <1>3, <1>4, <1>5, <1>6, <1>7, <1>9, <1>10, <1>11
     DEF Step, SubmitStep, AdvanceStep, CancelStep, EndStep

LEMMA OwedAtStep ==
    ASSUME TypeOK, Roles, NEW g \in Goroutines, Step(g) \/ Interrupt(g), NEW u \in Tasks, Fresh(u), Owed(u)
    PROVE  Fresh(u)' /\ Owed(u)'
<1> DEFINE t == run[g].task
<1>1. t \in Tasks /\ OnlyTouches(t) /\ \A h \in Goroutines \ {g} : run'[h] = run[h]
  BY StepMoves DEF Moved
<1>2. run'[g].task = t \/ run'[g].task = NoTask
  BY StepMoves DEF Moved
<1> HIDE DEF t
<1>3. UNCHANGED pending
  BY <1>1, MoneyAtStep DEF t
<1>4. CASE t # u
  <2>1. money'[u] = money[u]
    <3>1. UNCHANGED money \/ Charge(t) \/ Refund(t)
      BY <1>1, MoneyAtStep DEF t
    <3> QED
      BY <1>1, <1>4, <3>1 DEF Charge, Refund, TypeOK
  <2>2. run[g].task # u /\ run'[g].task # u
    BY <1>2, <1>4, ExecAssumption DEF t
  <2> QED
    BY <1>1, <1>3, <1>4, <2>1, <2>2, OwedUntouched DEF OnlyTouches
<1>5. CASE t = u
  <2>1. run[g].task = u
    BY <1>5 DEF t
  <2>2. pending[u] = NoProc /\ status[u] # "absent" /\ money[u] \in Moneys
    BY <2>1 DEF Fresh, TypeOK
  <2>3. CASE UNCHANGED <<status, money>> /\ run[g].pc \notin Paying
    BY <1>1, <1>3, <2>1, <2>2, <2>3, OwedMoves DEF Owed
  <2>4. CASE UNCHANGED money /\ status'[u] = "running"
    BY <1>1, <1>3, <2>1, <2>4, OwedMoves DEF Owed, Terminal
  <2>5. CASE UNCHANGED money /\ status'[u] \in Terminal /\ run'[g].task = u /\ run'[g].pc \in Paying
    <3>1. status'[u] # "absent"
      BY <2>5 DEF Terminal
    <3> QED
      BY <1>1, <1>3, <2>1, <2>5, <3>1, OwedMoves DEF Owed
  <2>6. CASE UNCHANGED status /\ (Charge(u) \/ Refund(u))
    <3>1. money'[u] # "held" /\ money'[u] # "stranded"
      BY <2>6 DEF Charge, Refund, TypeOK, Owed
    <3> QED
      BY <1>1, <1>3, <2>1, <2>2, <2>6, <3>1, OwedMoves
  <2> QED
    BY <2>1, <2>3, <2>4, <2>5, <2>6, MoneyAtStep
<1> QED
  BY <1>4, <1>5

LEMMA OwedKept ==
    ASSUME TypeOK, Roles, Orderly, [Next]_vars, NEW u \in Tasks, Fresh(u), Owed(u)
    PROVE  Fresh(u)' /\ Owed(u)'
<1> USE DEF row, world, procs
<1>i. Submitters \subseteq Goroutines /\ Pollers \subseteq Goroutines /\ Hooks \subseteq Goroutines
      /\ Cancellers \subseteq Goroutines
  BY DEF Goroutines
\* A task that is being submitted is hidden from everybody else.
<1>p. ASSUME NEW g \in Goroutines, NEW t \in Tasks,
             BeginCancel(g, t) \/ Claim(g, t) \/ ClaimPoll(g, t) \/ Webhook(g, t)
      PROVE  Fresh(u)' /\ Owed(u)'
  <2>1. /\ run[g].pc = "idle" /\ run[g].task = NoTask /\ run'[g].task = t
        /\ \A h \in Goroutines \ {g} : run'[h] = run[h]
    BY <1>p, PickUpMoves DEF Roles
  <2>2. UNCHANGED <<status, money, pending, ref>>
    BY <1>p DEF BeginCancel, Claim, ClaimPoll, Webhook
  <2>3. CASE t # u
    BY <2>1, <2>2, <2>3, OwedUntouched, ExecAssumption
  <2>4. CASE t = u
    <3>1. ref[u] \/ (status[u] # "absent" /\ pending[u] = NoProc)
      BY <1>p, <2>4 DEF BeginCancel, Claim, ClaimPoll, Webhook, Visible, Active, Orderly
    <3>2. status[u] # "absent" /\ pending[u] = NoProc
      BY <3>1 DEF Fresh
    <3>3. Fresh(u)'
      BY <2>2, <3>2 DEF Fresh
    <3>4. \A h \in Goroutines : Payer(h, u) => Payer(h, u)'
      BY <2>1, ExecAssumption DEF Payer
    <3>5. Owed(u)'
      BY <2>2, <3>4 DEF Owed
    <3> QED
      BY <3>3, <3>5
  <2> QED
    BY <2>3, <2>4
<1>1. ASSUME NEW p \in Procs, NEW t \in Tasks, Create(p, t) PROVE Fresh(u)' /\ Owed(u)'
  <2>1. /\ UNCHANGED <<money, ref, run>> /\ status[t] = "absent"
        /\ status' = [status EXCEPT ![t] = "queued"] /\ pending' = [pending EXCEPT ![t] = p]
    BY <1>1 DEF Create
  <2>2. CASE t # u
    <3>1. status'[u] = status[u] /\ pending'[u] = pending[u]
      BY <2>1, <2>2 DEF TypeOK
    <3> QED
      BY <2>1, <3>1, OwedUntouched
  <2>3. CASE t = u
    <3>1. status'[u] = "queued"
      BY <2>1, <2>3 DEF TypeOK
    <3> QED
      BY <2>1, <2>3, <3>1 DEF Fresh, Owed, Terminal
  <2> QED
    BY <2>2, <2>3
<1>2. ASSUME NEW t \in Tasks, Hold(t) PROVE Fresh(u)' /\ Owed(u)'
  <2>1. /\ UNCHANGED <<status, ref, run>> /\ pending[t] # NoProc
        /\ pending' = [pending EXCEPT ![t] = NoProc]
        /\ money' = [money EXCEPT ![t] = IF money[t] = "none" THEN "held" ELSE "stranded"]
    BY <1>2 DEF Hold
  <2>2. CASE t # u
    <3>1. money'[u] = money[u] /\ pending'[u] = pending[u]
      BY <2>1, <2>2 DEF TypeOK
    <3> QED
      BY <2>1, <3>1, OwedUntouched
  <2>3. CASE t = u
    <3>1. status[u] = "queued" /\ money[u] = "none"
      BY <2>1, <2>3 DEF Fresh
    <3>2. money'[u] = "held" /\ pending'[u] = NoProc
      BY <2>1, <2>3, <3>1 DEF TypeOK
    <3> QED
      BY <2>1, <3>1, <3>2 DEF Fresh, Owed, Terminal
  <2> QED
    BY <2>2, <2>3
<1>3. ASSUME NEW t \in Tasks, HoldFails(t) PROVE Fresh(u)' /\ Owed(u)'
  <2>1. /\ UNCHANGED <<money, ref, run>> /\ pending[t] # NoProc
        /\ pending' = [pending EXCEPT ![t] = NoProc]
        /\ status' = [status EXCEPT ![t] = "failed"] \/ UNCHANGED status
    BY <1>3 DEF HoldFails, UpdateStatus
  <2>2. CASE t # u
    <3>1. status'[u] = status[u] /\ pending'[u] = pending[u]
      BY <2>1, <2>2 DEF TypeOK
    <3> QED
      BY <2>1, <3>1, OwedUntouched
  <2>3. CASE t = u
    <3>1. status[u] = "queued" /\ money[u] = "none"
      BY <2>1, <2>3 DEF Fresh
    <3>2. status'[u] # "absent" /\ pending'[u] = NoProc
      BY <2>1, <2>3, <3>1 DEF TypeOK
    <3> QED
      BY <2>1, <3>1, <3>2 DEF Fresh, Owed
  <2> QED
    BY <2>2, <2>3
<1>4. ASSUME NEW t \in Tasks, Requeue(t) PROVE Fresh(u)' /\ Owed(u)'
  <2>1. /\ UNCHANGED <<money, pending, run>> /\ status[t] \in Terminal
        /\ status' = [status EXCEPT ![t] = "queued"] /\ ref' = [ref EXCEPT ![t] = FALSE]
    BY <1>4 DEF Requeue
  <2>2. CASE t # u
    <3>1. status'[u] = status[u] /\ ref'[u] = ref[u]
      BY <2>1, <2>2 DEF TypeOK
    <3> QED
      BY <2>1, <3>1, OwedUntouched
  <2>3. CASE t = u
    <3>1. status'[u] = "queued" /\ pending[u] = NoProc
      BY <2>1, <2>3 DEF Fresh, TypeOK, Terminal
    <3> QED
      BY <2>1, <3>1 DEF Fresh, Owed, Terminal
  <2> QED
    BY <2>2, <2>3
<1>5. ASSUME NEW p \in Procs, Stop(p) \/ Restart(p) PROVE Fresh(u)' /\ Owed(u)'
  <2>1. UNCHANGED <<status, money, ref, pending, run>>
    BY <1>5 DEF Stop, Restart
  <2> QED
    BY <2>1, OwedUntouched
<1>6. ASSUME NEW p \in Procs PROVE ~Crash(p)
  BY ExecAssumption DEF Crash, Orderly, TypeOK
<1>7. ASSUME NEW t \in Tasks, Expire(t) \/ UpstreamEnds(t) PROVE Fresh(u)' /\ Owed(u)'
  <2>1. UNCHANGED <<status, money, ref, pending, run>>
    BY <1>7 DEF Expire, UpstreamEnds
  <2> QED
    BY <2>1, OwedUntouched
<1>8. ASSUME UNCHANGED vars PROVE Fresh(u)' /\ Owed(u)'
  BY <1>8, OwedUntouched DEF vars
<1> QED
  BY <1>i, <1>p, <1>1, <1>2, <1>3, <1>4, <1>5, <1>6, <1>7, <1>8, OwedAtStep DEF Next, HandlerStep

\* Once nobody works on an ended task any more, nothing of its user's balance stays
\* frozen: whoever ends a task settles it, and nobody ends it before its hold is taken
\* (runner.go finish, fail, cancelTask; handlers_tasks.go cancelTask).
THEOREM ExecFreezesNothing == Spec => [](Orderly => NothingStaysFrozen)
<1>1. Init => Base /\ AllOwed
  BY InitBase, ExecAssumption DEF Init, AllOwed, Fresh, Owed, Idle
<1>2. Base /\ AllOwed /\ [Next]_vars => Base' /\ AllOwed'
  <2> SUFFICES ASSUME Base, AllOwed, [Next]_vars PROVE Base' /\ AllOwed'
    OBVIOUS
  <2>1. ASSUME Orderly PROVE \A u \in Tasks : Fresh(u)' /\ Owed(u)'
    BY <2>1, OwedKept DEF AllOwed, Base
  <2> QED
    BY <2>1, BaseKept DEF AllOwed, Orderly
<1>3. AllOwed => (Orderly => NothingStaysFrozen)
  BY DEF AllOwed, Owed, Payer, NothingStaysFrozen, InHand
<1> QED
  BY <1>1, <1>2, <1>3, PTL DEF Spec

-----------------------------------------------------------------------------
(* The money moves as the accounts allow *)

\* A task nobody has created is nobody's, and until Hold has returned nothing is held.
Opened(t) ==
    /\ status[t] = "absent" => /\ pending[t] = NoProc /\ money[t] = "none"
                               /\ \A g \in Goroutines : run[g].task # t
    /\ pending[t] # NoProc => money[t] \in {"none", "void"}

AllOpened == \A t \in Tasks : Opened(t)

\* What may become of the money of a task.
MayBecome(was, next) ==
    \/ was = "none" /\ next \in {"held", "void"}
    \/ was = "void" /\ next = "stranded"
    \/ was = "held" /\ next \in {"charged", "refunded"}

\* At most one task's money moves at a time.
MoneyMoves ==
    \/ UNCHANGED money
    \/ \E t \in Tasks, next \in Moneys :
          MayBecome(money[t], next) /\ money' = [money EXCEPT ![t] = next]

\* A task that nobody takes up and whose money and handler stay.
LEMMA OpenedUntouched ==
    ASSUME NEW u \in Tasks, Opened(u), pending'[u] = pending[u] \/ pending'[u] = NoProc,
           money'[u] = money[u], status'[u] = "absent" => status[u] = "absent",
           \A h \in Goroutines : run'[h].task = u => run[h].task = u \/ status[u] # "absent"
    PROVE  Opened(u)'
  BY DEF Opened

\* What settling a task does to its money.
LEMMA SettlingMoves ==
    ASSUME TypeOK, NEW t \in Tasks, Charge(t) \/ Refund(t)
    PROVE  /\ MoneyMoves
           /\ money[t] \in {"none", "void"} => money'[t] \in {"none", "void"}
<1>1. money[t] \in Moneys /\ money \in [Tasks -> Moneys]
  BY DEF TypeOK
<1>2. CASE Charge(t)
  <2>1. CASE money[t] = "held"
    <3>1. money' = [money EXCEPT ![t] = "charged"]
      BY <1>2, <2>1 DEF Charge
    <3> QED
      BY <2>1, <3>1 DEF MoneyMoves, MayBecome, Moneys, Settled
  <2>2. CASE money[t] # "held"
    <3>1. money' = money
      BY <1>1, <1>2, <2>2 DEF Charge
    <3> QED
      BY <3>1 DEF MoneyMoves
  <2> QED
    BY <2>1, <2>2
<1>3. CASE Refund(t)
  <2>1. CASE money[t] = "held"
    <3>1. money' = [money EXCEPT ![t] = "refunded"]
      BY <1>3, <2>1 DEF Refund
    <3> QED
      BY <2>1, <3>1 DEF MoneyMoves, MayBecome, Moneys, Settled
  <2>2. CASE money[t] = "none"
    <3>1. money' = [money EXCEPT ![t] = "void"]
      BY <1>3, <2>2 DEF Refund
    <3>2. money'[t] = "void"
      BY <1>1, <3>1
    <3> QED
      BY <2>2, <3>1, <3>2 DEF MoneyMoves, MayBecome, Moneys, Settled
  <2>3. CASE money[t] \notin {"held", "none"}
    <3>1. money' = money
      BY <1>1, <1>3, <2>3 DEF Refund
    <3> QED
      BY <3>1 DEF MoneyMoves
  <2> QED
    BY <2>1, <2>2, <2>3
<1> QED
  BY <1>2, <1>3

LEMMA OpenedAtStep ==
    ASSUME TypeOK, Roles, AllOpened, NEW g \in Goroutines, Step(g) \/ Interrupt(g)
    PROVE  MoneyMoves /\ AllOpened'
<1>1. PICK t \in Tasks : /\ run[g].task = t /\ OnlyTouches(t) /\ run'[g].task \in {t, NoTask}
                         /\ \A h \in Goroutines \ {g} : run'[h] = run[h]
  BY StepMoves DEF Moved
<1>2. /\ UNCHANGED pending
      /\ UNCHANGED money \/ Charge(t) \/ Refund(t)
      /\ UNCHANGED status \/ status'[t] # "absent"
  BY <1>1, MoneyAtStep DEF Terminal
<1>3. MoneyMoves
  BY <1>2, SettlingMoves DEF MoneyMoves
<1>4. ASSUME NEW u \in Tasks, u # t PROVE Opened(u)'
  <2>1. money'[u] = money[u]
    BY <1>2, <1>4 DEF Charge, Refund, TypeOK
  <2>2. \A h \in Goroutines : run'[h].task = u => run[h].task = u
    BY <1>1, <1>4, ExecAssumption
  <2> QED
    BY <1>1, <1>2, <1>4, <2>1, <2>2, OpenedUntouched DEF OnlyTouches, AllOpened
<1>5. Opened(t)'
  <2>1. status[t] # "absent" /\ (pending[t] # NoProc => money[t] \in {"none", "void"})
    BY <1>1 DEF AllOpened, Opened
  <2>2. money[t] \in {"none", "void"} => money'[t] \in {"none", "void"}
    BY <1>2, SettlingMoves
  <2> QED
    BY <1>2, <2>1, <2>2 DEF Opened
<1> QED
  BY <1>3, <1>4, <1>5 DEF AllOpened

LEMMA OpenedKept ==
    ASSUME TypeOK, Roles, AllOpened, [Next]_vars
    PROVE  MoneyMoves /\ AllOpened'
<1> USE DEF row, world, procs
<1>p. ASSUME NEW g \in Goroutines, NEW t \in Tasks,
             BeginCancel(g, t) \/ Claim(g, t) \/ ClaimPoll(g, t) \/ Webhook(g, t)
      PROVE  MoneyMoves /\ AllOpened'
  <2>1. run'[g].task = t /\ \A h \in Goroutines \ {g} : run'[h] = run[h]
    BY <1>p, PickUpMoves
  <2>2. UNCHANGED <<status, money, pending>> /\ status[t] # "absent"
    BY <1>p DEF BeginCancel, Claim, ClaimPoll, Webhook, Active
  <2> QED
    BY <2>1, <2>2, OpenedUntouched DEF AllOpened, MoneyMoves
<1>1. ASSUME NEW p \in Procs, NEW t \in Tasks, Create(p, t) PROVE MoneyMoves /\ AllOpened'
  <2>1. /\ UNCHANGED <<money, run>> /\ status[t] = "absent"
        /\ status' = [status EXCEPT ![t] = "queued"] /\ pending' = [pending EXCEPT ![t] = p]
    BY <1>1 DEF Create
  <2>2. ASSUME NEW u \in Tasks \ {t} PROVE Opened(u)'
    <3>1. status'[u] = status[u] /\ pending'[u] = pending[u]
      BY <2>1, <2>2 DEF TypeOK
    <3> QED
      BY <2>1, <3>1, OpenedUntouched DEF AllOpened
  <2>3. Opened(t)'
    <3>1. status'[t] = "queued" /\ money[t] = "none"
      BY <2>1 DEF TypeOK, AllOpened, Opened
    <3> QED
      BY <2>1, <3>1 DEF Opened
  <2> QED
    BY <2>1, <2>2, <2>3 DEF AllOpened, MoneyMoves
<1>2. ASSUME NEW t \in Tasks, Hold(t) PROVE MoneyMoves /\ AllOpened'
  <2>1. /\ UNCHANGED <<status, run>> /\ pending[t] # NoProc /\ money[t] \in {"none", "void"}
        /\ pending' = [pending EXCEPT ![t] = NoProc]
        /\ money' = [money EXCEPT ![t] = IF money[t] = "none" THEN "held" ELSE "stranded"]
    BY <1>2 DEF Hold, AllOpened, Opened
  <2>2. ASSUME NEW u \in Tasks \ {t} PROVE Opened(u)'
    <3>1. money'[u] = money[u] /\ pending'[u] = pending[u]
      BY <2>1, <2>2 DEF TypeOK
    <3> QED
      BY <2>1, <3>1, OpenedUntouched DEF AllOpened
  <2>3. Opened(t)'
    <3>1. status'[t] # "absent" /\ pending'[t] = NoProc
      BY <2>1 DEF TypeOK, AllOpened, Opened
    <3> QED
      BY <3>1 DEF Opened
  <2>4. MoneyMoves
    <3>1. CASE money[t] = "none"
      <4>1. money' = [money EXCEPT ![t] = "held"]
        BY <2>1, <3>1
      <4> QED
        BY <3>1, <4>1 DEF MoneyMoves, MayBecome, Moneys, Settled
    <3>2. CASE money[t] = "void"
      <4>1. money' = [money EXCEPT ![t] = "stranded"]
        BY <2>1, <3>2
      <4> QED
        BY <3>2, <4>1 DEF MoneyMoves, MayBecome, Moneys, Settled
    <3> QED
      BY <2>1, <3>1, <3>2
  <2> QED
    BY <2>2, <2>3, <2>4 DEF AllOpened
<1>3. ASSUME NEW t \in Tasks, HoldFails(t) \/ Requeue(t) PROVE MoneyMoves /\ AllOpened'
  <2>1. /\ UNCHANGED <<money, run>>
        /\ UNCHANGED pending \/ pending' = [pending EXCEPT ![t] = NoProc]
        /\ \/ UNCHANGED status
           \/ status' = [status EXCEPT ![t] = "failed"]
           \/ status' = [status EXCEPT ![t] = "queued"]
    BY <1>3 DEF HoldFails, UpdateStatus, Requeue
  <2>2. ASSUME NEW u \in Tasks PROVE Opened(u)'
    <3>1. /\ pending'[u] = pending[u] \/ pending'[u] = NoProc
          /\ status'[u] = "absent" => status[u] = "absent"
      BY <2>1, <2>2 DEF TypeOK
    <3> QED
      BY <2>1, <3>1, OpenedUntouched DEF AllOpened
  <2> QED
    BY <2>1, <2>2 DEF AllOpened, MoneyMoves
<1>4. ASSUME NEW p \in Procs, Crash(p) PROVE MoneyMoves /\ AllOpened'
  <2>1. /\ UNCHANGED <<money, status>>
        /\ \A u \in Tasks : pending'[u] = pending[u] \/ pending'[u] = NoProc
        /\ \A h \in Goroutines : run'[h] = Idle \/ run'[h] = run[h]
    BY <1>4 DEF Crash
  <2>2. \A u \in Tasks : \A h \in Goroutines : run'[h].task = u => run[h].task = u
    BY <2>1, ExecAssumption DEF Idle
  <2> QED
    BY <2>1, <2>2, OpenedUntouched DEF AllOpened, MoneyMoves
<1>5. ASSUME UNCHANGED <<status, money, pending, run>> PROVE MoneyMoves /\ AllOpened'
  BY <1>5, OpenedUntouched DEF AllOpened, MoneyMoves
<1>6. ASSUME NEW t \in Tasks, Expire(t) \/ UpstreamEnds(t) PROVE MoneyMoves /\ AllOpened'
  BY <1>5, <1>6 DEF Expire, UpstreamEnds
<1>7. ASSUME NEW p \in Procs, Stop(p) \/ Restart(p) PROVE MoneyMoves /\ AllOpened'
  BY <1>5, <1>7 DEF Stop, Restart
<1>8. ASSUME UNCHANGED vars PROVE MoneyMoves /\ AllOpened'
  BY <1>5, <1>8 DEF vars
<1>i. Submitters \subseteq Goroutines /\ Pollers \subseteq Goroutines /\ Hooks \subseteq Goroutines
      /\ Cancellers \subseteq Goroutines
  BY DEF Goroutines
<1> QED
  BY <1>i, <1>p, <1>1, <1>2, <1>3, <1>4, <1>6, <1>7, <1>8, OpenedAtStep DEF Next, HandlerStep

\* A move of the money is a step of the accounts.
LEMMA MovesAreSteps ==
    ASSUME TypeOK, MoneyMoves
    PROVE  [Money!Next]_(Money!vars)
<1>1. CASE UNCHANGED money
  BY <1>1 DEF Money!vars, Paid, Back
<1>2. CASE \E t \in Tasks, next \in Moneys :
              MayBecome(money[t], next) /\ money' = [money EXCEPT ![t] = next]
  <2>1. PICK t \in Tasks, next \in Moneys :
               MayBecome(money[t], next) /\ money' = [money EXCEPT ![t] = next]
    BY <1>2
  <2>2. money'[t] = next /\ \A u \in Tasks \ {t} : money'[u] = money[u]
    BY <2>1 DEF TypeOK
  <2>3. CASE next \in {"held", "stranded"}
    <3>1. money[t] \in {"none", "void"} /\ (money[t] = "void" <=> next = "stranded")
      BY <2>1, <2>3 DEF MayBecome
    <3>2. Money!Freeze(t, 1)
      <4>1. [x \in Tasks |-> IF Paid(x) THEN 1 ELSE -1][t] = -1
        BY <3>1 DEF Paid, Settled
      <4>2. [x \in Tasks |-> IF Paid(x) /\ ~Back(x) THEN 0 ELSE 1][[x \in Tasks |-> x][t]] >= 1
        BY <3>1 DEF Paid, Settled
      <4>3. [x \in Tasks |-> IF Paid(x) /\ ~Back(x) THEN 0 ELSE 1]' =
               [[x \in Tasks |-> IF Paid(x) /\ ~Back(x) THEN 0 ELSE 1]
                   EXCEPT ![[x \in Tasks |-> x][t]] = @ - 1]
        <5>1. [x \in Tasks |-> x][t] = t
          OBVIOUS
        <5>2. [x \in Tasks |-> IF Paid(x) /\ ~Back(x) THEN 0 ELSE 1][t] - 1 = 0
          BY <3>1 DEF Paid, Settled
        <5>3. [x \in Tasks |-> IF Paid(x) /\ ~Back(x) THEN 0 ELSE 1]' =
                 [[x \in Tasks |-> IF Paid(x) /\ ~Back(x) THEN 0 ELSE 1] EXCEPT ![t] = 0]
          BY <2>2, <2>3, <3>1 DEF Paid, Back, Settled
        <5> QED
          BY <5>1, <5>2, <5>3
      <4>4. [x \in Tasks |-> IF Paid(x) THEN 1 ELSE -1]' =
               [[x \in Tasks |-> IF Paid(x) THEN 1 ELSE -1] EXCEPT ![t] = 1]
        BY <2>2, <2>3, <3>1 DEF Paid, Settled
      <4>5. [x \in Tasks |-> IF Back(x) THEN 1 ELSE 0]' = [x \in Tasks |-> IF Back(x) THEN 1 ELSE 0]
        BY <2>2, <2>3, <3>1 DEF Back
      <4>6. {x \in Tasks : money[x] \in Settled \cup {"void", "stranded"}}' =
               {x \in Tasks : money[x] \in Settled \cup {"void", "stranded"}}
        BY <2>2, <2>3, <3>1 DEF Settled
      <4> QED
        BY <4>1, <4>2, <4>3, <4>4, <4>5, <4>6 DEF Money!Freeze, Money!NotHeld
    <3> QED
      BY <3>2 DEF Money!Next
  <2>4. ASSUME next \in {"charged", "void", "refunded"}
        PROVE  Money!Close(t, IF next = "refunded" THEN 1 ELSE 0)
    <3> DEFINE back == IF next = "refunded" THEN 1 ELSE 0
    <3>1. IF next = "void" THEN money[t] = "none" ELSE money[t] = "held"
      BY <2>1, <2>4 DEF MayBecome
    <3>2. t \notin {x \in Tasks : money[x] \in Settled \cup {"void", "stranded"}}
      BY <3>1 DEF Settled
    <3>3. [x \in Tasks |-> IF Paid(x) /\ ~Back(x) THEN 0 ELSE 1]' =
             [[x \in Tasks |-> IF Paid(x) /\ ~Back(x) THEN 0 ELSE 1]
                 EXCEPT ![[x \in Tasks |-> x][t]] = @ + back]
      <4>1. [x \in Tasks |-> x][t] = t
        OBVIOUS
      <4>2. [x \in Tasks |-> IF Paid(x) /\ ~Back(x) THEN 0 ELSE 1][t] + back =
               IF next = "charged" THEN 0 ELSE 1
        BY <2>4, <3>1 DEF Paid, Back, Settled
      <4>3. [x \in Tasks |-> IF Paid(x) /\ ~Back(x) THEN 0 ELSE 1]' =
               [[x \in Tasks |-> IF Paid(x) /\ ~Back(x) THEN 0 ELSE 1]
                   EXCEPT ![t] = IF next = "charged" THEN 0 ELSE 1]
        BY <2>2, <2>4, <3>1 DEF Paid, Back, Settled
      <4> QED
        BY <4>1, <4>2, <4>3
    <3>4. [x \in Tasks |-> IF Back(x) THEN 1 ELSE 0]' =
             [[x \in Tasks |-> IF Back(x) THEN 1 ELSE 0] EXCEPT ![t] = back]
      BY <2>2, <2>4, <3>1 DEF Back
    <3>5. {x \in Tasks : money[x] \in Settled \cup {"void", "stranded"}}' =
             {x \in Tasks : money[x] \in Settled \cup {"void", "stranded"}} \cup {t}
      BY <2>2, <2>4, <3>1 DEF Settled
    <3>6. [x \in Tasks |-> IF Paid(x) THEN 1 ELSE -1]' = [x \in Tasks |-> IF Paid(x) THEN 1 ELSE -1]
      BY <2>2, <2>4, <3>1 DEF Paid, Settled
    <3> QED
      BY <3>2, <3>3, <3>4, <3>5, <3>6 DEF Money!Close
  <2>5. CASE next \in {"charged", "void", "refunded"}
    <3>1. (IF next = "refunded" THEN 1 ELSE 0) \in 0 .. Money!Frozen(t)
      BY <2>1, <2>5 DEF Money!Frozen, Money!NotHeld, Paid, Settled, MayBecome
    <3> QED
      BY <2>4, <2>5, <3>1 DEF Money!Next
  <2> QED
    BY <2>1, <2>3, <2>5 DEF MayBecome
<1> QED
  BY <1>1, <1>2 DEF MoneyMoves

\* Whatever becomes of a task, its money is frozen once and closed once: the task
\* executor implements the accounts of internal/billing.
THEOREM ExecImplementsAccounts == Spec => MovesMoneyAsAccounts
<1>1. Init => Base /\ AllOpened
  BY InitBase, ExecAssumption DEF Init, AllOpened, Opened, Idle
<1>2. Base /\ AllOpened /\ [Next]_vars => Base' /\ AllOpened' /\ [Money!Next]_(Money!vars)
  BY BaseKept, OpenedKept, MovesAreSteps DEF Base
<1> QED
  BY <1>1, <1>2, PTL DEF Spec, MovesMoneyAsAccounts
=============================================================================
