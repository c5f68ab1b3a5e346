---------------------------- MODULE CanvasProofs ----------------------------
(***************************************************************************)
(* Proofs about CanvasChat, for any cards, tabs and handlers.              *)
(***************************************************************************)
EXTENDS CanvasChat, SequenceTheorems, WellFoundedInduction, TLAPS

-----------------------------------------------------------------------------
(* Types, and the log: a row for each revision *)

\* What the rows hold is left open.
IsLog == (\E S : log \in Seq(S)) /\ Len(log) = revision

Types ==
    /\ IsLog
    /\ tab \in [Tabs -> TabStates]
    /\ call \in [Handlers -> Calls]
    /\ task \in [Handlers -> Statuses]
    /\ money \in [Handlers -> Holds]
    /\ cancel \in [Handlers -> {"none", "refund", "done"}]

\* A step either leaves the log alone or appends one row of one author.
Unlogged == log' = log /\ revision' = revision

Logged(by) ==
    /\ revision' = revision + 1
    /\ Len(log') = Len(log) + 1
    /\ log'[Len(log')].by = by
    /\ \A i \in 1 .. Len(log) : log'[i] = log[i]
    /\ DOMAIN log' = 1 .. Len(log')
    /\ DOMAIN log = 1 .. Len(log)

LEMMA LogTypes == IsLog => Len(log) \in Nat /\ revision \in Nat /\ DOMAIN log = 1 .. Len(log)
<1> SUFFICES ASSUME IsLog PROVE Len(log) \in Nat /\ revision \in Nat /\ DOMAIN log = 1 .. Len(log)
  OBVIOUS
<1>1. PICK S : log \in Seq(S)
  BY DEF IsLog
<1> QED
  BY <1>1 DEF IsLog

LEMMA RowAppended ==
    ASSUME IsLog, NEW by, NEW ops,
           log' = Append(log, [by |-> by, ops |-> ops]), revision' = revision + 1
    PROVE  IsLog' /\ Logged(by)
<1>1. PICK S : log \in Seq(S)
  BY DEF IsLog
<1> DEFINE row == [by |-> by, ops |-> ops]
<1> DEFINE T == S \cup {row}
<1>2. log \in Seq(T) /\ row \in T
  BY <1>1
<1>3. row.by = by
  OBVIOUS
<1> HIDE DEF row, T
<1>4. log' \in Seq(T)
  BY <1>2 DEF row
<1>5. /\ Len(log') = Len(log) + 1
      /\ log'[Len(log')] = row
      /\ \A i \in 1 .. Len(log) : log'[i] = log[i]
      /\ DOMAIN log' = 1 .. Len(log')
      /\ DOMAIN log = 1 .. Len(log)
  BY <1>2 DEF row
<1> QED
  BY <1>3, <1>4, <1>5 DEF IsLog, Logged

LEMMA BatchLogged ==
    ASSUME IsLog, NEW by, NEW ops, CommitBatch(by, ops)
    PROVE  /\ IsLog'
           /\ ops = <<>> => Unlogged
           /\ ops # <<>> => Logged(by)
<1>1. CASE ops = <<>>
  BY <1>1 DEF CommitBatch, Unlogged, IsLog
<1>2. CASE ops # <<>>
  BY <1>2, RowAppended DEF CommitBatch
<1> QED
  BY <1>1, <1>2

LEMMA OneIsNotNone == (\A x : <<x>> # <<>>) /\ (\A x, y : <<x, y>> # <<>>)
  OBVIOUS

\* The answers of a model are never empty batches.
LEMMA AnswersAreBatches ==
    ASSUME NEW step \in Steps, NEW c \in Cards, NEW ops \in Answers(step, c)
    PROVE  ops # <<>>
<1> DEFINE F(d, x, p) == <<CreateOp(d, NewCard(x, p, TRUE))>>
<1> DEFINE G(d, p) == <<CreateOp(d, NewCard(EmptyText, p, TRUE))>>
<1> DEFINE H(x) == <<UpdateOp(c, [text |-> x])>>
<1> DEFINE I(p) == <<UpdateOp(c, [params |-> p])>>
<1> DEFINE D(k) == {e \in FreshCards : KindOf[e] = k}
<1> DEFINE P == Params \ {BadParams}
<1>1. Answers(step, c) =
         CASE step = "script" -> {F(d, x, p) : d \in D("script"), x \in Texts, p \in P}
           [] step = "storyboard" -> {G(d, p) : d \in D("shot"), p \in P}
           [] step = "refine" -> {H(x) : x \in Texts}
           [] step = "refine-shot" -> {I(p) : p \in P}
  BY DEF Answers
<1>2. \A d, x, p : F(d, x, p) # <<>> /\ G(d, p) # <<>> /\ H(x) # <<>> /\ I(p) # <<>>
  BY OneIsNotNone
<1> HIDE DEF F, G, H, I, D, P
<1>3. CASE step = "script"
  BY <1>1, <1>2, <1>3
<1>4. CASE step = "storyboard"
  BY <1>1, <1>2, <1>4
<1>5. CASE step = "refine"
  BY <1>1, <1>2, <1>5
<1>6. CASE step = "refine-shot"
  BY <1>1, <1>2, <1>6
<1> QED
  BY <1>3, <1>4, <1>5, <1>6 DEF Steps

\* The same for what a user does.
LEMMA BatchesAreBatches == ASSUME NEW ops \in Batches PROVE ops # <<>>
<1> DEFINE F(a, x) == <<a, UpdateOp(a.id, [text |-> x])>>
<1>1. \A a, x : F(a, x) # <<>>
  BY OneIsNotNone
<1>2. ops \in {<<a>> : a \in Edits} \cup {F(a, x) : a \in Creations, x \in Texts \ {EmptyText}}
  BY DEF Batches
<1> HIDE DEF F
<1> QED
  BY <1>1, <1>2, OneIsNotNone

\* A handler that moves on, and one that reads the canvas as it does.
LEMMA CallMoves ==
    ASSUME call \in [Handlers -> Calls], NEW h \in Handlers, NEW from, NEW to, Goto(h, from, to)
    PROVE  /\ call[h].pc = from /\ call'[h].pc = to /\ DOMAIN call' = Handlers
           /\ call'[h].seen = call[h].seen /\ call'[h].base = call[h].base
           /\ call'[h].step = call[h].step /\ call'[h].card = call[h].card
           /\ \A g \in Handlers \ {h} : call'[g] = call[g]
  BY DEF Goto, Calls

LEMMA CallReads ==
    ASSUME call \in [Handlers -> Calls], IsLog, NEW h \in Handlers, Read(h)
    PROVE  /\ call' \in [Handlers -> Calls]
           /\ call[h].pc = "read" /\ call'[h].pc = "bill"
           /\ call'[h].seen = revision /\ call'[h].base = revision
           /\ \A g \in Handlers \ {h} : call'[g] = call[g]
<1>1. revision \in Nat /\ Len(log) = revision
  BY LogTypes DEF IsLog
<1>2. call' = [call EXCEPT ![h].pc = "bill", ![h].base = revision, ![h].seen = Len(log)]
  BY DEF Read, Snapshot
<1>3. call[h].pc = "read"
  BY DEF Read
<1>4. call' = [call EXCEPT ![h].pc = "bill", ![h].base = revision, ![h].seen = revision]
  BY <1>1, <1>2
<1>5. call' \in [Handlers -> Calls]
  <2>1. PICK n \in Nat : n = revision
    BY <1>1
  <2>2. call' = [call EXCEPT ![h].pc = "bill", ![h].base = n, ![h].seen = n]
    BY <1>4, <2>1
  <2> QED
    BY <2>2 DEF Calls
<1>6. \A g \in Handlers \ {h} : call'[g] = call[g]
  BY <1>4
<1>7. call'[h].pc = "bill" /\ call'[h].seen = revision /\ call'[h].base = revision
  BY <1>1, <1>4 DEF Calls
<1> QED
  BY <1>3, <1>5, <1>6, <1>7

LEMMA InitTypes == Init => Types
<1> SUFFICES ASSUME Init PROVE Types
  OBVIOUS
<1>1. IsLog
  <2>1. log = <<>> /\ revision = 0
    BY DEF Init, CanvasInit
  <2>2. log \in Seq({})
    BY <2>1
  <2> QED
    BY <2>1, <2>2 DEF IsLog
<1>2. tab \in [Tabs -> TabStates]
  BY DEF Init, CanvasInit, TabStates, Requests, Reads, NoRequest, NoRead
<1>3. call \in [Handlers -> Calls]
  BY DEF Init, ChatInit, Calls
<1> QED
  BY <1>1, <1>2, <1>3 DEF Init, ChatInit, Types, Statuses, Holds

LEMMA TypesKept ==
    ASSUME Types, Next
    PROVE  Types'
<1> USE DEF Types
<1>l. Len(log) \in Nat /\ revision \in Nat
  BY LogTypes
<1>u. Unlogged => IsLog'
  BY DEF Unlogged, IsLog
\* The handlers
<1>1. ASSUME NEW h \in Handlers,
             Ask(h) \/ Refuse(h) \/ CreateTask(h) \/ Hold(h) \/ HoldFails(h) \/ Unheld(h) \/ Invoke(h)
                \/ InvokeFails(h) \/ Charge(h) \/ Settle(h) \/ Fail(h) \/ Refund(h) \/ Tell(h) \/ Die(h)
      PROVE  Types'
  <2>1. Unlogged /\ tab' = tab
    BY <1>1 DEF Ask, Refuse, CreateTask, Hold, HoldFails, Unheld, Invoke, InvokeFails, Charge, Settle,
                Fail, Refund, Tell, Die, canvasVars, Unlogged
  <2>2. call' \in [Handlers -> Calls]
    BY <1>1 DEF Ask, Refuse, CreateTask, Hold, HoldFails, Unheld, Invoke, InvokeFails, Charge, Settle,
                Fail, Refund, Tell, Die, Goto, Calls
  <2>3. task' \in [Handlers -> Statuses]
    BY <1>1 DEF Ask, Refuse, CreateTask, Hold, HoldFails, Unheld, Invoke, InvokeFails, Charge, Settle,
                Fail, Refund, Tell, Die, UpdateStatus, Statuses
  <2>4. money' \in [Handlers -> Holds] /\ cancel' = cancel
    BY <1>1 DEF Ask, Refuse, CreateTask, Hold, HoldFails, Unheld, Invoke, InvokeFails, Charge, Settle,
                Fail, Refund, Tell, Die, Holds
  <2> QED
    BY <1>u, <2>1, <2>2, <2>3, <2>4
<1>2. ASSUME NEW h \in Handlers, Read(h) PROVE Types'
  <2>1. Unlogged
    BY <1>2 DEF Read, canvasVars, Unlogged
  <2>2. call' \in [Handlers -> Calls]
    BY <1>2, CallReads
  <2> QED
    BY <1>u, <1>2, <2>1, <2>2 DEF Read, canvasVars
<1>3. ASSUME NEW h \in Handlers, Apply(h) PROVE Types'
  <2>1. PICK ops \in Answers(call[h].step, call[h].card) :
           IF Accepts(call[h].base, ops)
           THEN revision < MaxRevision /\ Goto(h, "apply", "charge") /\ CommitBatch(h, ops)
           ELSE Goto(h, "apply", "fail") /\ UNCHANGED <<canvas, revision, log, given>>
    BY <1>3 DEF Apply
  <2>2. IsLog'
    BY <2>1, <1>u, BatchLogged DEF Unlogged
  <2>3. call' \in [Handlers -> Calls]
    BY <2>1 DEF Goto, Calls
  <2> QED
    BY <1>3, <2>2, <2>3 DEF Apply
<1>4. ASSUME NEW h \in Handlers, Cancel(h) \/ CancelRefund(h) PROVE Types'
  <2>1. Unlogged
    BY <1>4 DEF Cancel, CancelRefund, canvasVars, Unlogged
  <2>2. /\ task' \in [Handlers -> Statuses] /\ money' \in [Handlers -> Holds]
        /\ cancel' \in [Handlers -> {"none", "refund", "done"}]
    BY <1>4 DEF Cancel, CancelRefund, Statuses, Holds
  <2> QED
    BY <1>u, <1>4, <2>1, <2>2 DEF Cancel, CancelRefund, canvasVars
\* The canvas
<1>5. ASSUME Trash \/ Restore, UNCHANGED chatVars PROVE Types'
  BY <1>u, <1>5 DEF Trash, Restore, chatVars, Unlogged
<1>6. ASSUME NEW c \in Cards, NEW a \in Assets, SetCardResult(c, a), UNCHANGED chatVars PROVE Types'
  <2>1. IsLog'
    BY <1>6, RowAppended DEF SetCardResult, CommitResult
  <2> QED
    BY <1>6, <2>1 DEF SetCardResult, chatVars
<1>7. ASSUME NEW t \in Tabs, Flush(t) \/ Lose(t) \/ Answered(t) \/ Invalidate(t) \/ FetchFails(t),
             UNCHANGED chatVars
      PROVE  Types'
  <2>1. Unlogged
    BY <1>7 DEF Flush, Lose, Answered, Invalidate, FetchFails, Unlogged
  <2>2. tab' \in [Tabs -> TabStates]
    BY <1>7 DEF Flush, Lose, Answered, Invalidate, FetchFails, SetPatch, Resynced,
                TabStates, Requests, Reads, NoRequest, NoRead
  <2> QED
    BY <1>u, <1>7, <2>1, <2>2 DEF chatVars
<1>8. ASSUME NEW t \in Tabs, Patch(t), UNCHANGED chatVars PROVE Types'
  <2>1. PICK ops \in Batches :
           IF Accepts(tab[t].patch.rev, ops)
           THEN /\ revision < MaxRevision
                /\ CommitBatch(t, ops)
                /\ SetPatch(t, "ok", RevisionAfter(ops))
           ELSE /\ SetPatch(t, "failed", 0)
                /\ UNCHANGED <<canvas, revision, log, given>>
    BY <1>8 DEF Patch
  <2>2. IsLog'
    BY <2>1, <1>u, BatchLogged DEF Unlogged
  <2>3. RevisionAfter(ops) \in Nat
    BY <1>l DEF RevisionAfter
  <2>4. tab' \in [Tabs -> TabStates]
    BY <2>1, <2>3 DEF SetPatch, TabStates, Requests
  <2> QED
    BY <1>8, <2>2, <2>4 DEF chatVars
<1>9. ASSUME NEW t \in Tabs, Fetch(t) \/ Arrive(t), UNCHANGED chatVars PROVE Types'
  <2>1. Unlogged
    BY <1>9 DEF Fetch, Arrive, Unlogged
  <2>2. tab' \in [Tabs -> TabStates]
    <3>1. CASE Fetch(t)
      <4>1. tab' = [tab EXCEPT ![t].fetch = [st |-> "read", rev |-> revision, seen |-> Len(log)]]
        BY <3>1 DEF Fetch, Snapshot
      <4> QED
        BY <1>l, <4>1 DEF TabStates, Reads
    <3>2. CASE Arrive(t)
      BY <3>2 DEF Arrive, Resynced, TabStates, Requests, Reads, NoRequest, NoRead
    <3> QED
      BY <1>9, <3>1, <3>2
  <2> QED
    BY <1>u, <1>9, <2>1, <2>2 DEF chatVars
<1> QED
  BY <1>1, <1>2, <1>3, <1>4, <1>5, <1>6, <1>7, <1>8, <1>9 DEF Next, ChatNext, CanvasNext

-----------------------------------------------------------------------------
(* The bill *)

\* At each point a handler may stand at: whether its cards are on the canvas, and what
\* has become of its row and its hold.
BillAt(pc, status, hold, cancelled, landed) ==
    /\ pc \in {"idle", "read", "bill"} => status = "none" /\ hold = "none"
    /\ pc \in {"hold", "unheld"} => status \in {"running", "canceled"} /\ hold = "none"
    /\ pc \in {"invoke", "apply", "charge", "fail"} => status \in {"running", "canceled"}
    /\ pc \in {"say", "done"} /\ hold = "held" => status = "canceled"
    /\ pc \in {"idle", "read", "bill", "hold", "unheld", "invoke", "apply", "fail", "refund"} => ~landed
    /\ pc \in {"charge", "settle", "say"} => landed
    /\ hold = "charged" => landed
    /\ hold = "refunded" /\ cancelled # "done" => pc = "done" /\ ~landed

Bills == \A h \in Handlers : BillAt(call[h].pc, task[h], money[h], cancel[h], Landed(h))

\* A row of another author changes nothing for a handler.
LEMMA LandedByOthers ==
    ASSUME IsLog, NEW by, Logged(by), NEW h, h # by
    PROVE  Landed(h)' <=> Landed(h)
<1>1. Len(log) \in Nat
  BY LogTypes
<1>2. Len(log') = Len(log) + 1 /\ log'[Len(log) + 1].by = by
  BY DEF Logged
<1>3. \A i \in 1 .. Len(log') : i \in 1 .. Len(log) \/ i = Len(log) + 1
  BY <1>1, <1>2
<1>4. 1 .. Len(log) \subseteq 1 .. Len(log')
  BY <1>1, <1>2
<1> QED
  BY <1>2, <1>3, <1>4 DEF Landed, Logged

LEMMA LandedByItself ==
    ASSUME IsLog, NEW h, Logged(h)
    PROVE  Landed(h)'
<1>1. Len(log) \in Nat /\ Len(log') = Len(log) + 1
  BY LogTypes DEF Logged
<1>2. Len(log') \in DOMAIN log'
  BY <1>1 DEF Logged
<1> QED
  BY <1>2 DEF Landed, Logged

\* What a step leaves alone of a handler keeps its bill.
LEMMA BillUntouched ==
    ASSUME Bills, NEW h \in Handlers,
           call'[h].pc = call[h].pc, task'[h] = task[h], money'[h] = money[h],
           cancel'[h] = cancel[h], Landed(h)' <=> Landed(h)
    PROVE  BillAt(call[h].pc, task[h], money[h], cancel[h], Landed(h))'
  BY DEF Bills, BillAt

LEMMA InitBills == Init => Bills
  BY DEF Init, CanvasInit, ChatInit, Bills, BillAt, Landed

LEMMA BillsKept ==
    ASSUME Types, Bills, Next
    PROVE  Bills'
<1> USE DEF Types
<1>l. log' = log => \A g : Landed(g)' <=> Landed(g)
  BY DEF Landed
\* A step of one handler, with no row of anybody.
<1>s. ASSUME NEW h \in Handlers, log' = log,
             \A g \in Handlers \ {h} : /\ call'[g].pc = call[g].pc /\ task'[g] = task[g]
                                       /\ money'[g] = money[g] /\ cancel'[g] = cancel[g],
             BillAt(call'[h].pc, task'[h], money'[h], cancel'[h], Landed(h))
      PROVE  Bills'
  BY <1>l, <1>s, BillUntouched DEF Bills, BillAt
<1>b. \A h \in Handlers : BillAt(call[h].pc, task[h], money[h], cancel[h], Landed(h))
  BY DEF Bills
<1>1. ASSUME NEW h \in Handlers, NEW from, NEW to, Goto(h, from, to),
             UNCHANGED <<canvasVars, task, money, cancel>>,
             BillAt(from, task[h], money[h], cancel[h], Landed(h))
                => BillAt(to, task[h], money[h], cancel[h], Landed(h))
      PROVE  Bills'
  <2>1. call[h].pc = from /\ call'[h].pc = to /\ \A g \in Handlers \ {h} : call'[g] = call[g]
    BY <1>1, CallMoves
  <2> QED
    BY <1>1, <1>b, <1>s, <2>1 DEF canvasVars
<1>2. ASSUME NEW h \in Handlers, Ask(h) PROVE Bills'
  BY <1>1, <1>2 DEF Ask, BillAt
<1>3. ASSUME NEW h \in Handlers, Read(h) PROVE Bills'
  <2>1. call[h].pc = "read" /\ call'[h].pc = "bill" /\ \A g \in Handlers \ {h} : call'[g] = call[g]
    BY <1>3, CallReads
  <2>2. UNCHANGED <<log, task, money, cancel>>
    BY <1>3 DEF Read, canvasVars
  <2>3. BillAt("bill", task[h], money[h], cancel[h], Landed(h))
    BY <1>b, <2>1 DEF BillAt
  <2> QED
    BY <1>s, <2>1, <2>2, <2>3
<1>4. ASSUME NEW h \in Handlers, Refuse(h) PROVE Bills'
  <2>1. call[h].pc \in {"read", "bill"} /\ Goto(h, call[h].pc, "done")
    BY <1>4 DEF Refuse, Goto
  <2>2. BillAt(call[h].pc, task[h], money[h], cancel[h], Landed(h))
           => BillAt("done", task[h], money[h], cancel[h], Landed(h))
    BY <2>1 DEF BillAt
  <2> QED
    BY <1>1, <1>4, <2>1, <2>2 DEF Refuse
<1>5. ASSUME NEW h \in Handlers, CreateTask(h) PROVE Bills'
  <2>1. call[h].pc = "bill" /\ call'[h].pc = "hold" /\ \A g \in Handlers \ {h} : call'[g] = call[g]
    BY <1>5, CallMoves DEF CreateTask
  <2>2. UNCHANGED <<log, money, cancel>> /\ task' = [task EXCEPT ![h] = "running"]
    BY <1>5 DEF CreateTask, canvasVars
  <2>3. BillAt("hold", "running", money[h], cancel[h], Landed(h))
    BY <1>b, <2>1 DEF BillAt
  <2> QED
    BY <1>s, <2>1, <2>2, <2>3
<1>6. ASSUME NEW h \in Handlers, Hold(h) PROVE Bills'
  <2>1. call[h].pc = "hold" /\ call'[h].pc = "invoke" /\ \A g \in Handlers \ {h} : call'[g] = call[g]
    BY <1>6, CallMoves DEF Hold
  <2>2. UNCHANGED <<log, task, cancel>> /\ money' = [money EXCEPT ![h] = "held"]
    BY <1>6 DEF Hold, canvasVars
  <2>3. BillAt("invoke", task[h], "held", cancel[h], Landed(h))
    BY <1>b, <2>1 DEF BillAt
  <2> QED
    BY <1>s, <2>1, <2>2, <2>3
<1>7. ASSUME NEW h \in Handlers, HoldFails(h) PROVE Bills'
  BY <1>1, <1>7 DEF HoldFails, BillAt
\* A status is written by whoever finds the row running.
<1>8. ASSUME NEW h \in Handlers, Unheld(h) PROVE Bills'
  <2>1. call[h].pc = "unheld" /\ call'[h].pc = "done" /\ \A g \in Handlers \ {h} : call'[g] = call[g]
    BY <1>8, CallMoves DEF Unheld
  <2>2. UNCHANGED <<log, money, cancel>> /\ \A g \in Handlers \ {h} : task'[g] = task[g]
    BY <1>8 DEF Unheld, UpdateStatus, canvasVars
  <2>3. BillAt("done", task'[h], money[h], cancel[h], Landed(h))
    BY <1>b, <2>1 DEF BillAt
  <2> QED
    BY <1>s, <2>1, <2>2, <2>3
<1>9. ASSUME NEW h \in Handlers, Invoke(h) PROVE Bills'
  BY <1>1, <1>9 DEF Invoke, BillAt
<1>10. ASSUME NEW h \in Handlers, InvokeFails(h) PROVE Bills'
  BY <1>1, <1>10 DEF InvokeFails, BillAt
\* What a handler gets accepted is what it will charge for.
<1>11. ASSUME NEW h \in Handlers, Apply(h) PROVE Bills'
  <2>1. PICK ops \in Answers(call[h].step, call[h].card) :
           IF Accepts(call[h].base, ops)
           THEN revision < MaxRevision /\ Goto(h, "apply", "charge") /\ CommitBatch(h, ops)
           ELSE Goto(h, "apply", "fail") /\ UNCHANGED <<canvas, revision, log, given>>
    BY <1>11 DEF Apply
  <2>2. UNCHANGED <<task, money, cancel>>
    BY <1>11 DEF Apply
  <2>3. CASE Goto(h, "apply", "fail") /\ log' = log
    <3>1. call[h].pc = "apply" /\ call'[h].pc = "fail" /\ \A g \in Handlers \ {h} : call'[g] = call[g]
      BY <2>3, CallMoves
    <3>2. BillAt("fail", task[h], money[h], cancel[h], Landed(h))
      BY <1>b, <3>1 DEF BillAt
    <3> QED
      BY <1>s, <2>2, <2>3, <3>1, <3>2
  <2>4. CASE Goto(h, "apply", "charge") /\ CommitBatch(h, ops)
    <3>1. call[h].pc = "apply" /\ call'[h].pc = "charge" /\ \A g \in Handlers \ {h} : call'[g] = call[g]
      BY <2>4, CallMoves
    <3>2. ops # <<>>
      BY AnswersAreBatches DEF Calls
    <3>3. Logged(h)
      BY <2>4, <3>2, BatchLogged
    <3>4. Landed(h)' /\ \A g \in Handlers \ {h} : Landed(g)' <=> Landed(g)
      BY <3>3, LandedByOthers, LandedByItself
    <3>5. BillAt("charge", task[h], money[h], cancel[h], TRUE)
      BY <1>b, <3>1 DEF BillAt
    <3>6. BillAt(call[h].pc, task[h], money[h], cancel[h], Landed(h))'
      BY <2>2, <3>1, <3>4, <3>5 DEF BillAt
    <3>7. \A g \in Handlers \ {h} : BillAt(call[g].pc, task[g], money[g], cancel[g], Landed(g))'
      BY <2>2, <3>1, <3>4, BillUntouched
    <3> QED
      BY <3>6, <3>7 DEF Bills
  <2> QED
    BY <2>1, <2>3, <2>4
<1>12. ASSUME NEW h \in Handlers, Charge(h) PROVE Bills'
  <2>1. /\ call[h].pc = "charge" /\ call'[h].pc = IF task[h] = "running" THEN "settle" ELSE "say"
        /\ \A g \in Handlers \ {h} : call'[g] = call[g]
    BY <1>12, CallMoves DEF Charge
  <2>2. /\ UNCHANGED <<log, money, cancel>> /\ \A g \in Handlers \ {h} : task'[g] = task[g]
        /\ task[h] # "running" => task'[h] = task[h]
    BY <1>12 DEF Charge, UpdateStatus, canvasVars
  <2>3. BillAt(call'[h].pc, task'[h], money[h], cancel[h], Landed(h))
    BY <1>b, <2>1, <2>2 DEF BillAt
  <2> QED
    BY <1>s, <2>1, <2>2, <2>3
<1>13. ASSUME NEW h \in Handlers, Settle(h) PROVE Bills'
  <2>1. call[h].pc = "settle" /\ call'[h].pc = "say" /\ \A g \in Handlers \ {h} : call'[g] = call[g]
    BY <1>13, CallMoves DEF Settle
  <2>2. /\ UNCHANGED <<log, task, cancel>> /\ \A g \in Handlers \ {h} : money'[g] = money[g]
        /\ money'[h] = IF money[h] = "held" THEN "charged" ELSE money[h]
    BY <1>13 DEF Settle, canvasVars
  <2>3. BillAt("say", task[h], money'[h], cancel[h], Landed(h))
    BY <1>b, <2>1, <2>2 DEF BillAt
  <2> QED
    BY <1>s, <2>1, <2>2, <2>3
<1>14. ASSUME NEW h \in Handlers, Fail(h) PROVE Bills'
  <2>1. /\ call[h].pc = "fail" /\ call'[h].pc = IF task[h] = "running" THEN "refund" ELSE "done"
        /\ \A g \in Handlers \ {h} : call'[g] = call[g]
    BY <1>14, CallMoves DEF Fail
  <2>2. /\ UNCHANGED <<log, money, cancel>> /\ \A g \in Handlers \ {h} : task'[g] = task[g]
        /\ task[h] # "running" => task'[h] = task[h]
    BY <1>14 DEF Fail, UpdateStatus, canvasVars
  <2>3. BillAt(call'[h].pc, task'[h], money[h], cancel[h], Landed(h))
    BY <1>b, <2>1, <2>2 DEF BillAt
  <2> QED
    BY <1>s, <2>1, <2>2, <2>3
<1>15. ASSUME NEW h \in Handlers, Refund(h) PROVE Bills'
  <2>1. call[h].pc = "refund" /\ call'[h].pc = "done" /\ \A g \in Handlers \ {h} : call'[g] = call[g]
    BY <1>15, CallMoves DEF Refund
  <2>2. /\ UNCHANGED <<log, task, cancel>> /\ \A g \in Handlers \ {h} : money'[g] = money[g]
        /\ money'[h] = IF money[h] = "held" THEN "refunded" ELSE money[h]
    BY <1>15 DEF Refund, canvasVars
  <2>3. BillAt("done", task[h], money'[h], cancel[h], Landed(h))
    BY <1>b, <2>1, <2>2 DEF BillAt
  <2> QED
    BY <1>s, <2>1, <2>2, <2>3
<1>16. ASSUME NEW h \in Handlers, Tell(h) PROVE Bills'
  BY <1>1, <1>16 DEF Tell, BillAt
<1>17. ASSUME NEW h \in Handlers, Die(h) PROVE Bills'
  <2>1. /\ call[h].pc \notin {"idle", "done", "dead"} /\ call'[h].pc = "dead"
        /\ \A g \in Handlers \ {h} : call'[g] = call[g]
    BY <1>17 DEF Die, Calls
  <2>2. UNCHANGED <<log, task, money, cancel>>
    BY <1>17 DEF Die
  <2>3. BillAt("dead", task[h], money[h], cancel[h], Landed(h))
    BY <1>b, <2>1 DEF BillAt
  <2> QED
    BY <1>s, <2>1, <2>2, <2>3
\* A cancellation that refunds is done with that before anybody can tell.
<1>18. ASSUME NEW h \in Handlers, Cancel(h) PROVE Bills'
  <2>1. /\ UNCHANGED <<log, call, money>> /\ task[h] = "running" /\ task'[h] = "canceled"
        /\ cancel[h] = "none" /\ cancel'[h] = "refund"
        /\ \A g \in Handlers \ {h} : task'[g] = task[g] /\ cancel'[g] = cancel[g]
    BY <1>18 DEF Cancel, canvasVars
  <2>2. BillAt(call[h].pc, "canceled", money[h], "refund", Landed(h))
    BY <1>b, <2>1 DEF BillAt
  <2> QED
    BY <1>s, <2>1, <2>2
<1>19. ASSUME NEW h \in Handlers, CancelRefund(h) PROVE Bills'
  <2>1. /\ UNCHANGED <<log, call, task>> /\ cancel'[h] = "done"
        /\ money'[h] = IF money[h] = "held" THEN "refunded" ELSE money[h]
        /\ \A g \in Handlers \ {h} : money'[g] = money[g] /\ cancel'[g] = cancel[g]
    BY <1>19 DEF CancelRefund, canvasVars
  <2>2. BillAt(call[h].pc, task[h], money'[h], "done", Landed(h))
    BY <1>b, <2>1 DEF BillAt
  <2> QED
    BY <1>s, <2>1, <2>2
\* Tabs and the executor are no handlers.
<1>20. ASSUME CanvasNext, UNCHANGED chatVars PROVE Bills'
  <2>1. log' = log \/ \E by \in Tabs \cup {Executor} : Logged(by)
    <3>1. ASSUME NEW c \in Cards, NEW a \in Assets, SetCardResult(c, a) PROVE Logged(Executor)
      BY <3>1, RowAppended DEF SetCardResult, CommitResult
    <3>2. ASSUME NEW t \in Tabs, Patch(t) PROVE log' = log \/ Logged(t)
      BY <3>2, BatchLogged DEF Patch, Unlogged
    <3>3. ASSUME NEW t \in Tabs, Flush(t) \/ Lose(t) \/ Answered(t) \/ Invalidate(t) \/ Fetch(t)
                                   \/ Arrive(t) \/ FetchFails(t)
          PROVE  log' = log
      BY <3>3 DEF Flush, Lose, Answered, Invalidate, Fetch, Arrive, FetchFails
    <3> QED
      BY <1>20, <3>1, <3>2, <3>3 DEF CanvasNext, Trash, Restore
  <2>2. \A h \in Handlers : Landed(h)' <=> Landed(h)
    BY <1>l, <2>1, LandedByOthers, CanvasAssumption
  <2> QED
    BY <1>20, <2>2, BillUntouched DEF Bills, chatVars
<1> QED
  BY <1>2, <1>3, <1>4, <1>5, <1>6, <1>7, <1>8, <1>9, <1>10, <1>11, <1>12, <1>13, <1>14, <1>15,
     <1>16, <1>17, <1>18, <1>19, <1>20 DEF Next, ChatNext

LEMMA StutterKeeps == Types /\ Bills /\ UNCHANGED vars => Types' /\ Bills'
  BY DEF vars, Types, IsLog, Bills, BillAt, Landed

LEMMA BillsAlways == Spec => [](Types /\ Bills)
<1>1. Types /\ Bills /\ [Next]_vars => (Types /\ Bills)'
  BY TypesKept, BillsKept, StutterKeeps
<1> QED
  BY InitTypes, InitBills, <1>1, PTL DEF Spec

\* What is charged is on the canvas, and what is refunded is not, unless the user has
\* canceled the task under the call (chatBill.charge and refund, cancelTask).
THEOREM BillsFollowCanvas == Spec => []BillFollowsCanvas
<1>1. Types /\ Bills => BillFollowsCanvas
  BY DEF Bills, BillAt, BillFollowsCanvas
<1> QED
  BY BillsAlways, <1>1, PTL

\* A handler that is done leaves no hold behind but on a canceled task.
THEOREM HandlersLeaveNoHold == Spec => []NoHoldLeft
<1>1. Types /\ Bills => NoHoldLeft
  BY DEF Bills, BillAt, NoHoldLeft
<1> QED
  BY BillsAlways, <1>1, PTL

-----------------------------------------------------------------------------
(* The optimistic lock *)

\* The rows after the first n up to the mth are all a's own.
Own(a, n, m) == \A j \in n + 1 .. m : log[j].by = a

\* What a tab has on its screen, has sent and has read: between what it has seen and the
\* revision it claims lie only its own rows.
TabView(t) ==
    /\ tab[t].seen <= revision /\ tab[t].rev <= revision
    /\ Own(t, tab[t].seen, tab[t].rev)
    /\ tab[t].patch.st \in {"sent", "ok"} =>
          /\ tab[t].patch.rev <= revision
          /\ tab[t].patch.seen <= tab[t].seen
          /\ Own(t, tab[t].patch.seen, tab[t].patch.rev)
    /\ tab[t].fetch.st = "read" =>
          /\ tab[t].fetch.rev = tab[t].fetch.seen
          /\ tab[t].fetch.seen \in tab[t].seen .. revision

\* A handler claims the revision it has read.
CallView(h) ==
    call[h].pc \in {"bill", "hold", "unheld", "invoke", "apply"} => call[h].base = call[h].seen

Views == (\A t \in Tabs : TabView(t)) /\ (\A h \in Handlers : CallView(h))

\* Rows are never rewritten.
LEMMA OwnKept ==
    ASSUME Types, Unlogged \/ \E by : Logged(by), NEW a, NEW n \in Nat, NEW m \in Nat,
           m <= revision, Own(a, n, m)
    PROVE  Own(a, n, m)' /\ m <= revision'
<1>1. Len(log) = revision /\ revision \in Nat
  BY LogTypes DEF Types, IsLog
<1>2. revision' \in Nat /\ revision' >= revision /\ \A i \in 1 .. revision : log'[i] = log[i]
  BY <1>1 DEF Unlogged, Logged
<1>3. \A j \in n + 1 .. m : log'[j].by = a
  <2> SUFFICES ASSUME NEW j \in n + 1 .. m PROVE log'[j].by = a
    OBVIOUS
  <2>1. j \in 1 .. revision
    BY <1>1
  <2> QED
    BY <1>2, <2>1 DEF Own
<1> QED
  BY <1>1, <1>2, <1>3 DEF Own

\* A tab that does nothing sees no less.
LEMMA ViewKept ==
    ASSUME Types, Unlogged \/ \E by : Logged(by), NEW t \in Tabs, TabView(t), tab'[t] = tab[t]
    PROVE  TabView(t)'
<1> DEFINE v == tab[t]
<1>1. /\ v.seen \in Nat /\ v.rev \in Nat /\ v.patch.rev \in Nat /\ v.patch.seen \in Nat
      /\ v.fetch.rev \in Nat /\ v.fetch.seen \in Nat
  BY DEF Types, TabStates, Requests, Reads
<1>2. revision \in Nat /\ revision' >= revision /\ revision' \in Nat
  BY LogTypes DEF Types, Unlogged, Logged
<1>3. Own(t, v.seen, v.rev)'
  <2>1. Own(t, v.seen, v.rev) /\ v.rev <= revision
    BY DEF TabView
  <2>2. PICK n \in Nat, m \in Nat : n = v.seen /\ m = v.rev
    BY <1>1
  <2>3. Own(t, n, m)'
    BY <2>1, <2>2, OwnKept
  <2> QED
    BY <2>2, <2>3 DEF Own
<1>4. v.patch.st \in {"sent", "ok"} => Own(t, v.patch.seen, v.patch.rev)'
  <2> SUFFICES ASSUME v.patch.st \in {"sent", "ok"} PROVE Own(t, v.patch.seen, v.patch.rev)'
    OBVIOUS
  <2>1. Own(t, v.patch.seen, v.patch.rev) /\ v.patch.rev <= revision
    BY DEF TabView
  <2>2. PICK n \in Nat, m \in Nat : n = v.patch.seen /\ m = v.patch.rev
    BY <1>1
  <2>3. Own(t, n, m)'
    BY <2>1, <2>2, OwnKept
  <2> QED
    BY <2>2, <2>3 DEF Own
<1> QED
  BY <1>1, <1>2, <1>3, <1>4 DEF TabView

\* A call that does not claim a new revision.
LEMMA CallKept ==
    ASSUME NEW h \in Handlers, CallView(h), call'[h].base = call[h].base, call'[h].seen = call[h].seen,
           call'[h].pc \in {"bill", "hold", "unheld", "invoke", "apply"}
              => call[h].pc \in {"bill", "hold", "unheld", "invoke", "apply"}
    PROVE  CallView(h)'
  BY DEF CallView

LEMMA InitViews == Init => Views
  BY DEF Init, CanvasInit, ChatInit, Views, TabView, CallView, Own, NoRequest, NoRead

\* Every step leaves the log alone or appends the row of one author.
LEMMA LogGrows ==
    ASSUME Types, Next
    PROVE  Unlogged \/ \E by : Logged(by)
<1> USE DEF Types
<1>1. ASSUME NEW h \in Handlers, Ask(h) \/ Read(h) \/ Refuse(h) \/ CreateTask(h) \/ Hold(h) \/ HoldFails(h)
                \/ Unheld(h) \/ Invoke(h) \/ InvokeFails(h) \/ Charge(h) \/ Settle(h) \/ Fail(h)
                \/ Refund(h) \/ Tell(h) \/ Die(h) \/ Cancel(h) \/ CancelRefund(h)
      PROVE  Unlogged
  BY <1>1 DEF Ask, Read, Refuse, CreateTask, Hold, HoldFails, Unheld, Invoke, InvokeFails, Charge, Settle,
              Fail, Refund, Tell, Die, Cancel, CancelRefund, canvasVars, Unlogged
<1>2. ASSUME NEW h \in Handlers, Apply(h) PROVE Unlogged \/ Logged(h)
  BY <1>2, BatchLogged DEF Apply, Unlogged
<1>3. ASSUME NEW c \in Cards, NEW a \in Assets, SetCardResult(c, a) PROVE Logged(Executor)
  BY <1>3, RowAppended DEF SetCardResult, CommitResult
<1>4. ASSUME NEW t \in Tabs, Patch(t) PROVE Unlogged \/ Logged(t)
  BY <1>4, BatchLogged DEF Patch, Unlogged
<1>5. ASSUME NEW t \in Tabs, Flush(t) \/ Lose(t) \/ Answered(t) \/ Invalidate(t) \/ Fetch(t)
                               \/ Arrive(t) \/ FetchFails(t)
      PROVE  Unlogged
  BY <1>5 DEF Flush, Lose, Answered, Invalidate, Fetch, Arrive, FetchFails, Unlogged
<1>6. ASSUME Trash \/ Restore PROVE Unlogged
  BY <1>6 DEF Trash, Restore, Unlogged
<1> QED
  BY <1>1, <1>2, <1>3, <1>4, <1>5, <1>6 DEF Next, ChatNext, CanvasNext

LEMMA CallViewsKept ==
    ASSUME Types, Views, Next
    PROVE  \A h \in Handlers : CallView(h)'
<1> USE DEF Types
<1>v. \A h \in Handlers : CallView(h)
  BY DEF Views
<1>1. ASSUME NEW h \in Handlers, NEW from, NEW to, Goto(h, from, to),
             to \in {"bill", "hold", "unheld", "invoke", "apply"}
                => from \in {"bill", "hold", "unheld", "invoke", "apply"}
      PROVE  \A g \in Handlers : CallView(g)'
  <2>1. CallView(h)'
    BY <1>v, <1>1, CallMoves, CallKept
  <2>2. \A g \in Handlers \ {h} : CallView(g)'
    BY <1>v, <1>1, CallMoves, CallKept
  <2> QED
    BY <2>1, <2>2
<1>2. ASSUME NEW h \in Handlers, Ask(h) \/ CreateTask(h) \/ Hold(h) \/ HoldFails(h) \/ Unheld(h) \/ Invoke(h)
                \/ InvokeFails(h) \/ Settle(h) \/ Refund(h) \/ Tell(h)
      PROVE  \A g \in Handlers : CallView(g)'
  BY <1>1, <1>2 DEF Ask, CreateTask, Hold, HoldFails, Unheld, Invoke, InvokeFails, Settle, Refund, Tell
<1>3. ASSUME NEW h \in Handlers, Charge(h) \/ Fail(h) PROVE \A g \in Handlers : CallView(g)'
  <2>1. \/ Goto(h, "charge", "settle") \/ Goto(h, "charge", "say")
        \/ Goto(h, "fail", "refund") \/ Goto(h, "fail", "done")
    BY <1>3 DEF Charge, Fail
  <2> QED
    BY <1>1, <2>1
<1>4. ASSUME NEW h \in Handlers, Refuse(h) \/ Die(h) PROVE \A g \in Handlers : CallView(g)'
  <2>1. Goto(h, call[h].pc, "done") \/ Goto(h, call[h].pc, "dead")
    BY <1>4 DEF Refuse, Die, Goto
  <2> QED
    BY <1>1, <2>1
<1>5. ASSUME NEW h \in Handlers, Apply(h) PROVE \A g \in Handlers : CallView(g)'
  <2>1. Goto(h, "apply", "charge") \/ Goto(h, "apply", "fail")
    BY <1>5 DEF Apply
  <2> QED
    BY <1>1, <2>1
<1>6. ASSUME NEW h \in Handlers, Read(h) PROVE \A g \in Handlers : CallView(g)'
  <2>1. CallView(h)'
    BY <1>6, CallReads DEF CallView
  <2>2. \A g \in Handlers \ {h} : CallView(g)'
    BY <1>v, <1>6, CallReads, CallKept
  <2> QED
    BY <2>1, <2>2
<1>7. ASSUME call' = call PROVE \A g \in Handlers : CallView(g)'
  BY <1>v, <1>7, CallKept
<1>8. ASSUME NEW h \in Handlers, Cancel(h) \/ CancelRefund(h) PROVE call' = call
  BY <1>8 DEF Cancel, CancelRefund
<1> QED
  BY <1>2, <1>3, <1>4, <1>5, <1>6, <1>7, <1>8 DEF Next, ChatNext, chatVars

\* The tabs see the canvas as it was, and what they write themselves.
LEMMA TabViewsKept ==
    ASSUME Types, Views, Next
    PROVE  \A t \in Tabs : TabView(t)'
<1> USE DEF Types
<1>l. Unlogged \/ \E by : Logged(by)
  BY LogGrows
<1>r. Len(log) = revision /\ revision \in Nat
  BY LogTypes DEF IsLog
<1>v. \A t \in Tabs : TabView(t)
  BY DEF Views
<1>k. ASSUME NEW t \in Tabs, tab'[t] = tab[t] PROVE TabView(t)'
  BY <1>l, <1>v, <1>k, ViewKept
<1>s. ASSUME NEW t \in Tabs, TabView(t)', \A u \in Tabs \ {t} : tab'[u] = tab[u]
      PROVE  \A u \in Tabs : TabView(u)'
  BY <1>k, <1>s
<1>n. \A t \in Tabs :
         /\ tab[t].seen \in Nat /\ tab[t].rev \in Nat /\ tab[t].patch.rev \in Nat
         /\ tab[t].patch.seen \in Nat /\ tab[t].fetch.rev \in Nat /\ tab[t].fetch.seen \in Nat
  BY DEF TabStates, Requests, Reads
<1>u. ASSUME tab' = tab PROVE \A t \in Tabs : TabView(t)'
  BY <1>k, <1>u
<1>1. ASSUME NEW h \in Handlers, Ask(h) \/ Read(h) \/ Refuse(h) \/ CreateTask(h) \/ Hold(h) \/ HoldFails(h)
                \/ Unheld(h) \/ Invoke(h) \/ InvokeFails(h) \/ Apply(h) \/ Charge(h) \/ Settle(h) \/ Fail(h)
                \/ Refund(h) \/ Tell(h) \/ Die(h) \/ Cancel(h) \/ CancelRefund(h)
      PROVE  tab' = tab
  BY <1>1 DEF Ask, Read, Refuse, CreateTask, Hold, HoldFails, Unheld, Invoke, InvokeFails, Apply, Charge,
              Settle, Fail, Refund, Tell, Die, Cancel, CancelRefund, canvasVars
<1>2. ASSUME NEW c \in Cards, NEW a \in Assets, SetCardResult(c, a) PROVE tab' = tab
  BY <1>2 DEF SetCardResult
<1>9. ASSUME Trash \/ Restore PROVE tab' = tab
  BY <1>9 DEF Trash, Restore
\* The steps of a tab.
<1>3. ASSUME NEW t \in Tabs, Flush(t) PROVE \A u \in Tabs : TabView(u)'
  <2>1. /\ UNCHANGED <<log, revision>> /\ DOMAIN tab' = Tabs
        /\ tab'[t].seen = tab[t].seen /\ tab'[t].rev = tab[t].rev /\ tab'[t].fetch = tab[t].fetch
        /\ tab'[t].patch = [st |-> "sent", rev |-> tab[t].rev, seen |-> tab[t].seen]
        /\ \A u \in Tabs \ {t} : tab'[u] = tab[u]
    BY <1>3 DEF Flush, TabStates
  <2>2. TabView(t)'
    BY <1>v, <1>n, <2>1 DEF TabView, Own
  <2> QED
    BY <1>s, <2>1, <2>2
<1>4. ASSUME NEW t \in Tabs, Lose(t) \/ Invalidate(t) \/ FetchFails(t) PROVE \A u \in Tabs : TabView(u)'
  <2>1. /\ UNCHANGED <<log, revision>>
        /\ tab'[t].seen = tab[t].seen /\ tab'[t].rev = tab[t].rev
        /\ tab'[t].fetch = tab[t].fetch \/ tab'[t].fetch = NoRead
        /\ tab'[t].patch = tab[t].patch \/ tab'[t].patch.st \in {"none", "failed", "resync"}
        /\ \A u \in Tabs \ {t} : tab'[u] = tab[u]
    BY <1>4 DEF Lose, Invalidate, FetchFails, SetPatch, Resynced, NoRequest, TabStates, Requests
  <2>2. TabView(t)'
    BY <1>v, <1>n, <2>1 DEF TabView, Own, NoRead
  <2> QED
    BY <1>s, <2>1, <2>2
<1>5. ASSUME NEW t \in Tabs, Answered(t) PROVE \A u \in Tabs : TabView(u)'
  <2>1. /\ UNCHANGED <<log, revision>> /\ tab[t].patch.st = "ok"
        /\ tab'[t].seen = tab[t].seen /\ tab'[t].rev = tab[t].patch.rev
        /\ tab'[t].fetch = tab[t].fetch /\ tab'[t].patch = NoRequest
        /\ \A u \in Tabs \ {t} : tab'[u] = tab[u]
    BY <1>5 DEF Answered, TabStates
  <2>2. Own(t, tab[t].seen, tab[t].patch.rev)
    BY <1>v, <1>n, <2>1 DEF TabView, Own
  <2>3. TabView(t)'
    BY <1>v, <1>n, <2>1, <2>2 DEF TabView, Own, NoRequest
  <2> QED
    BY <1>s, <2>1, <2>3
<1>6. ASSUME NEW t \in Tabs, Fetch(t) PROVE \A u \in Tabs : TabView(u)'
  <2>1. /\ UNCHANGED <<log, revision>>
        /\ tab'[t].seen = tab[t].seen /\ tab'[t].rev = tab[t].rev /\ tab'[t].patch = tab[t].patch
        /\ tab'[t].fetch = [st |-> "read", rev |-> revision, seen |-> revision]
        /\ \A u \in Tabs \ {t} : tab'[u] = tab[u]
    BY <1>6, <1>r DEF Fetch, Snapshot, TabStates
  <2>2. TabView(t)'
    BY <1>v, <1>n, <1>r, <2>1 DEF TabView, Own
  <2> QED
    BY <1>s, <2>1, <2>2
<1>7. ASSUME NEW t \in Tabs, Arrive(t) PROVE \A u \in Tabs : TabView(u)'
  <2>1. /\ UNCHANGED <<log, revision>> /\ tab[t].fetch.st = "read"
        /\ tab'[t].seen = tab[t].fetch.seen /\ tab'[t].rev = tab[t].fetch.rev
        /\ tab'[t].patch = tab[t].patch \/ tab'[t].patch = NoRequest
        /\ tab'[t].fetch = NoRead
        /\ \A u \in Tabs \ {t} : tab'[u] = tab[u]
    BY <1>7 DEF Arrive, Resynced
  <2>2. TabView(t)'
    BY <1>v, <1>n, <1>r, <2>1 DEF TabView, Own, NoRequest, NoRead
  <2> QED
    BY <1>s, <2>1, <2>2
<1>8. ASSUME NEW t \in Tabs, Patch(t) PROVE \A u \in Tabs : TabView(u)'
  <2>1. PICK ops \in Batches :
           IF Accepts(tab[t].patch.rev, ops)
           THEN /\ revision < MaxRevision
                /\ CommitBatch(t, ops)
                /\ SetPatch(t, "ok", RevisionAfter(ops))
           ELSE /\ SetPatch(t, "failed", 0)
                /\ UNCHANGED <<canvas, revision, log, given>>
    BY <1>8 DEF Patch
  <2>2. ASSUME NEW st, NEW rev, SetPatch(t, st, rev)
        PROVE  /\ tab'[t].seen = tab[t].seen /\ tab'[t].rev = tab[t].rev /\ tab'[t].fetch = tab[t].fetch
               /\ tab'[t].patch.st = st /\ tab'[t].patch.rev = rev
               /\ tab'[t].patch.seen = tab[t].patch.seen
               /\ \A u \in Tabs \ {t} : tab'[u] = tab[u]
    BY <2>2 DEF SetPatch, TabStates, Requests
  <2>3. CASE SetPatch(t, "failed", 0) /\ UNCHANGED <<revision, log>>
    <3>1. TabView(t)'
      BY <1>v, <1>n, <2>2, <2>3 DEF TabView, Own
    <3> QED
      BY <1>s, <2>2, <2>3, <3>1
  <2>4. CASE Accepts(tab[t].patch.rev, ops) /\ CommitBatch(t, ops) /\ SetPatch(t, "ok", RevisionAfter(ops))
    <3>1. ops # <<>>
      BY BatchesAreBatches
    <3>2. Logged(t) /\ RevisionAfter(ops) = revision + 1
      BY <2>4, <3>1, BatchLogged DEF RevisionAfter
    <3>3. tab[t].patch.st = "sent" /\ tab[t].patch.rev = revision
      BY <1>8, <2>4 DEF Patch, Accepts
    <3>4. Own(t, tab[t].patch.seen, revision)
      BY <1>v, <3>3 DEF TabView
    <3>5. \A j \in tab[t].patch.seen + 1 .. revision + 1 : log'[j].by = t
      <4> SUFFICES ASSUME NEW j \in tab[t].patch.seen + 1 .. revision + 1 PROVE log'[j].by = t
        OBVIOUS
      <4>1. j \in tab[t].patch.seen + 1 .. revision \/ j = revision + 1
        BY <1>r, <1>n
      <4>2. log'[revision + 1].by = t /\ \A i \in 1 .. revision : log'[i] = log[i]
        BY <1>r, <3>2 DEF Logged
      <4> QED
        BY <1>r, <1>n, <3>4, <4>1, <4>2 DEF Own
    <3>6. Own(t, tab[t].seen, tab[t].rev)'
      <4>1. PICK n \in Nat, m \in Nat : n = tab[t].seen /\ m = tab[t].rev
        BY <1>n
      <4>2. Own(t, n, m)'
        BY <1>l, <1>v, <4>1, OwnKept DEF TabView
      <4> QED
        BY <2>2, <2>4, <4>1, <4>2 DEF Own
    <3>7. revision' = revision + 1
      BY <3>2 DEF Logged
    <3>8. Own(t, tab[t].patch.seen, tab[t].patch.rev)'
      BY <2>2, <2>4, <3>2, <3>5 DEF Own
    <3>9. TabView(t)'
      BY <1>v, <1>n, <1>r, <2>2, <2>4, <3>2, <3>3, <3>6, <3>7, <3>8 DEF TabView
    <3> QED
      BY <1>s, <2>2, <2>4, <3>9
  <2> QED
    BY <2>1, <2>3, <2>4
<1> QED
  BY <1>1, <1>2, <1>3, <1>4, <1>5, <1>6, <1>7, <1>8, <1>9, <1>u DEF Next, ChatNext, CanvasNext

LEMMA ViewsAlways == Spec => [](Types /\ Views)
<1>1. Types /\ Views /\ Next => Types' /\ Views'
  BY TypesKept, TabViewsKept, CallViewsKept DEF Views
<1>2. Types /\ Views /\ UNCHANGED vars => Types' /\ Views'
  BY DEF vars, Types, IsLog, Views, TabView, CallView, Own
<1> QED
  BY InitTypes, InitViews, <1>1, <1>2, PTL DEF Spec

\* Whoever gets a batch accepted has seen every change that somebody else has made
\* (ApplyOps under the revision the caller claims, handlePatchCanvas, useCanvasSync.ts).
THEOREM NobodyWritesBlindly == Spec => NoBlindWrite
<1> DEFINE Seen == \A i \in DOMAIN log' \ DOMAIN log :
                      log'[i].by # Executor =>
                          \A j \in SeenBy(log'[i].by) + 1 .. Len(log) : log[j].by = log'[i].by
<1>1. ASSUME Types, Views, Next PROVE Seen
  <2> USE DEF Types
  <2>r. Len(log) = revision /\ revision \in Nat /\ DOMAIN log = 1 .. Len(log)
    BY <1>1, LogTypes DEF IsLog
  <2>u. Unlogged => Seen
    BY DEF Unlogged
  <2>n. ASSUME NEW by, Logged(by),
               by # Executor => \A j \in SeenBy(by) + 1 .. Len(log) : log[j].by = by
        PROVE  Seen
    <3>1. \A i \in DOMAIN log' \ DOMAIN log : i = Len(log')
      BY <2>r, <2>n DEF Logged
    <3> QED
      BY <2>n, <3>1 DEF Logged
  <2>1. ASSUME NEW h \in Handlers, Apply(h) PROVE Seen
    <3>1. PICK ops \in Answers(call[h].step, call[h].card) :
             IF Accepts(call[h].base, ops)
             THEN revision < MaxRevision /\ Goto(h, "apply", "charge") /\ CommitBatch(h, ops)
             ELSE Goto(h, "apply", "fail") /\ UNCHANGED <<canvas, revision, log, given>>
      BY <2>1 DEF Apply
    <3>2. CASE UNCHANGED <<revision, log>>
      BY <2>u, <3>2 DEF Unlogged
    <3>3. CASE Accepts(call[h].base, ops) /\ Goto(h, "apply", "charge") /\ CommitBatch(h, ops)
      <4>1. call[h].seen = revision
        BY <1>1, <3>3 DEF Views, CallView, Goto, Accepts
      <4>2. h \notin Tabs
        BY CanvasAssumption
      <4>3. ops # <<>>
        BY <1>1, AnswersAreBatches DEF Calls
      <4>4. Logged(h)
        BY <1>1, <3>3, <4>3, BatchLogged
      <4>5. \A j \in SeenBy(h) + 1 .. Len(log) : log[j].by = h
        BY <2>r, <4>1, <4>2 DEF SeenBy
      <4> QED
        BY <2>n, <4>4, <4>5
    <3> QED
      BY <3>1, <3>2, <3>3
  <2>2. ASSUME NEW t \in Tabs, Patch(t) PROVE Seen
    <3>1. PICK ops \in Batches :
             IF Accepts(tab[t].patch.rev, ops)
             THEN /\ revision < MaxRevision
                  /\ CommitBatch(t, ops)
                  /\ SetPatch(t, "ok", RevisionAfter(ops))
             ELSE /\ SetPatch(t, "failed", 0)
                  /\ UNCHANGED <<canvas, revision, log, given>>
      BY <2>2 DEF Patch
    <3>2. CASE UNCHANGED <<revision, log>>
      BY <2>u, <3>2 DEF Unlogged
    <3>3. CASE Accepts(tab[t].patch.rev, ops) /\ CommitBatch(t, ops)
      <4>1. Logged(t)
        BY <1>1, <3>3, BatchesAreBatches, BatchLogged
      <4>2. tab[t].patch.st = "sent" /\ tab[t].patch.rev = revision
        BY <2>2, <3>3 DEF Patch, Accepts
      <4>3. \A j \in SeenBy(t) + 1 .. Len(log) : log[j].by = t
        BY <1>1, <2>r, <4>2 DEF Views, TabView, Own, SeenBy
      <4> QED
        BY <2>n, <4>1, <4>3
    <3> QED
      BY <3>1, <3>2, <3>3
  <2>3. ASSUME NEW c \in Cards, NEW a \in Assets, SetCardResult(c, a) PROVE Seen
    BY <1>1, <2>n, <2>3, RowAppended DEF SetCardResult, CommitResult
  <2>4. ASSUME NEW h \in Handlers, Ask(h) \/ Read(h) \/ Refuse(h) \/ CreateTask(h) \/ Hold(h) \/ HoldFails(h)
                  \/ Unheld(h) \/ Invoke(h) \/ InvokeFails(h) \/ Charge(h) \/ Settle(h) \/ Fail(h)
                  \/ Refund(h) \/ Tell(h) \/ Die(h) \/ Cancel(h) \/ CancelRefund(h)
        PROVE  Unlogged
    BY <2>4 DEF Ask, Read, Refuse, CreateTask, Hold, HoldFails, Unheld, Invoke, InvokeFails, Charge, Settle,
                Fail, Refund, Tell, Die, Cancel, CancelRefund, canvasVars, Unlogged
  <2>5. ASSUME NEW t \in Tabs, Flush(t) \/ Lose(t) \/ Answered(t) \/ Invalidate(t) \/ Fetch(t)
                                 \/ Arrive(t) \/ FetchFails(t)
        PROVE  Unlogged
    BY <2>5 DEF Flush, Lose, Answered, Invalidate, Fetch, Arrive, FetchFails, Unlogged
  <2>6. ASSUME Trash \/ Restore PROVE Unlogged
    BY <2>6 DEF Trash, Restore, Unlogged
  <2> QED
    BY <1>1, <2>u, <2>1, <2>2, <2>3, <2>4, <2>5, <2>6 DEF Next, ChatNext, CanvasNext
<1>2. ASSUME Types, Views, [Next]_vars PROVE [Seen]_vars
  BY <1>1, <1>2
<1> QED
  BY ViewsAlways, <1>2, PTL DEF Spec, NoBlindWrite

-----------------------------------------------------------------------------
(* Recursion *)

\* A set of numbers that is not empty has a least one.
LEMMA LeastNumber ==
    ASSUME NEW S \in SUBSET Nat, S # {}
    PROVE  \E n \in S : \A m \in S : n <= m
<1> DEFINE R == {ss \in Nat \X Nat : ss[1] < ss[2]}
<1>1. IsWellFoundedOn(R, Nat)
  BY NatLessThanWellFounded DEF OpToRel
<1>2. \A m, n \in Nat : <<m, n>> \in R <=> m < n
  OBVIOUS
<1> HIDE DEF R
<1>3. PICK n \in S : \A m \in S : ~ (<<m, n>> \in R)
  BY <1>1, WFMin
<1>4. ASSUME NEW m \in S
      PROVE  n <= m
  <2>1. m \in Nat /\ n \in Nat /\ ~ (m < n)
    BY <1>2, <1>3
  <2> QED
    BY <2>1
<1> QED
  BY <1>4

\* Runs of a batch: g is what its first n operations lead to.
Runs(cv, ops, g, n) ==
    g = [i \in 0 .. n |-> IF i = 0 THEN cv ELSE After(g[i - 1], ops[i])]

LEMMA RunSteps ==
    ASSUME NEW cv, NEW ops, NEW g, NEW n \in Nat, Runs(cv, ops, g, n)
    PROVE  /\ g[0] = cv
           /\ \A i \in 1 .. n : g[i] = After(g[i - 1], ops[i])
<1> DEFINE Step(i) == IF i = 0 THEN cv ELSE After(g[i - 1], ops[i])
<1>1. g = [i \in 0 .. n |-> Step(i)]
  BY DEF Runs
<1>2. \A i \in 1 .. n : i # 0 /\ i \in 0 .. n
  OBVIOUS
<1>3. Step(0) = cv /\ \A i \in 1 .. n : Step(i) = After(g[i - 1], ops[i])
  BY <1>2
<1> HIDE DEF Step
<1>4. 0 \in 0 .. n
  OBVIOUS
<1> QED
  BY <1>1, <1>2, <1>3, <1>4

LEMMA RunsAgree ==
    ASSUME NEW cv, NEW ops, NEW g, NEW h, NEW n \in Nat, NEW m \in Nat,
           Runs(cv, ops, g, n), Runs(cv, ops, h, m)
    PROVE  \A i \in Nat : i <= n /\ i <= m => g[i] = h[i]
<1> DEFINE S == {i \in Nat : i <= n /\ i <= m /\ g[i] # h[i]}
<1>1. SUFFICES ASSUME S # {} PROVE FALSE
  OBVIOUS
<1>2. PICK i \in S : \A j \in S : i <= j
  BY <1>1, LeastNumber
<1>3. i # 0
  BY RunSteps
<1>4. i - 1 \in Nat /\ i - 1 <= n /\ i - 1 <= m /\ i \in 1 .. n /\ i \in 1 .. m /\ i - 1 < i
  BY <1>3
<1>5. g[i - 1] = h[i - 1]
  <2>1. i - 1 \notin S
    BY <1>2, <1>4
  <2> QED
    BY <1>4, <2>1
<1>6. g[i] = After(g[i - 1], ops[i]) /\ h[i] = After(h[i - 1], ops[i])
  BY <1>4, RunSteps
<1> QED
  BY <1>5, <1>6

LEMMA RunsExist ==
    ASSUME NEW cv, NEW ops
    PROVE  \A n \in Nat : \E g : Runs(cv, ops, g, n)
<1> DEFINE S == {n \in Nat : ~ \E g : Runs(cv, ops, g, n)}
<1>1. SUFFICES ASSUME S # {} PROVE FALSE
  OBVIOUS
<1>2. PICK n \in S : \A j \in S : n <= j
  BY <1>1, LeastNumber
<1>3. CASE n = 0
  <2> DEFINE g == [i \in {0} |-> cv]
  <2>1. Runs(cv, ops, g, 0)
    <3>1. 0 .. 0 = {0}
      OBVIOUS
    <3>2. [i \in {0} |-> IF i = 0 THEN cv ELSE After(g[i - 1], ops[i])] = g
      OBVIOUS
    <3> QED
      BY <3>1, <3>2 DEF Runs
  <2> QED
    BY <1>3, <2>1
<1>4. CASE n # 0
  <2>1. n - 1 \in Nat /\ n - 1 < n
    BY <1>4
  <2>2. PICK g : Runs(cv, ops, g, n - 1)
    BY <1>2, <2>1
  <2> DEFINE last == After(g[n - 1], ops[n])
             h == [i \in 0 .. n |-> IF i = n THEN last ELSE g[i]]
  <2>3. \A i \in 0 .. n : h[i] = IF i = n THEN last ELSE g[i]
    OBVIOUS
  <2>4. h[0] = cv
    BY <1>4, <2>1, <2>2, <2>3, RunSteps
  <2>5. ASSUME NEW i \in 1 .. n
        PROVE  h[i] = After(h[i - 1], ops[i])
    <3>1. i - 1 \in 0 .. n /\ i - 1 # n /\ i \in 0 .. n
      OBVIOUS
    <3>2. h[i - 1] = g[i - 1]
      BY <2>3, <3>1
    <3>3. CASE i = n
      BY <2>3, <3>1, <3>2, <3>3
    <3>4. CASE i # n
      <4>1. i \in 1 .. n - 1
        BY <3>4
      <4>2. g[i] = After(g[i - 1], ops[i])
        BY <2>1, <2>2, <4>1, RunSteps
      <4> QED
        BY <2>3, <3>1, <3>2, <3>4, <4>2
    <3> QED
      BY <3>3, <3>4
  <2>6. h = [i \in 0 .. n |-> h[i]]
    OBVIOUS
  <2> HIDE DEF h
  <2>7. [i \in 0 .. n |-> h[i]] = [i \in 0 .. n |-> IF i = 0 THEN cv ELSE After(h[i - 1], ops[i])]
    <3>1. \A i \in 0 .. n : i # 0 => i \in 1 .. n
      OBVIOUS
    <3>2. \A i \in 0 .. n : h[i] = IF i = 0 THEN cv ELSE After(h[i - 1], ops[i])
      BY <2>4, <2>5, <3>1
    <3> QED
      BY <3>2
  <2>8. Runs(cv, ops, h, n)
    BY <2>6, <2>7 DEF Runs
  <2> QED
    BY <2>8
<1> QED
  BY <1>3, <1>4

\* The definition of AfterFirst defines it.
LEMMA AfterFirstSteps ==
    ASSUME NEW cv, NEW ops
    PROVE  /\ AfterFirst(cv, ops)[0] = cv
           /\ \A n \in Nat \ {0} : AfterFirst(cv, ops)[n] = After(AfterFirst(cv, ops)[n - 1], ops[n])
<1> DEFINE Run(n) == CHOOSE g : Runs(cv, ops, g, n)
           F == [n \in Nat |-> Run(n)[n]]
           Step(f, n) == IF n = 0 THEN cv ELSE After(f[n - 1], ops[n])
<1>1. \A n \in Nat : Runs(cv, ops, Run(n), n)
  BY RunsExist
<1> HIDE DEF Run
<1>2. ASSUME NEW n \in Nat
      PROVE  F[n] = Step(F, n)
  <2>1. F[n] = Run(n)[n]
    OBVIOUS
  <2>2. CASE n = 0
    BY <1>1, <2>1, <2>2, RunSteps
  <2>3. CASE n # 0
    <3>1. n - 1 \in Nat /\ n \in 1 .. n /\ n - 1 <= n /\ n - 1 <= n - 1
      BY <2>3
    <3>2. Run(n)[n] = After(Run(n)[n - 1], ops[n])
      BY <1>1, <3>1, RunSteps
    <3>3. Run(n)[n - 1] = Run(n - 1)[n - 1]
      BY <1>1, <3>1, RunsAgree
    <3>4. F[n - 1] = Run(n - 1)[n - 1]
      BY <3>1
    <3> QED
      BY <2>1, <2>3, <3>2, <3>3, <3>4
  <2> QED
    BY <2>2, <2>3
<1>3. F = [n \in Nat |-> F[n]]
  OBVIOUS
<1> HIDE DEF F
<1>4. F = [n \in Nat |-> Step(F, n)]
  BY <1>2, <1>3
<1>5. \E f : f = [n \in Nat |-> Step(f, n)]
  BY <1>4
<1> DEFINE G == CHOOSE f : f = [n \in Nat |-> Step(f, n)]
<1>6. G = [n \in Nat |-> Step(G, n)]
  BY <1>5
<1>7. AfterFirst(cv, ops) = G
  BY DEF AfterFirst
<1> HIDE DEF G
<1>8. \A n \in Nat : G[n] = Step(G, n)
  BY <1>6
<1> QED
  BY <1>7, <1>8

\* The same for a log: g is what its first n rows lead to.
Replays(rows, g, n) ==
    g = [i \in 0 .. n |-> IF i = 0 THEN EmptyCanvas ELSE AfterBatch(g[i - 1], rows[i].ops)]

LEMMA ReplaySteps ==
    ASSUME NEW rows, NEW g, NEW n \in Nat, Replays(rows, g, n)
    PROVE  /\ g[0] = EmptyCanvas
           /\ \A i \in 1 .. n : g[i] = AfterBatch(g[i - 1], rows[i].ops)
<1> DEFINE Step(i) == IF i = 0 THEN EmptyCanvas ELSE AfterBatch(g[i - 1], rows[i].ops)
<1>1. g = [i \in 0 .. n |-> Step(i)]
  BY DEF Replays
<1>2. \A i \in 1 .. n : i # 0 /\ i \in 0 .. n
  OBVIOUS
<1>3. Step(0) = EmptyCanvas /\ \A i \in 1 .. n : Step(i) = AfterBatch(g[i - 1], rows[i].ops)
  BY <1>2
<1> HIDE DEF Step
<1>4. 0 \in 0 .. n
  OBVIOUS
<1> QED
  BY <1>1, <1>2, <1>3, <1>4

LEMMA ReplaysAgree ==
    ASSUME NEW rows, NEW g, NEW h, NEW n \in Nat, NEW m \in Nat,
           Replays(rows, g, n), Replays(rows, h, m)
    PROVE  \A i \in Nat : i <= n /\ i <= m => g[i] = h[i]
<1> DEFINE S == {i \in Nat : i <= n /\ i <= m /\ g[i] # h[i]}
<1>1. SUFFICES ASSUME S # {} PROVE FALSE
  OBVIOUS
<1>2. PICK i \in S : \A j \in S : i <= j
  BY <1>1, LeastNumber
<1>3. i # 0
  BY ReplaySteps
<1>4. i - 1 \in Nat /\ i - 1 <= n /\ i - 1 <= m /\ i \in 1 .. n /\ i \in 1 .. m /\ i - 1 < i
  BY <1>3
<1>5. g[i - 1] = h[i - 1]
  <2>1. i - 1 \notin S
    BY <1>2, <1>4
  <2> QED
    BY <1>4, <2>1
<1>6. g[i] = AfterBatch(g[i - 1], rows[i].ops) /\ h[i] = AfterBatch(h[i - 1], rows[i].ops)
  BY <1>4, ReplaySteps
<1> QED
  BY <1>5, <1>6

LEMMA ReplaysExist ==
    ASSUME NEW rows
    PROVE  \A n \in Nat : \E g : Replays(rows, g, n)
<1> DEFINE S == {n \in Nat : ~ \E g : Replays(rows, g, n)}
<1>1. SUFFICES ASSUME S # {} PROVE FALSE
  OBVIOUS
<1>2. PICK n \in S : \A j \in S : n <= j
  BY <1>1, LeastNumber
<1>3. CASE n = 0
  <2> DEFINE g == [i \in {0} |-> EmptyCanvas]
  <2>1. Replays(rows, g, 0)
    <3>1. 0 .. 0 = {0}
      OBVIOUS
    <3>2. [i \in {0} |-> IF i = 0 THEN EmptyCanvas ELSE AfterBatch(g[i - 1], rows[i].ops)] = g
      OBVIOUS
    <3> QED
      BY <3>1, <3>2 DEF Replays
  <2> QED
    BY <1>3, <2>1
<1>4. CASE n # 0
  <2>1. n - 1 \in Nat /\ n - 1 < n
    BY <1>4
  <2>2. PICK g : Replays(rows, g, n - 1)
    BY <1>2, <2>1
  <2> DEFINE last == AfterBatch(g[n - 1], rows[n].ops)
             h == [i \in 0 .. n |-> IF i = n THEN last ELSE g[i]]
  <2>3. \A i \in 0 .. n : h[i] = IF i = n THEN last ELSE g[i]
    OBVIOUS
  <2>4. h[0] = EmptyCanvas
    BY <1>4, <2>1, <2>2, <2>3, ReplaySteps
  <2>5. ASSUME NEW i \in 1 .. n
        PROVE  h[i] = AfterBatch(h[i - 1], rows[i].ops)
    <3>1. i - 1 \in 0 .. n /\ i - 1 # n /\ i \in 0 .. n
      OBVIOUS
    <3>2. h[i - 1] = g[i - 1]
      BY <2>3, <3>1
    <3>3. CASE i = n
      BY <2>3, <3>1, <3>2, <3>3
    <3>4. CASE i # n
      <4>1. i \in 1 .. n - 1
        BY <3>4
      <4>2. g[i] = AfterBatch(g[i - 1], rows[i].ops)
        BY <2>1, <2>2, <4>1, ReplaySteps
      <4> QED
        BY <2>3, <3>1, <3>2, <3>4, <4>2
    <3> QED
      BY <3>3, <3>4
  <2>6. h = [i \in 0 .. n |-> h[i]]
    OBVIOUS
  <2> HIDE DEF h
  <2>7. [i \in 0 .. n |-> h[i]] = [i \in 0 .. n |-> IF i = 0 THEN EmptyCanvas ELSE AfterBatch(h[i - 1], rows[i].ops)]
    <3>1. \A i \in 0 .. n : i # 0 => i \in 1 .. n
      OBVIOUS
    <3>2. \A i \in 0 .. n : h[i] = IF i = 0 THEN EmptyCanvas ELSE AfterBatch(h[i - 1], rows[i].ops)
      BY <2>4, <2>5, <3>1
    <3> QED
      BY <3>2
  <2>8. Replays(rows, h, n)
    BY <2>6, <2>7 DEF Replays
  <2> QED
    BY <2>8
<1> QED
  BY <1>3, <1>4

\* The definition of Replay defines it.
LEMMA ReplayIsSteps ==
    ASSUME NEW rows
    PROVE  /\ Replay(rows)[0] = EmptyCanvas
           /\ \A n \in Nat \ {0} : Replay(rows)[n] = AfterBatch(Replay(rows)[n - 1], rows[n].ops)
<1> DEFINE Run(n) == CHOOSE g : Replays(rows, g, n)
           F == [n \in Nat |-> Run(n)[n]]
           Step(f, n) == IF n = 0 THEN EmptyCanvas ELSE AfterBatch(f[n - 1], rows[n].ops)
<1>1. \A n \in Nat : Replays(rows, Run(n), n)
  BY ReplaysExist
<1> HIDE DEF Run
<1>2. ASSUME NEW n \in Nat
      PROVE  F[n] = Step(F, n)
  <2>1. F[n] = Run(n)[n]
    OBVIOUS
  <2>2. CASE n = 0
    BY <1>1, <2>1, <2>2, ReplaySteps
  <2>3. CASE n # 0
    <3>1. n - 1 \in Nat /\ n \in 1 .. n /\ n - 1 <= n /\ n - 1 <= n - 1
      BY <2>3
    <3>2. Run(n)[n] = AfterBatch(Run(n)[n - 1], rows[n].ops)
      BY <1>1, <3>1, ReplaySteps
    <3>3. Run(n)[n - 1] = Run(n - 1)[n - 1]
      BY <1>1, <3>1, ReplaysAgree
    <3>4. F[n - 1] = Run(n - 1)[n - 1]
      BY <3>1
    <3> QED
      BY <2>1, <2>3, <3>2, <3>3, <3>4
  <2> QED
    BY <2>2, <2>3
<1>3. F = [n \in Nat |-> F[n]]
  OBVIOUS
<1> HIDE DEF F
<1>4. F = [n \in Nat |-> Step(F, n)]
  BY <1>2, <1>3
<1>5. \E f : f = [n \in Nat |-> Step(f, n)]
  BY <1>4
<1> DEFINE G == CHOOSE f : f = [n \in Nat |-> Step(f, n)]
<1>6. G = [n \in Nat |-> Step(G, n)]
  BY <1>5
<1>7. Replay(rows) = G
  BY DEF Replay
<1> HIDE DEF G
<1>8. \A n \in Nat : G[n] = Step(G, n)
  BY <1>6
<1> QED
  BY <1>7, <1>8

-----------------------------------------------------------------------------
(* Canvases that differ in the lists of results only *)

IsCard(x) ==
    x = [text |-> x.text, params |-> x.params, versions |-> x.versions, asset |-> x.asset,
         history |-> x.history, place |-> x.place, auto |-> x.auto]

IsCanvas(cv) ==
    /\ cv = [cards |-> cv.cards, zoom |-> cv.zoom]
    /\ cv.cards = [c \in DOMAIN cv.cards |-> cv.cards[c]]
    /\ \A c \in DOMAIN cv.cards : IsCard(cv.cards[c])

Alike(x, y) ==
    /\ x.text = y.text /\ x.params = y.params /\ x.versions = y.versions
    /\ x.asset = y.asset /\ x.place = y.place /\ x.auto = y.auto

Twins(a, b) ==
    /\ a.zoom = b.zoom
    /\ DOMAIN a.cards = DOMAIN b.cards
    /\ \A c \in DOMAIN a.cards : Alike(a.cards[c], b.cards[c])

Paired(a, b) == IsCanvas(a) /\ IsCanvas(b) /\ Twins(a, b)

LEMMA TwinsAreEqual ==
    ASSUME NEW a, NEW b, Paired(a, b)
    PROVE  WithoutHistory(a) = WithoutHistory(b)
<1> DEFINE Bare(x) == [x EXCEPT !.history = <<>>]
<1>1. ASSUME NEW c \in DOMAIN a.cards
      PROVE  Bare(a.cards[c]) = Bare(b.cards[c])
  <2> DEFINE x == a.cards[c]
             y == b.cards[c]
  <2>1. IsCard(x) /\ IsCard(y) /\ Alike(x, y)
    BY DEF Paired, IsCanvas, Twins
  <2> HIDE DEF x, y
  <2>2. ASSUME NEW z, IsCard(z)
        PROVE  Bare(z) = [text |-> z.text, params |-> z.params, versions |-> z.versions, asset |-> z.asset,
                          history |-> <<>>, place |-> z.place, auto |-> z.auto]
    BY <2>2 DEF IsCard
  <2>3. Bare(x) = Bare(y)
    BY <2>1, <2>2 DEF Alike
  <2> QED
    BY <2>3 DEF x, y
<1> HIDE DEF Bare
<1> DEFINE A == [c \in DOMAIN a.cards |-> Bare(a.cards[c])]
           B == [c \in DOMAIN b.cards |-> Bare(b.cards[c])]
<1>2. A = B
  BY <1>1 DEF Paired, Twins
<1>3. WithoutHistory(a) = [a EXCEPT !.cards = A] /\ WithoutHistory(b) = [b EXCEPT !.cards = B]
  BY DEF WithoutHistory, Bare
<1> HIDE DEF A, B
<1>4. ASSUME NEW cv, IsCanvas(cv), NEW C
      PROVE  [cv EXCEPT !.cards = C] = [cards |-> C, zoom |-> cv.zoom]
  BY <1>4 DEF IsCanvas
<1>5. IsCanvas(a) /\ IsCanvas(b) /\ a.zoom = b.zoom
  BY DEF Paired, Twins
<1>6. [a EXCEPT !.cards = A] = [cards |-> A, zoom |-> a.zoom]
  BY <1>4, <1>5
<1>7. [b EXCEPT !.cards = B] = [cards |-> B, zoom |-> b.zoom]
  BY <1>4, <1>5
<1> QED
  BY <1>2, <1>3, <1>5, <1>6, <1>7

\* Putting a card, taking one away.
LEMMA PutTwins ==
    ASSUME NEW a, NEW b, Paired(a, b), NEW c, NEW x, NEW y, IsCard(x), IsCard(y), Alike(x, y)
    PROVE  Paired(PutCard(a, c, x), PutCard(b, c, y))
<1>1. ASSUME NEW cv, IsCanvas(cv), NEW z, IsCard(z)
      PROVE  /\ PutCard(cv, c, z).zoom = cv.zoom
             /\ DOMAIN PutCard(cv, c, z).cards = DOMAIN cv.cards \cup {c}
             /\ \A d \in DOMAIN cv.cards \cup {c} : PutCard(cv, c, z).cards[d] = IF d = c THEN z ELSE cv.cards[d]
             /\ IsCanvas(PutCard(cv, c, z))
  <2> DEFINE C == [d \in DOMAIN cv.cards \cup {c} |-> IF d = c THEN z ELSE cv.cards[d]]
  <2>1. PutCard(cv, c, z) = [cv EXCEPT !.cards = C]
    BY DEF PutCard
  <2>2. /\ DOMAIN C = DOMAIN cv.cards \cup {c} /\ C = [d \in DOMAIN C |-> C[d]]
        /\ \A d \in DOMAIN cv.cards \cup {c} : C[d] = IF d = c THEN z ELSE cv.cards[d]
    OBVIOUS
  <2> HIDE DEF C
  <2>3. PutCard(cv, c, z) = [cards |-> C, zoom |-> cv.zoom]
    BY <1>1, <2>1 DEF IsCanvas
  <2>4. \A d \in DOMAIN C : IsCard(C[d])
    BY <1>1, <2>2 DEF IsCanvas
  <2> QED
    BY <2>2, <2>3, <2>4 DEF IsCanvas
<1>2. IsCanvas(a) /\ IsCanvas(b) /\ Twins(a, b)
  BY DEF Paired
<1>3. /\ PutCard(a, c, x).zoom = a.zoom
      /\ DOMAIN PutCard(a, c, x).cards = DOMAIN a.cards \cup {c}
      /\ \A d \in DOMAIN a.cards \cup {c} : PutCard(a, c, x).cards[d] = IF d = c THEN x ELSE a.cards[d]
      /\ IsCanvas(PutCard(a, c, x))
  BY <1>1, <1>2
<1>4. /\ PutCard(b, c, y).zoom = b.zoom
      /\ DOMAIN PutCard(b, c, y).cards = DOMAIN b.cards \cup {c}
      /\ \A d \in DOMAIN b.cards \cup {c} : PutCard(b, c, y).cards[d] = IF d = c THEN y ELSE b.cards[d]
      /\ IsCanvas(PutCard(b, c, y))
  BY <1>1, <1>2
<1>5. \A d \in DOMAIN a.cards \cup {c} : Alike(PutCard(a, c, x).cards[d], PutCard(b, c, y).cards[d])
  BY <1>2, <1>3, <1>4 DEF Twins
<1>6. Twins(PutCard(a, c, x), PutCard(b, c, y))
  BY <1>2, <1>3, <1>4, <1>5 DEF Twins
<1> QED
  BY <1>3, <1>4, <1>6 DEF Paired

LEMMA DropTwins ==
    ASSUME NEW a, NEW b, Paired(a, b), NEW c
    PROVE  Paired([a EXCEPT !.cards = [d \in DOMAIN @ \ {c} |-> @[d]]],
                  [b EXCEPT !.cards = [d \in DOMAIN @ \ {c} |-> @[d]]])
<1> DEFINE Rest(cv) == [d \in DOMAIN cv.cards \ {c} |-> cv.cards[d]]
           Drop(cv) == [cv EXCEPT !.cards = Rest(cv)]
<1>1. ASSUME NEW cv, IsCanvas(cv)
      PROVE  /\ Drop(cv).zoom = cv.zoom
             /\ DOMAIN Drop(cv).cards = DOMAIN cv.cards \ {c}
             /\ \A d \in DOMAIN cv.cards \ {c} : Drop(cv).cards[d] = cv.cards[d]
             /\ IsCanvas(Drop(cv))
  <2>1. /\ DOMAIN Rest(cv) = DOMAIN cv.cards \ {c} /\ Rest(cv) = [d \in DOMAIN Rest(cv) |-> Rest(cv)[d]]
        /\ \A d \in DOMAIN cv.cards \ {c} : Rest(cv)[d] = cv.cards[d]
    OBVIOUS
  <2> HIDE DEF Rest
  <2>2. Drop(cv) = [cards |-> Rest(cv), zoom |-> cv.zoom]
    BY <1>1 DEF IsCanvas
  <2> HIDE DEF Drop
  <2> QED
    BY <1>1, <2>1, <2>2 DEF IsCanvas
<1>2. Paired(Drop(a), Drop(b))
  <2> HIDE DEF Drop, Rest
  <2> QED
    BY <1>1 DEF Paired, Twins
<1> QED
  BY <1>2

LEMMA ZoomTwins ==
    ASSUME NEW a, NEW b, Paired(a, b), NEW k
    PROVE  Paired([a EXCEPT !.zoom = k], [b EXCEPT !.zoom = k])
<1>1. ASSUME NEW cv, IsCanvas(cv)
      PROVE  [cv EXCEPT !.zoom = k] = [cards |-> cv.cards, zoom |-> k]
  BY <1>1 DEF IsCanvas
<1>2. [a EXCEPT !.zoom = k] = [cards |-> a.cards, zoom |-> k] /\ [b EXCEPT !.zoom = k] = [cards |-> b.cards, zoom |-> k]
  BY <1>1 DEF Paired
<1>3. Paired([cards |-> a.cards, zoom |-> k], [cards |-> b.cards, zoom |-> k])
  BY DEF Paired, Twins, IsCanvas
<1> QED
  BY <1>2, <1>3

\* Cards that are alike stay alike.
LEMMA PatchedTwins ==
    ASSUME NEW kind, NEW patch, NEW x, NEW y, Alike(x, y)
    PROVE  /\ IsCard(Patched(kind, x, patch)) /\ IsCard(Patched(kind, y, patch))
           /\ Alike(Patched(kind, x, patch), Patched(kind, y, patch))
<1>1. VersionsAfter(kind, x, patch) = VersionsAfter(kind, y, patch)
  BY DEF Alike, VersionsAfter
<1> QED
  BY <1>1 DEF Patched, Alike, IsCard

LEMMA MovedCard ==
    ASSUME NEW text, NEW params, NEW versions, NEW asset, NEW history, NEW old, NEW auto, NEW place
    PROVE  Moved([text |-> text, params |-> params, versions |-> versions, asset |-> asset,
                  history |-> history, place |-> old, auto |-> auto], place)
           = [text |-> text, params |-> params, versions |-> versions, asset |-> asset,
              history |-> history, place |-> place, auto |-> FALSE]
<1> DEFINE before == [text |-> text, params |-> params, versions |-> versions, asset |-> asset,
                      history |-> history, place |-> old, auto |-> auto]
           between == [text |-> text, params |-> params, versions |-> versions, asset |-> asset,
                       history |-> history, place |-> place, auto |-> auto]
<1>1. ASSUME NEW z
      PROVE  Moved(z, place) = [[z EXCEPT !.place = place] EXCEPT !.auto = FALSE]
  BY SMT DEF Moved
<1>2. [before EXCEPT !.place = place] = between
  BY SMT
<1>3. ASSUME NEW new
      PROVE  [between EXCEPT !.auto = new]
             = [text |-> text, params |-> params, versions |-> versions, asset |-> asset,
                history |-> history, place |-> place, auto |-> new]
  BY SMT
<1>4. Moved(before, place) = [between EXCEPT !.auto = FALSE]
  <2> HIDE DEF before, between
  <2> QED
    BY <1>1, <1>2
<1>5. [between EXCEPT !.auto = FALSE]
      = [text |-> text, params |-> params, versions |-> versions, asset |-> asset,
         history |-> history, place |-> place, auto |-> FALSE]
  BY <1>3, Zenon
<1> QED
  BY <1>4, <1>5

LEMMA MovedTwins ==
    ASSUME NEW place, NEW x, NEW y, IsCard(x), IsCard(y), Alike(x, y)
    PROVE  /\ IsCard(Moved(x, place)) /\ IsCard(Moved(y, place))
           /\ Alike(Moved(x, place), Moved(y, place))
<1> DEFINE Full(z) == [text |-> z.text, params |-> z.params, versions |-> z.versions, asset |-> z.asset,
                       history |-> z.history, place |-> z.place, auto |-> z.auto]
           At(z) == [text |-> z.text, params |-> z.params, versions |-> z.versions, asset |-> z.asset,
                     history |-> z.history, place |-> place, auto |-> FALSE]
<1>2. ASSUME NEW z, IsCard(z)
      PROVE  Moved(z, place) = At(z)
  <2>1. z = Full(z)
    BY <1>2 DEF IsCard
  <2>2. Moved(Full(z), place) = At(z)
    BY MovedCard
  <2> HIDE DEF Full, At
  <2> QED
    BY <2>1, <2>2
<1>3. IsCard(At(x)) /\ IsCard(At(y)) /\ Alike(At(x), At(y))
  BY DEF Alike, IsCard
<1> HIDE DEF At
<1>4. Moved(x, place) = At(x)
  BY <1>2
<1>5. Moved(y, place) = At(y)
  BY <1>2
<1> QED
  BY <1>3, <1>4, <1>5

IsOp(op) ==
    /\ op.type \in {"card.create", "card.move", "card.update", "card.delete", "viewport.set"}
    /\ op.type = "card.create" => IsCard(op.value)

\* An operation that is allowed does the same to both.
LEMMA OpTwins ==
    ASSUME NEW a, NEW b, Paired(a, b), NEW op, IsOp(op), Allowed(a, op)
    PROVE  Paired(After(a, op), After(b, op))
<1>1. CASE op.type = "card.create"
  <2>1. After(a, op) = PutCard(a, op.id, op.value) /\ After(b, op) = PutCard(b, op.id, op.value)
    BY <1>1 DEF After
  <2>2. IsCard(op.value) /\ Alike(op.value, op.value)
    BY <1>1 DEF IsOp, Alike
  <2> QED
    BY <2>1, <2>2, PutTwins
<1>2. CASE op.type = "card.move"
  <2>1. /\ After(a, op) = PutCard(a, op.id, Moved(a.cards[op.id], op.value))
        /\ After(b, op) = PutCard(b, op.id, Moved(b.cards[op.id], op.value))
    BY <1>2 DEF After
  <2>2. op.id \in DOMAIN a.cards
    BY <1>2 DEF Allowed
  <2>3. IsCard(a.cards[op.id]) /\ IsCard(b.cards[op.id]) /\ Alike(a.cards[op.id], b.cards[op.id])
    BY <2>2 DEF Paired, IsCanvas, Twins
  <2> QED
    BY <2>1, <2>3, MovedTwins, PutTwins
<1>3. CASE op.type = "card.update" /\ DOMAIN op.value = {}
  BY <1>3 DEF After
<1>4. CASE op.type = "card.update" /\ DOMAIN op.value # {}
  <2>1. /\ After(a, op) = PutCard(a, op.id, Patched(KindOf[op.id], a.cards[op.id], op.value))
        /\ After(b, op) = PutCard(b, op.id, Patched(KindOf[op.id], b.cards[op.id], op.value))
    BY <1>4 DEF After
  <2>2. op.id \in DOMAIN a.cards
    BY <1>4 DEF Allowed
  <2>3. Alike(a.cards[op.id], b.cards[op.id])
    BY <2>2 DEF Paired, Twins
  <2> QED
    BY <2>1, <2>3, PatchedTwins, PutTwins
<1>5. CASE op.type = "card.delete"
  <2>1. /\ After(a, op) = [a EXCEPT !.cards = [d \in DOMAIN @ \ {op.id} |-> @[d]]]
        /\ After(b, op) = [b EXCEPT !.cards = [d \in DOMAIN @ \ {op.id} |-> @[d]]]
    BY <1>5 DEF After
  <2>2. Paired([a EXCEPT !.cards = [d \in DOMAIN @ \ {op.id} |-> @[d]]],
               [b EXCEPT !.cards = [d \in DOMAIN @ \ {op.id} |-> @[d]]])
    BY DropTwins
  <2> QED
    BY <2>1, <2>2
<1>6. CASE op.type = "viewport.set"
  <2>1. After(a, op) = [a EXCEPT !.zoom = op.value] /\ After(b, op) = [b EXCEPT !.zoom = op.value]
    BY <1>6 DEF After
  <2>2. Paired([a EXCEPT !.zoom = op.value], [b EXCEPT !.zoom = op.value])
    BY ZoomTwins
  <2> QED
    BY <2>1, <2>2
<1> QED
  BY <1>1, <1>2, <1>3, <1>4, <1>5, <1>6 DEF IsOp

\* So does a batch.
LEMMA BatchTwins ==
    ASSUME NEW a, NEW b, Paired(a, b), NEW ops, Len(ops) \in Nat,
           \A i \in 1 .. Len(ops) : IsOp(ops[i]), BatchAllowed(a, ops)
    PROVE  Paired(AfterBatch(a, ops), AfterBatch(b, ops))
<1> DEFINE f == AfterFirst(a, ops)
           g == AfterFirst(b, ops)
           S == {n \in Nat : n <= Len(ops) /\ ~Paired(f[n], g[n])}
<1>1. f[0] = a /\ g[0] = b
  BY AfterFirstSteps
<1>2. \A n \in Nat \ {0} : f[n] = After(f[n - 1], ops[n]) /\ g[n] = After(g[n - 1], ops[n])
  BY AfterFirstSteps
<1>3. \A n \in 1 .. Len(ops) : Allowed(f[n - 1], ops[n])
  BY DEF BatchAllowed
<1>4. AfterBatch(a, ops) = f[Len(ops)] /\ AfterBatch(b, ops) = g[Len(ops)]
  BY DEF AfterBatch
<1> HIDE DEF f, g
<1>5. S = {}
  <2>1. SUFFICES ASSUME S # {} PROVE FALSE
    OBVIOUS
  <2>2. PICK n \in S : \A m \in S : n <= m
    BY <2>1, LeastNumber
  <2>3. n # 0
    BY <1>1
  <2>4. n - 1 \in Nat /\ n - 1 < n /\ n - 1 <= Len(ops) /\ n \in 1 .. Len(ops) /\ n \in Nat \ {0}
    BY <2>3
  <2>5. Paired(f[n - 1], g[n - 1])
    <3>1. n - 1 \notin S
      BY <2>2, <2>4
    <3> QED
      BY <2>4, <3>1
  <2>6. Paired(After(f[n - 1], ops[n]), After(g[n - 1], ops[n]))
    BY <1>3, <2>4, <2>5, OpTwins
  <2> QED
    BY <1>2, <2>4, <2>6
<1>6. Len(ops) \notin S
  BY <1>5
<1> HIDE DEF S
<1>7. Paired(f[Len(ops)], g[Len(ops)])
  BY <1>6 DEF S
<1> QED
  BY <1>4, <1>7

-----------------------------------------------------------------------------
(* What the log is replayed to *)

\* A card that is created is a new one, and only the first operation of a batch creates any.
IsNew(op) == op.type = "card.create" => op.id \notin given /\ op.value.versions = <<>>

IsBatch(ops) ==
    /\ Len(ops) \in Nat /\ DOMAIN ops = 1 .. Len(ops)
    /\ \A i \in 1 .. Len(ops) :
          IsOp(ops[i]) /\ IsNew(ops[i]) /\ (ops[i].type = "card.create" => i = 1)

\* Rows that are appended do not change what the ones before them lead to.
LEMMA ReplayKept ==
    ASSUME NEW rows, NEW more, NEW n \in Nat, \A i \in 1 .. n : rows[i].ops = more[i].ops
    PROVE  Replay(rows)[n] = Replay(more)[n]
<1> DEFINE f == Replay(rows)
           g == Replay(more)
           S == {i \in Nat : i <= n /\ f[i] # g[i]}
<1>1. f[0] = EmptyCanvas /\ g[0] = EmptyCanvas
  BY ReplayIsSteps
<1>2. \A i \in Nat \ {0} : /\ f[i] = AfterBatch(f[i - 1], rows[i].ops)
                          /\ g[i] = AfterBatch(g[i - 1], more[i].ops)
  BY ReplayIsSteps
<1> HIDE DEF f, g
<1>3. S = {}
  <2>1. SUFFICES ASSUME S # {} PROVE FALSE
    OBVIOUS
  <2>2. PICK i \in S : \A m \in S : i <= m
    BY <2>1, LeastNumber
  <2>3. i # 0
    BY <1>1
  <2>4. i - 1 \in Nat /\ i - 1 < i /\ i - 1 <= n /\ i \in 1 .. n /\ i \in Nat \ {0}
    BY <2>3
  <2>5. f[i - 1] = g[i - 1]
    <3>1. i - 1 \notin S
      BY <2>2, <2>4
    <3> QED
      BY <2>4, <3>1
  <2>6. rows[i].ops = more[i].ops
    BY <2>4
  <2> QED
    BY <1>2, <2>4, <2>5, <2>6
<1>4. n \notin S
  BY <1>3
<1> HIDE DEF S
<1>5. f[n] = g[n]
  BY <1>4 DEF S
<1> QED
  BY <1>5 DEF f, g

LEMMA RowReplayed ==
    ASSUME IsLog, NEW by, NEW ops, log' = Append(log, [by |-> by, ops |-> ops])
    PROVE  Replayed' = AfterBatch(Replayed, ops)
<1>1. PICK S : log \in Seq(S)
  BY DEF IsLog
<1> DEFINE row == [by |-> by, ops |-> ops]
           T == S \cup {row}
           n == Len(log)
<1>2. log \in Seq(T) /\ row \in T /\ row.ops = ops
  BY <1>1
<1>3. log' = Append(log, row)
  OBVIOUS
<1> HIDE DEF row, T
<1>4. /\ n \in Nat /\ Len(log') = n + 1 /\ log'[n + 1] = row
      /\ \A i \in 1 .. n : log'[i] = log[i]
  BY <1>2, <1>3
<1>5. Replay(log')[n] = Replay(log)[n]
  <2>1. \A i \in 1 .. n : log'[i].ops = log[i].ops
    BY <1>4
  <2> HIDE DEF n
  <2> QED
    BY <1>4, <2>1, ReplayKept
<1>6. Replay(log')[n + 1] = AfterBatch(Replay(log')[n], log'[n + 1].ops)
  <2>1. n + 1 \in Nat \ {0} /\ (n + 1) - 1 = n
    BY <1>4
  <2>2. Replay(log')[n + 1] = AfterBatch(Replay(log')[(n + 1) - 1], log'[n + 1].ops)
    BY <2>1, ReplayIsSteps
  <2> QED
    BY <2>1, <2>2
<1>7. Replayed' = Replay(log')[n + 1] /\ Replayed = Replay(log)[n]
  BY <1>4 DEF Replayed
<1> HIDE DEF n
<1> QED
  BY <1>2, <1>4, <1>5, <1>6, <1>7

-----------------------------------------------------------------------------
(* The batches of the callers *)

LEMMA CreateIsOp ==
    ASSUME NEW c, c \notin given, NEW text, NEW params, NEW auto
    PROVE  IsOp(CreateOp(c, NewCard(text, params, auto))) /\ IsNew(CreateOp(c, NewCard(text, params, auto)))
BY DEF IsOp, IsNew, CreateOp, NewCard, IsCard

LEMMA UpdateIsOp ==
    ASSUME NEW c, NEW patch
    PROVE  /\ IsOp(UpdateOp(c, patch)) /\ IsNew(UpdateOp(c, patch))
           /\ UpdateOp(c, patch).type # "card.create"
BY DEF IsOp, IsNew, UpdateOp

LEMMA OneIsBatch == ASSUME NEW op, IsOp(op), IsNew(op) PROVE IsBatch(<<op>>)
BY DEF IsBatch

LEMMA TwoAreBatch ==
    ASSUME NEW op, NEW next, IsOp(op), IsNew(op), IsOp(next), IsNew(next), next.type # "card.create"
    PROVE  IsBatch(<<op, next>>)
<1>1. /\ Len(<<op, next>>) = 2 /\ DOMAIN <<op, next>> = 1 .. 2
      /\ <<op, next>>[1] = op /\ <<op, next>>[2] = next
  OBVIOUS
<1>2. \A i \in 1 .. 2 : i = 1 \/ i = 2
  OBVIOUS
<1> QED
  BY <1>1, <1>2 DEF IsBatch

LEMMA AnswersHoldOps ==
    ASSUME NEW step \in Steps, NEW c \in Cards, NEW ops \in Answers(step, c)
    PROVE  IsBatch(ops)
<1> DEFINE F(d, x, p) == <<CreateOp(d, NewCard(x, p, TRUE))>>
           G(d, p) == <<CreateOp(d, NewCard(EmptyText, p, TRUE))>>
           H(x) == <<UpdateOp(c, [text |-> x])>>
           I(p) == <<UpdateOp(c, [params |-> p])>>
           D(k) == {e \in FreshCards : KindOf[e] = k}
           P == Params \ {BadParams}
<1>1. Answers(step, c) =
         CASE step = "script" -> {F(d, x, p) : d \in D("script"), x \in Texts, p \in P}
           [] step = "storyboard" -> {G(d, p) : d \in D("shot"), p \in P}
           [] step = "refine" -> {H(x) : x \in Texts}
           [] step = "refine-shot" -> {I(p) : p \in P}
  BY DEF Answers
<1>2. ASSUME NEW d, d \notin given, NEW x, NEW p PROVE IsBatch(F(d, x, p))
  BY <1>2, CreateIsOp, OneIsBatch
<1>3. ASSUME NEW d, d \notin given, NEW p PROVE IsBatch(G(d, p))
  BY <1>3, CreateIsOp, OneIsBatch
<1>4. ASSUME NEW x PROVE IsBatch(H(x)) /\ IsBatch(I(x))
  BY UpdateIsOp, OneIsBatch
<1>9. \A k : \A d \in D(k) : d \notin given
  BY DEF FreshCards
<1> HIDE DEF F, G, H, I, D, P
<1>5. CASE step = "script"
  BY <1>1, <1>2, <1>5, <1>9
<1>6. CASE step = "storyboard"
  BY <1>1, <1>3, <1>6, <1>9
<1>7. CASE step = "refine"
  BY <1>1, <1>4, <1>7
<1>8. CASE step = "refine-shot"
  BY <1>1, <1>4, <1>8
<1> QED
  BY <1>5, <1>6, <1>7, <1>8 DEF Steps

LEMMA CreationsAreOps == ASSUME NEW op, op \in Creations PROVE IsOp(op) /\ IsNew(op)
<1> DEFINE F(c, p) == CreateOp(c, NewCard(EmptyText, p, FALSE))
<1>1. Creations = {F(c, p) : c \in FreshCards, p \in Params}
  BY DEF Creations
<1> HIDE DEF F
<1>2. PICK c \in FreshCards, p \in Params : op = F(c, p)
  BY <1>1
<1>3. c \notin given
  BY DEF FreshCards
<1>4. IsOp(F(c, p)) /\ IsNew(F(c, p))
  BY <1>3, CreateIsOp DEF F
<1> QED
  BY <1>2, <1>4

LEMMA EditsAreOps == ASSUME NEW op \in Edits PROVE IsOp(op) /\ IsNew(op)
<1>1. CASE op \in Updates
  <2>1. PICK c, p : op = UpdateOp(c, p)
    BY <1>1 DEF Updates
  <2> QED
    BY <2>1, UpdateIsOp
<1>2. CASE op \in Moves
  BY <1>2 DEF Moves, MoveOp, IsOp, IsNew
<1>3. CASE op \in Deletions
  BY <1>3 DEF Deletions, DeleteOp, IsOp, IsNew
<1>4. CASE op \in Zoomings
  BY <1>4 DEF Zoomings, ViewportOp, IsOp, IsNew
<1> QED
  BY <1>1, <1>2, <1>3, <1>4, CreationsAreOps DEF Edits

LEMMA BatchesHoldOps == ASSUME NEW ops \in Batches PROVE IsBatch(ops)
<1> DEFINE F(a, x) == <<a, UpdateOp(a.id, [text |-> x])>>
<1>1. ASSUME NEW a, NEW x, IsOp(a), IsNew(a) PROVE IsBatch(F(a, x))
  BY <1>1, UpdateIsOp, TwoAreBatch
<1>2. ops \in {<<a>> : a \in Edits} \cup {F(a, x) : a \in Creations, x \in Texts \ {EmptyText}}
  BY DEF Batches
<1> HIDE DEF F
<1>3. CASE ops \in {<<a>> : a \in Edits}
  <2>1. PICK a \in Edits : ops = <<a>>
    BY <1>3
  <2> QED
    BY <2>1, EditsAreOps, OneIsBatch
<1>4. CASE ops \in {F(a, x) : a \in Creations, x \in Texts \ {EmptyText}}
  <2>1. PICK a \in Creations, x \in Texts : ops = F(a, x)
    BY <1>4
  <2>2. IsOp(a) /\ IsNew(a)
    BY CreationsAreOps
  <2> QED
    BY <1>1, <2>1, <2>2
<1> QED
  BY <1>2, <1>3, <1>4

-----------------------------------------------------------------------------
(* The invariant: the tables and the replay are alike *)

TablesMatch == Paired(canvas, Replayed)

LEMMA BatchKeepsPair ==
    ASSUME IsLog, TablesMatch, NEW by, NEW ops, IsBatch(ops), BatchAllowed(canvas, ops), CommitBatch(by, ops)
    PROVE  TablesMatch'
<1>1. CASE ops = <<>>
  <2>1. canvas' = canvas /\ log' = log
    BY <1>1 DEF CommitBatch
  <2> QED
    BY <2>1 DEF TablesMatch, Replayed
<1>2. CASE ops # <<>>
  <2>1. canvas' = AfterBatch(canvas, ops) /\ log' = Append(log, [by |-> by, ops |-> ops])
    BY <1>2 DEF CommitBatch
  <2>2. Replayed' = AfterBatch(Replayed, ops)
    BY <2>1, RowReplayed
  <2>3. Paired(AfterBatch(canvas, ops), AfterBatch(Replayed, ops))
    BY BatchTwins DEF TablesMatch, IsBatch
  <2> QED
    BY <2>1, <2>2, <2>3 DEF TablesMatch
<1> QED
  BY <1>1, <1>2

\* What a result does to a card, and the operation that stands for it in the log.
LEMMA ResultCard ==
    ASSUME NEW text, NEW params, NEW versions, NEW old, NEW history, NEW place, NEW auto, NEW asset
    PROVE  WithResult([text |-> text, params |-> params, versions |-> versions, asset |-> old,
                       history |-> history, place |-> place, auto |-> auto], asset)
           = [text |-> text, params |-> params, versions |-> versions, asset |-> asset,
              history |-> Latest(Append(history, asset), MaxHistory), place |-> place, auto |-> auto]
<1> DEFINE before == [text |-> text, params |-> params, versions |-> versions, asset |-> old,
                      history |-> history, place |-> place, auto |-> auto]
           between == [text |-> text, params |-> params, versions |-> versions, asset |-> asset,
                       history |-> history, place |-> place, auto |-> auto]
<1>1. ASSUME NEW z
      PROVE  WithResult(z, asset)
             = [[z EXCEPT !.asset = asset] EXCEPT !.history = Latest(Append(z.history, asset), MaxHistory)]
  BY SMT DEF WithResult
<1>2. [before EXCEPT !.asset = asset] = between /\ before.history = history
  BY SMT
<1>3. ASSUME NEW new
      PROVE  [between EXCEPT !.history = new]
             = [text |-> text, params |-> params, versions |-> versions, asset |-> asset,
                history |-> new, place |-> place, auto |-> auto]
  BY SMT
<1>4. WithResult(before, asset) = [between EXCEPT !.history = Latest(Append(history, asset), MaxHistory)]
  <2> HIDE DEF before, between
  <2> QED
    BY <1>1, <1>2
<1>5. [between EXCEPT !.history = Latest(Append(history, asset), MaxHistory)]
      = [text |-> text, params |-> params, versions |-> versions, asset |-> asset,
         history |-> Latest(Append(history, asset), MaxHistory), place |-> place, auto |-> auto]
  BY <1>3, Zenon
<1> QED
  BY <1>4, <1>5

LEMMA ResultTwins ==
    ASSUME NEW x, NEW y, IsCard(x), Alike(x, y), NEW kind, NEW asset
    PROVE  /\ IsCard(WithResult(x, asset))
           /\ Alike(WithResult(x, asset), Patched(kind, y, [asset |-> asset]))
           /\ IsCard(Patched(kind, y, [asset |-> asset]))
<1> DEFINE Full(z) == [text |-> z.text, params |-> z.params, versions |-> z.versions, asset |-> z.asset,
                       history |-> z.history, place |-> z.place, auto |-> z.auto]
           At(z, h) == [text |-> z.text, params |-> z.params, versions |-> z.versions, asset |-> asset,
                        history |-> h, place |-> z.place, auto |-> z.auto]
           list == Latest(Append(x.history, asset), MaxHistory)
<1>1. WithResult(x, asset) = At(x, list)
  <2>1. x = Full(x)
    BY DEF IsCard
  <2>2. WithResult(Full(x), asset) = At(x, list)
    BY ResultCard
  <2> HIDE DEF Full, At, list
  <2> QED
    BY <2>1, <2>2
<1>2. Patched(kind, y, [asset |-> asset]) = At(y, y.history)
  BY DEF Patched, VersionsAfter
<1>3. ASSUME NEW h PROVE IsCard(At(x, h)) /\ IsCard(At(y, y.history)) /\ Alike(At(x, h), At(y, y.history))
  BY DEF Alike, IsCard
<1> HIDE DEF At, list
<1> QED
  BY <1>1, <1>2, <1>3

LEMMA ResultKeepsPair ==
    ASSUME IsLog, TablesMatch, NEW c \in DOMAIN canvas.cards, NEW asset, CommitResult(c, asset)
    PROVE  TablesMatch'
<1> DEFINE op == UpdateOp(c, [asset |-> asset])
           x == canvas.cards[c]
           y == Replayed.cards[c]
<1>1. canvas' = PutCard(canvas, c, WithResult(x, asset)) /\ log' = Append(log, [by |-> Executor, ops |-> <<op>>])
  BY DEF CommitResult
<1>2. Replayed' = AfterBatch(Replayed, <<op>>)
  BY <1>1, RowReplayed
<1>3. AfterBatch(Replayed, <<op>>) = After(Replayed, op)
  <2> HIDE DEF op
  <2>1. Len(<<op>>) = 1 /\ <<op>>[1] = op
    OBVIOUS
  <2>2. AfterFirst(Replayed, <<op>>)[1] = After(AfterFirst(Replayed, <<op>>)[1 - 1], <<op>>[1])
    BY AfterFirstSteps
  <2>3. AfterFirst(Replayed, <<op>>)[1 - 1] = Replayed
    BY AfterFirstSteps
  <2> QED
    BY <2>1, <2>2, <2>3 DEF AfterBatch
<1>4. After(Replayed, op) = PutCard(Replayed, c, Patched(KindOf[c], y, [asset |-> asset]))
  <2>1. op.type = "card.update" /\ op.id = c /\ op.value = [asset |-> asset]
    BY DEF UpdateOp
  <2>2. DOMAIN [asset |-> asset] # {}
    OBVIOUS
  <2> HIDE DEF op
  <2> QED
    BY <2>1, <2>2 DEF After
<1>5. IsCard(x) /\ Alike(x, y)
  BY DEF TablesMatch, Paired, IsCanvas, Twins
<1> HIDE DEF op, x, y
<1>6. Paired(PutCard(canvas, c, WithResult(x, asset)),
             PutCard(Replayed, c, Patched(KindOf[c], y, [asset |-> asset])))
  BY <1>5, ResultTwins, PutTwins DEF TablesMatch
<1> QED
  BY <1>1, <1>2, <1>3, <1>4, <1>6 DEF TablesMatch

LEMMA StartsMatched == Init => TablesMatch
<1> SUFFICES ASSUME Init PROVE TablesMatch
  OBVIOUS
<1>1. canvas = EmptyCanvas /\ Len(log) = 0
  BY DEF Init, CanvasInit
<1>2. Replayed = EmptyCanvas
  BY <1>1, ReplayIsSteps DEF Replayed
<1>3. Paired(EmptyCanvas, EmptyCanvas)
  BY DEF EmptyCanvas, Paired, IsCanvas, Twins
<1> QED
  BY <1>1, <1>2, <1>3 DEF TablesMatch

LEMMA MatchKept ==
    ASSUME Types, TablesMatch, Next
    PROVE  TablesMatch'
<1>l. IsLog
  BY DEF Types
<1>u. canvas' = canvas /\ log' = log => TablesMatch'
  BY DEF TablesMatch, Replayed
<1>1. ASSUME NEW h \in Handlers, Apply(h) PROVE TablesMatch'
  <2>1. PICK ops \in Answers(call[h].step, call[h].card) :
           IF Accepts(call[h].base, ops)
           THEN revision < MaxRevision /\ Goto(h, "apply", "charge") /\ CommitBatch(h, ops)
           ELSE Goto(h, "apply", "fail") /\ UNCHANGED <<canvas, revision, log, given>>
    BY <1>1 DEF Apply
  <2>2. CASE UNCHANGED <<canvas, log>>
    BY <1>u, <2>2
  <2>3. CASE Accepts(call[h].base, ops) /\ CommitBatch(h, ops)
    <3>1. call[h].step \in Steps /\ call[h].card \in Cards
      BY DEF Types, Calls
    <3>2. IsBatch(ops)
      BY <3>1, AnswersHoldOps
    <3> QED
      BY <1>l, <2>3, <3>2, BatchKeepsPair DEF Accepts
  <2> QED
    BY <2>1, <2>2, <2>3
<1>2. ASSUME NEW t \in Tabs, Patch(t) PROVE TablesMatch'
  <2>1. PICK ops \in Batches :
           IF Accepts(tab[t].patch.rev, ops)
           THEN /\ revision < MaxRevision
                /\ CommitBatch(t, ops)
                /\ SetPatch(t, "ok", RevisionAfter(ops))
           ELSE /\ SetPatch(t, "failed", 0)
                /\ UNCHANGED <<canvas, revision, log, given>>
    BY <1>2 DEF Patch
  <2>2. CASE UNCHANGED <<canvas, log>>
    BY <1>u, <2>2
  <2>3. CASE Accepts(tab[t].patch.rev, ops) /\ CommitBatch(t, ops)
    BY <1>l, <2>3, BatchesHoldOps, BatchKeepsPair DEF Accepts
  <2> QED
    BY <2>1, <2>2, <2>3
<1>3. ASSUME NEW c \in Cards, NEW a \in Assets, SetCardResult(c, a) PROVE TablesMatch'
  BY <1>l, <1>3, ResultKeepsPair DEF SetCardResult
<1>4. ASSUME NEW h \in Handlers, Ask(h) \/ Read(h) \/ Refuse(h) \/ CreateTask(h) \/ Hold(h) \/ HoldFails(h)
                \/ Unheld(h) \/ Invoke(h) \/ InvokeFails(h) \/ Charge(h) \/ Settle(h) \/ Fail(h)
                \/ Refund(h) \/ Tell(h) \/ Die(h) \/ Cancel(h) \/ CancelRefund(h)
      PROVE  canvas' = canvas /\ log' = log
  BY <1>4 DEF Ask, Read, Refuse, CreateTask, Hold, HoldFails, Unheld, Invoke, InvokeFails, Charge, Settle,
              Fail, Refund, Tell, Die, Cancel, CancelRefund, canvasVars
<1>5. ASSUME NEW t \in Tabs, Flush(t) \/ Lose(t) \/ Answered(t) \/ Invalidate(t) \/ Fetch(t)
                               \/ Arrive(t) \/ FetchFails(t)
      PROVE  canvas' = canvas /\ log' = log
  BY <1>5 DEF Flush, Lose, Answered, Invalidate, Fetch, Arrive, FetchFails
<1>6. ASSUME Trash \/ Restore PROVE canvas' = canvas /\ log' = log
  BY <1>6 DEF Trash, Restore
<1> QED
  BY <1>u, <1>1, <1>2, <1>3, <1>4, <1>5, <1>6 DEF Next, ChatNext, CanvasNext

\* The rows of canvas_ops, from an empty canvas, lead to what the tables hold, one row for each
\* revision, whoever has written them (ApplyOps, SetCardResult).
THEOREM LogRebuildsCanvas == Spec => []ReplayRebuilds
<1>1. Init => TablesMatch
  BY StartsMatched
<1>2. Types /\ TablesMatch /\ [Next]_vars => TablesMatch'
  <2>1. ASSUME TablesMatch, UNCHANGED vars PROVE TablesMatch'
    BY <2>1 DEF vars, TablesMatch, Replayed
  <2> QED
    BY <2>1, MatchKept
<1>3. Types /\ TablesMatch => ReplayRebuilds
  <2>1. ASSUME TablesMatch PROVE WithoutHistory(Replayed) = WithoutHistory(canvas)
    BY <2>1, TwinsAreEqual DEF TablesMatch
  <2> QED
    BY <2>1 DEF Types, IsLog, ReplayRebuilds
<1>4. Spec => []Types
  BY BillsAlways, PTL
<1> QED
  BY <1>1, <1>2, <1>3, <1>4, PTL DEF Spec

-----------------------------------------------------------------------------
(* The texts of a card *)

\* The same list of versions, element by element.
LEMMA EarlierIs ==
    ASSUME NEW T, NEW texts \in Seq(T), Len(texts) > 0
    PROVE  LET n == Len(texts)
               m == IF n - 1 <= MaxVersions THEN n - 1 ELSE MaxVersions
           IN  Earlier(texts) = [k \in 1 .. m |-> [rev |-> n - 1 - m + k, text |-> texts[n - 1 - m + k]]]
<1> DEFINE n == Len(texts)
           m == IF n - 1 <= MaxVersions THEN n - 1 ELSE MaxVersions
           first == SubSeq(texts, 1, n - 1)
           old == Latest(first, MaxVersions)
<1>1. MaxVersions \in Nat /\ MaxVersions > 0
  BY CanvasOpsAssumption
<1>2. n \in Nat /\ n > 0
  OBVIOUS
<1>3. first \in Seq(T) /\ Len(first) = n - 1 /\ \A i \in 1 .. n - 1 : first[i] = texts[i]
  <2>1. n - 1 \in Int /\ 1 \in Int /\ n - 1 - 1 + 1 = n - 1
    BY <1>2
  <2>2. \A i \in 1 .. n - 1 : texts[i] \in T
    OBVIOUS
  <2> HIDE DEF n
  <2>3. /\ first \in Seq(T)
        /\ Len(first) = IF 1 <= n - 1 THEN n - 1 - 1 + 1 ELSE 0
        /\ \A i \in 1 .. n - 1 - 1 + 1 : first[i] = texts[1 + i - 1]
    BY <2>1, <2>2, SubSeqProperties
  <2>4. \A i \in 1 .. n - 1 : 1 + i - 1 = i
    OBVIOUS
  <2>5. ~ (1 <= n - 1) => n - 1 = 0
    BY <1>2
  <2> QED
    BY <2>1, <2>3, <2>4, <2>5
<1> HIDE DEF n, first
<1>4. DOMAIN old = 1 .. m /\ Len(old) = m /\ \A k \in 1 .. m : old[k] = texts[n - 1 - m + k]
  <2>1. CASE n - 1 <= MaxVersions
    <3>1. old = first /\ m = n - 1
      BY <1>1, <1>2, <1>3, <2>1 DEF Latest
    <3>2. \A k \in 1 .. n - 1 : n - 1 - (n - 1) + k = k
      BY <1>2
    <3> QED
      BY <1>2, <1>3, <3>1, <3>2
  <2>2. CASE ~ (n - 1 <= MaxVersions)
    <3>1. old = SubSeq(first, n - 1 - MaxVersions + 1, n - 1) /\ m = MaxVersions
      BY <1>1, <1>2, <1>3, <2>2 DEF Latest
    <3>2. n - 1 - MaxVersions + 1 \in 1 .. n - 1
      BY <1>1, <1>2, <2>2
    <3>3. /\ Len(old) = MaxVersions /\ DOMAIN old = 1 .. MaxVersions
          /\ \A k \in 1 .. MaxVersions : old[k] = first[n - 1 - MaxVersions + k]
      BY <1>1, <1>2, <1>3, <2>2, <3>1, <3>2
    <3>4. \A k \in 1 .. MaxVersions : n - 1 - MaxVersions + k \in 1 .. n - 1
      BY <1>1, <1>2, <2>2
    <3> QED
      BY <1>3, <3>1, <3>3, <3>4
  <2> QED
    BY <2>1, <2>2
<1>5. Earlier(texts) = [k \in DOMAIN old |-> [rev |-> n - 1 - Len(old) + k, text |-> old[k]]]
  BY DEF Earlier, n, first
<1> HIDE DEF old, m
<1>6. Earlier(texts) = [k \in 1 .. m |-> [rev |-> n - 1 - m + k, text |-> texts[n - 1 - m + k]]]
  BY <1>4, <1>5
<1> QED
  BY <1>6 DEF n, m

\* One text more, one version more, and the oldest goes when there are too many.
LEMMA VersionAppended ==
    ASSUME NEW T, NEW texts \in Seq(T), Len(texts) > 0, NEW x \in T
    PROVE  AppendVersion(Earlier(texts), texts[Len(texts)]) = Earlier(Append(texts, x))
<1> DEFINE n == Len(texts)
           N == MaxVersions
           m == IF n - 1 <= N THEN n - 1 ELSE N
           p == IF n <= N THEN n ELSE N
           v(k) == [rev |-> k, text |-> texts[k]]
           now == [k \in 1 .. m |-> v(n - 1 - m + k)]
           new == v(n)
           all == Append(now, new)
<1>1. N \in Nat /\ N > 0
  BY CanvasOpsAssumption
<1>2. n \in Nat /\ n > 0 /\ m \in Nat /\ m <= n - 1 /\ p \in Nat
  BY <1>1
<1>3. Earlier(texts) = now
  BY EarlierIs
<1>4. Earlier(Append(texts, x)) = [k \in 1 .. p |-> v(n - p + k)]
  <2> DEFINE more == Append(texts, x)
  <2>1. more \in Seq(T) /\ Len(more) = n + 1 /\ \A k \in 1 .. n : more[k] = texts[k]
    OBVIOUS
  <2>2. Earlier(more) = [k \in 1 .. p |-> [rev |-> n - p + k, text |-> more[n - p + k]]]
    <3> HIDE DEF more
    <3>1. n + 1 - 1 = n
      BY <1>2
    <3> QED
      BY <1>2, <2>1, <3>1, EarlierIs
  <2>3. \A k \in 1 .. p : n - p + k \in 1 .. n
    BY <1>1, <1>2
  <2> HIDE DEF more, p, n
  <2>4. \A k \in 1 .. p : [rev |-> n - p + k, text |-> more[n - p + k]] = v(n - p + k)
    BY <2>1, <2>3
  <2> QED
    BY <2>2, <2>4 DEF more
<1>5. /\ now \in Seq({v(k) : k \in Nat}) /\ Len(now) = m
      /\ \A k \in 1 .. m : now[k] = v(n - 1 - m + k)
  <2> HIDE DEF v, m, n
  <2> DEFINE w(k) == v(n - 1 - m + k)
             V == {v(k) : k \in Nat}
  <2>1. \A k \in 1 .. m : n - 1 - m + k \in Nat
    BY <1>2
  <2>2. \A k \in 1 .. m : w(k) \in V
    BY <2>1
  <2>3. now = [k \in 1 .. m |-> w(k)]
    OBVIOUS
  <2> HIDE DEF V, w, now
  <2>4. now \in Seq(V) /\ Len(now) = m /\ \A k \in 1 .. m : now[k] = w(k)
    BY <1>2, <2>2, <2>3
  <2> QED
    BY <2>4 DEF V, w
<1>6. AppendVersion(now, texts[n]) = Latest(all, N)
  <2>1. CASE now = <<>>
    <3>1. m = 0
      BY <1>5, <2>1
    <3>2. n = 1
      BY <1>1, <1>2, <3>1
    <3> HIDE DEF now, n
    <3> QED
      BY <2>1, <3>2 DEF AppendVersion
  <2>2. CASE now # <<>>
    <3>1. m # 0
      BY <1>5, <2>2
    <3>2. m \in 1 .. m /\ n - 1 - m + m = n - 1
      <4> HIDE DEF n, m
      <4> QED
        BY <1>2, <3>1
    <3>3. now[m].rev = n - 1
      BY <1>5, <3>2
    <3> HIDE DEF now, n, m
    <3>4. n - 1 + 1 = n
      BY <1>2
    <3> QED
      BY <1>5, <2>2, <3>3, <3>4 DEF AppendVersion
  <2> QED
    BY <2>1, <2>2
<1>7. /\ all \in Seq({v(k) : k \in Nat}) /\ Len(all) = m + 1
      /\ \A k \in 1 .. m + 1 : all[k] = v(n - 1 - m + k)
  <2> HIDE DEF now, v, n, m
  <2>1. new \in {v(k) : k \in Nat}
    BY <1>2
  <2>2. n - 1 - m + (m + 1) = n
    BY <1>2
  <2>3. /\ all \in Seq({v(k) : k \in Nat}) /\ Len(all) = m + 1
        /\ \A k \in 1 .. m : all[k] = now[k]
        /\ all[m + 1] = new
    BY <1>2, <1>5, <2>1
  <2>4. \A k \in 1 .. m + 1 : k \in 1 .. m \/ k = m + 1
    BY <1>2
  <2> QED
    BY <1>5, <2>2, <2>3, <2>4
<1> HIDE DEF all, v, now
<1>8. Latest(all, N) = [k \in 1 .. p |-> v(n - p + k)]
  <2>1. CASE m + 1 <= N
    <3>1. m = n - 1 /\ p = m + 1
      BY <1>1, <1>2, <2>1
    <3>2. Latest(all, N) = all
      BY <1>7, <2>1 DEF Latest
    <3>3. all = [k \in 1 .. m + 1 |-> all[k]]
      BY <1>2, <1>7
    <3>4. \A k \in 1 .. m + 1 : n - 1 - m + k = n - p + k
      BY <1>2, <3>1
    <3> HIDE DEF n, m, p
    <3> QED
      BY <1>7, <3>1, <3>2, <3>3, <3>4
  <2>2. CASE ~ (m + 1 <= N)
    <3>1. m = N /\ p = N
      BY <1>1, <1>2, <2>2
    <3>2. Latest(all, N) = SubSeq(all, 2, N + 1)
      <4>1. Len(all) = N + 1 /\ Len(all) - N + 1 = 2 /\ ~ (Len(all) <= N)
        BY <1>1, <1>7, <3>1
      <4>2. Latest(all, N) = IF Len(all) <= N THEN all ELSE SubSeq(all, Len(all) - N + 1, Len(all))
        BY DEF Latest
      <4> HIDE DEF n, m, p, N
      <4>3. Latest(all, N) = SubSeq(all, Len(all) - N + 1, Len(all))
        BY <4>1, <4>2, Zenon
      <4> QED
        BY <4>1, <4>3
    <3>3. SubSeq(all, 2, N + 1) = [k \in 1 .. N |-> all[k + 1]]
      <4> HIDE DEF n, m, p
      <4> QED
        BY <1>1, <1>7, <3>1
    <3>4. \A k \in 1 .. N : k + 1 \in 1 .. m + 1 /\ n - 1 - m + (k + 1) = n - p + k
      <4> HIDE DEF n, m, p, N
      <4> QED
        BY <1>1, <1>2, <3>1
    <3> HIDE DEF n, m, p
    <3>5. \A k \in 1 .. N : all[k + 1] = v(n - p + k)
      BY <1>7, <3>4
    <3> QED
      BY <3>1, <3>2, <3>3, <3>5
  <2> QED
    BY <2>1, <2>2
<1> QED
  BY <1>3, <1>4, <1>6, <1>8

\* Recursion that stays in a set X: from e, the n-th of K steps is F[n].
Leads(X, e, K, F, f) ==
    f \in [0 .. K -> X] /\ f[0] = e /\ \A n \in 1 .. K : f[n] = F[n][f[n - 1]]

LEMMA Recursion ==
    ASSUME NEW X, NEW e \in X, NEW K \in Nat, NEW F \in [1 .. K -> [X -> X]]
    PROVE  \E f : Leads(X, e, K, F, f)
<1> DEFINE S == {k \in Nat : k <= K /\ ~ \E f : Leads(X, e, k, F, f)}
<1>1. S = {}
  <2>1. SUFFICES ASSUME S # {} PROVE FALSE
    OBVIOUS
  <2>2. PICK k \in S : \A m \in S : k <= m
    BY <2>1, LeastNumber
  <2>3. k # 0
    <3>1. Leads(X, e, 0, F, [n \in 0 .. 0 |-> e])
      BY DEF Leads
    <3> QED
      BY <2>2, <3>1
  <2>4. k - 1 \in Nat /\ k - 1 < k /\ k - 1 <= K /\ k \in 1 .. K
    BY <2>3
  <2>5. PICK f : Leads(X, e, k - 1, F, f)
    <3>1. k - 1 \notin S
      <4> HIDE DEF S
      <4> QED
        BY <2>2, <2>4
    <3> QED
      BY <2>4, <3>1
  <2> DEFINE last == F[k][f[k - 1]]
             g == [n \in 0 .. k |-> IF n = k THEN last ELSE f[n]]
  <2>e. f \in [0 .. k - 1 -> X] /\ f[0] = e /\ \A n \in 1 .. k - 1 : f[n] = F[n][f[n - 1]]
    BY <2>5 DEF Leads
  <2>6. last \in X
    BY <2>4, <2>e
  <2>7. g \in [0 .. k -> X] /\ g[0] = e
    BY <2>3, <2>4, <2>e, <2>6
  <2>8. ASSUME NEW n \in 1 .. k PROVE g[n] = F[n][g[n - 1]]
    <3>1. g[n - 1] = f[n - 1]
      BY <2>4
    <3>2. CASE n = k
      BY <3>1, <3>2
    <3>3. CASE n # k
      <4>1. n \in 1 .. k - 1
        BY <2>4, <3>3
      <4> QED
        BY <2>e, <3>1, <3>3, <4>1
    <3> QED
      BY <3>2, <3>3
  <2>9. Leads(X, e, k, F, g)
    BY <2>7, <2>8 DEF Leads
  <2> QED
    BY <2>2, <2>9
<1>2. K \notin S
  BY <1>1
<1> HIDE DEF S
<1>3. \E f : Leads(X, e, K, F, f)
  BY <1>2 DEF S
<1> QED
  BY <1>3

LEMMA TextKeepsType ==
    ASSUME NEW T, NEW x \in Seq(T), NEW op, op.value.text \in T, NEW c
    PROVE  TextsAfter(x, op, c) \in Seq(T)
BY DEF TextsAfter

LEMMA TextSteps ==
    ASSUME NEW T, NEW texts \in Seq(T), NEW ops, Len(ops) \in Nat, NEW c,
           \A n \in 1 .. Len(ops) : ops[n].value.text \in T
    PROVE  LET f == TextsAfterFirst(texts, ops, c)
           IN  /\ f[0] = texts
               /\ \A n \in 1 .. Len(ops) : f[n] = TextsAfter(f[n - 1], ops[n], c)
               /\ \A n \in 0 .. Len(ops) : f[n] \in Seq(T)
<1> DEFINE K == Len(ops)
           X == Seq(T)
           Step(g, n) == IF n = 0 THEN texts ELSE TextsAfter(g[n - 1], ops[n], c)
           F == [n \in 1 .. K |-> [x \in X |-> TextsAfter(x, ops[n], c)]]
           f == CHOOSE g : g = [n \in 0 .. K |-> Step(g, n)]
<1>1. \A n \in 1 .. K, x \in X : F[n][x] = TextsAfter(x, ops[n], c) /\ TextsAfter(x, ops[n], c) \in X
  BY TextKeepsType
<1>f. F \in [1 .. K -> [X -> X]]
  <2> HIDE DEF X
  <2> QED
    BY <1>1
<1> HIDE DEF F
<1>2. PICK g \in [0 .. K -> X] : g[0] = texts /\ \A n \in 1 .. K : g[n] = F[n][g[n - 1]]
  <2> HIDE DEF X
  <2>1. texts \in X
    BY DEF X
  <2>2. K \in Nat
    OBVIOUS
  <2> HIDE DEF K
  <2>3. \E g : Leads(X, texts, K, F, g)
    BY <1>f, <2>1, <2>2, Recursion
  <2> QED
    BY <2>3 DEF Leads
<1> HIDE DEF X
<1>3. \A n \in 0 .. K : g[n] = Step(g, n)
  <2>1. ASSUME NEW n \in 0 .. K PROVE g[n] = Step(g, n)
    <3>1. CASE n = 0
      BY <1>2, <3>1
    <3>2. CASE n # 0
      <4>1. n \in 1 .. K /\ n - 1 \in 0 .. K
        BY <3>2
      <4>2. g[n - 1] \in X
        BY <1>2, <4>1
      <4> QED
        BY <1>1, <1>2, <3>2, <4>1, <4>2
    <3> QED
      BY <3>1, <3>2
  <2> QED
    BY <2>1
<1>4. g = [n \in 0 .. K |-> Step(g, n)]
  <2> HIDE DEF Step
  <2> QED
    BY <1>2, <1>3
<1>5. f = [n \in 0 .. K |-> Step(f, n)]
  BY <1>4
<1>6. TextsAfterFirst(texts, ops, c) = f
  BY DEF TextsAfterFirst
<1> HIDE DEF f
<1>7. f[0] = texts /\ \A n \in 1 .. K : f[n] = TextsAfter(f[n - 1], ops[n], c)
  <2>1. \A n \in 0 .. K : f[n] = Step(f, n)
    BY <1>5
  <2>2. 0 \in 0 .. K /\ \A n \in 1 .. K : n \in 0 .. K /\ n # 0
    OBVIOUS
  <2> QED
    BY <2>1, <2>2
<1>8. \A n \in 0 .. K : f[n] \in X
  <2> DEFINE S == {n \in Nat : n <= K /\ f[n] \notin X}
  <2>1. S = {}
    <3>1. SUFFICES ASSUME S # {} PROVE FALSE
      OBVIOUS
    <3>2. PICK n \in S : \A m \in S : n <= m
      BY <3>1, LeastNumber
    <3>3. n # 0
      BY <1>7 DEF X
    <3>4. n - 1 \in Nat /\ n - 1 <= K /\ n \in 1 .. K /\ ~ (n <= n - 1)
      BY <3>3
    <3>5. f[n - 1] \in X
      <4>1. n - 1 \notin S
        BY <3>2, <3>4
      <4> QED
        BY <3>4, <4>1
    <3> QED
      BY <1>1, <1>7, <3>4, <3>5
  <2> QED
    BY <2>1
<1> QED
  BY <1>6, <1>7, <1>8 DEF X

LEMMA RowSteps ==
    ASSUME NEW rows, NEW c, Len(rows) \in Nat, \A n \in 1 .. Len(rows) : Len(rows[n].ops) \in Nat
    PROVE  LET f == TextsOfFirst(rows, c)
           IN  /\ f[0] = <<>>
               /\ \A n \in 1 .. Len(rows) : f[n] = TextsAfterBatch(f[n - 1], rows[n].ops, c)
               /\ \E T : \A n \in 0 .. Len(rows) : f[n] \in Seq(T)
<1> DEFINE K == Len(rows)
           T == {rows[n].ops[j].value.text : n \in 1 .. K, j \in Nat}
           X == Seq(T)
           Step(g, n) == IF n = 0 THEN <<>> ELSE TextsAfterBatch(g[n - 1], rows[n].ops, c)
           F == [n \in 1 .. K |-> [x \in X |-> TextsAfterBatch(x, rows[n].ops, c)]]
           f == CHOOSE g : g = [n \in 0 .. K |-> Step(g, n)]
<1>0. \A n \in 1 .. K, x \in X : TextsAfterBatch(x, rows[n].ops, c) \in X
  <2>1. ASSUME NEW n \in 1 .. K, NEW x \in X PROVE TextsAfterBatch(x, rows[n].ops, c) \in X
    <3> DEFINE ops == rows[n].ops
    <3>1. Len(ops) \in Nat
      OBVIOUS
    <3>2. \A j \in 1 .. Len(ops) : ops[j].value.text \in T
      BY <3>1
    <3> HIDE DEF T, ops
    <3>3. Len(ops) \in 0 .. Len(ops)
      BY <3>1
    <3>4. TextsAfterFirst(x, ops, c)[Len(ops)] \in Seq(T)
      BY <3>1, <3>2, <3>3, TextSteps
    <3> QED
      BY <3>4 DEF TextsAfterBatch, ops
  <2> HIDE DEF X
  <2> QED
    BY <2>1
<1>1. \A n \in 1 .. K, x \in X : F[n][x] = TextsAfterBatch(x, rows[n].ops, c)
  <2> HIDE DEF X
  <2> QED
    OBVIOUS
<1>f. F \in [1 .. K -> [X -> X]]
  <2> HIDE DEF X
  <2> QED
    BY <1>0
<1>e. <<>> \in X
  OBVIOUS
<1> HIDE DEF F, X
<1>2. PICK g \in [0 .. K -> X] : g[0] = <<>> /\ \A n \in 1 .. K : g[n] = F[n][g[n - 1]]
  <2>1. K \in Nat
    OBVIOUS
  <2> HIDE DEF K
  <2>2. \E g : Leads(X, <<>>, K, F, g)
    BY <1>e, <1>f, <2>1, Recursion
  <2> QED
    BY <2>2 DEF Leads
<1>3. \A n \in 0 .. K : g[n] = Step(g, n)
  <2>1. ASSUME NEW n \in 0 .. K PROVE g[n] = Step(g, n)
    <3>1. CASE n = 0
      BY <1>2, <3>1
    <3>2. CASE n # 0
      <4>1. n \in 1 .. K /\ n - 1 \in 0 .. K
        BY <3>2
      <4>2. g[n - 1] \in X
        BY <1>2, <4>1
      <4> QED
        BY <1>1, <1>2, <3>2, <4>1, <4>2
    <3> QED
      BY <3>1, <3>2
  <2> QED
    BY <2>1
<1>4. g = [n \in 0 .. K |-> Step(g, n)]
  <2> HIDE DEF Step
  <2> QED
    BY <1>2, <1>3
<1>5. f = [n \in 0 .. K |-> Step(f, n)]
  BY <1>4
<1>6. TextsOfFirst(rows, c) = f
  BY DEF TextsOfFirst
<1> HIDE DEF f
<1>7. f[0] = <<>> /\ \A n \in 1 .. K : f[n] = TextsAfterBatch(f[n - 1], rows[n].ops, c)
  <2>1. \A n \in 0 .. K : f[n] = Step(f, n)
    BY <1>5
  <2>2. 0 \in 0 .. K /\ \A n \in 1 .. K : n \in 0 .. K /\ n # 0
    OBVIOUS
  <2> QED
    BY <2>1, <2>2
<1>8. \A n \in 0 .. K : f[n] \in X
  <2> DEFINE S == {n \in Nat : n <= K /\ f[n] \notin X}
  <2>1. S = {}
    <3>1. SUFFICES ASSUME S # {} PROVE FALSE
      OBVIOUS
    <3>2. PICK n \in S : \A m \in S : n <= m
      BY <3>1, LeastNumber
    <3>3. n # 0
      BY <1>e, <1>7
    <3>4. n - 1 \in Nat /\ n - 1 <= K /\ n \in 1 .. K /\ ~ (n <= n - 1)
      BY <3>3
    <3>5. f[n - 1] \in X
      <4>1. n - 1 \notin S
        BY <3>2, <3>4
      <4> QED
        BY <3>4, <4>1
    <3> QED
      BY <1>0, <1>7, <3>4, <3>5
  <2> QED
    BY <2>1
<1> HIDE DEF T
<1> QED
  BY <1>6, <1>7, <1>8 DEF X

-----------------------------------------------------------------------------
(* A script and its texts *)

Tells(cv, texts, c) ==
    /\ \E T : texts \in Seq(T)
    /\ c \in DOMAIN cv.cards => /\ Len(texts) > 0
                                /\ cv.cards[c].text = texts[Len(texts)]
                                /\ cv.cards[c].versions = Earlier(texts)

Unborn(cv, texts, c) == c \notin DOMAIN cv.cards /\ texts = <<>>

\* The first text has no versions before it.
LEMMA NothingEarlier == ASSUME NEW x PROVE Earlier(<<x>>) = <<>> /\ <<x>> \in Seq({x}) /\ <<x>>[Len(<<x>>)] = x
<1>1. <<x>> \in Seq({x}) /\ Len(<<x>>) = 1 /\ <<x>>[1] = x
  OBVIOUS
<1>2. MaxVersions \in Nat /\ MaxVersions > 0
  BY CanvasOpsAssumption
<1> DEFINE n == Len(<<x>>)
           m == IF n - 1 <= MaxVersions THEN n - 1 ELSE MaxVersions
           v(k) == [rev |-> n - 1 - m + k, text |-> <<x>>[n - 1 - m + k]]
<1>3. Earlier(<<x>>) = [k \in 1 .. m |-> v(k)]
  <2>1. Len(<<x>>) > 0
    BY <1>1
  <2> QED
    BY <1>1, <2>1, EarlierIs
<1>4. m = 0
  BY <1>1, <1>2
<1> HIDE DEF m, v
<1>5. [k \in 1 .. m |-> v(k)] = <<>>
  BY <1>4
<1> QED
  BY <1>1, <1>3, <1>5

\* Putting a card, seen from one card.
LEMMA PutSeen ==
    ASSUME NEW cv, IsCanvas(cv), NEW d, NEW z
    PROVE  /\ DOMAIN PutCard(cv, d, z).cards = DOMAIN cv.cards \cup {d}
           /\ \A c \in DOMAIN cv.cards \cup {d} : PutCard(cv, d, z).cards[c] = IF c = d THEN z ELSE cv.cards[c]
<1> DEFINE C == [c \in DOMAIN cv.cards \cup {d} |-> IF c = d THEN z ELSE cv.cards[c]]
<1>1. PutCard(cv, d, z) = [cv EXCEPT !.cards = C]
  BY DEF PutCard
<1>2. /\ DOMAIN C = DOMAIN cv.cards \cup {d}
      /\ \A c \in DOMAIN cv.cards \cup {d} : C[c] = IF c = d THEN z ELSE cv.cards[c]
  OBVIOUS
<1> HIDE DEF C
<1>3. PutCard(cv, d, z) = [cards |-> C, zoom |-> cv.zoom]
  BY <1>1 DEF IsCanvas
<1> QED
  BY <1>2, <1>3

\* The card with a text more, or the same text again.
LEMMA PatchTells ==
    ASSUME NEW cv, NEW c, KindOf[c] = "script", c \in DOMAIN cv.cards,
           NEW texts, Tells(cv, texts, c), NEW op, op.type = "card.update", op.id = c
    PROVE  LET card == Patched(KindOf[c], cv.cards[c], op.value)
               after == TextsAfter(texts, op, c)
           IN  /\ \E T : after \in Seq(T)
               /\ Len(after) > 0 /\ card.text = after[Len(after)] /\ card.versions = Earlier(after)
<1> DEFINE x == cv.cards[c]
           card == Patched(KindOf[c], x, op.value)
           after == TextsAfter(texts, op, c)
<1>1. PICK T : texts \in Seq(T)
  BY DEF Tells
<1>2. Len(texts) > 0 /\ Len(texts) \in Nat /\ texts # <<>>
  BY <1>1 DEF Tells
<1>3. x.text = texts[Len(texts)] /\ x.versions = Earlier(texts)
  BY DEF Tells
<1> HIDE DEF x
<1>4. CASE "text" \notin DOMAIN op.value
  <2>1. card.text = x.text /\ card.versions = x.versions
    BY <1>4 DEF Patched, VersionsAfter
  <2>2. after = texts
    BY <1>4 DEF TextsAfter, GivesText
  <2> HIDE DEF card, after
  <2>3. /\ \E U : after \in Seq(U)
        /\ Len(after) > 0 /\ card.text = after[Len(after)] /\ card.versions = Earlier(after)
    BY <1>1, <1>2, <1>3, <2>1, <2>2
  <2> QED
    BY <2>3 DEF card, after, x
<1>5. CASE "text" \in DOMAIN op.value /\ op.value.text = x.text
  <2>1. card.text = x.text /\ card.versions = x.versions
    BY <1>5 DEF Patched, VersionsAfter
  <2>2. after = texts
    BY <1>2, <1>3, <1>5 DEF TextsAfter, GivesText
  <2> HIDE DEF card, after
  <2>3. /\ \E U : after \in Seq(U)
        /\ Len(after) > 0 /\ card.text = after[Len(after)] /\ card.versions = Earlier(after)
    BY <1>1, <1>2, <1>3, <2>1, <2>2
  <2> QED
    BY <2>3 DEF card, after, x
<1>6. CASE "text" \in DOMAIN op.value /\ op.value.text # x.text
  <2> DEFINE y == op.value.text
             U == T \cup {y}
  <2>1. card.text = y /\ card.versions = AppendVersion(x.versions, x.text)
    BY <1>6 DEF Patched, VersionsAfter
  <2>2. after = Append(texts, y)
    BY <1>3, <1>6 DEF TextsAfter, GivesText
  <2>3. texts \in Seq(U) /\ y \in U
    BY <1>1
  <2> HIDE DEF card, after, y, U
  <2>4. after \in Seq(U) /\ Len(after) = Len(texts) + 1 /\ after[Len(after)] = y
    BY <2>2, <2>3
  <2>5. AppendVersion(x.versions, x.text) = Earlier(after)
    BY <1>2, <1>3, <2>2, <2>3, VersionAppended
  <2>6. /\ \E V : after \in Seq(V)
        /\ Len(after) > 0 /\ card.text = after[Len(after)] /\ card.versions = Earlier(after)
    BY <1>2, <2>1, <2>4, <2>5
  <2> QED
    BY <2>6 DEF card, after, x
<1> QED
  BY <1>4, <1>5, <1>6

\* What an operation does to a script is what it adds to its texts.
LEMMA OpTells ==
    ASSUME NEW cv, IsCanvas(cv), NEW c, KindOf[c] = "script", NEW texts, Tells(cv, texts, c),
           NEW op, IsOp(op), Allowed(cv, op),
           op.type = "card.create" => op.value.versions = <<>> /\ (op.id = c => texts = <<>>)
    PROVE  Tells(After(cv, op), TextsAfter(texts, op, c), c)
<1> DEFINE after == After(cv, op)
<1>g. SUFFICES Tells(after, TextsAfter(texts, op, c), c)
  OBVIOUS
<1>s. ASSUME ~GivesText(op, c),
             c \in DOMAIN after.cards => /\ c \in DOMAIN cv.cards
                                         /\ after.cards[c].text = cv.cards[c].text
                                         /\ after.cards[c].versions = cv.cards[c].versions
      PROVE  Tells(after, TextsAfter(texts, op, c), c)
  <2> HIDE DEF after
  <2> QED
    BY <1>s DEF Tells, TextsAfter
<1>1. CASE op.type = "card.create"
  <2>1. after = PutCard(cv, op.id, op.value)
    BY <1>1 DEF After
  <2>2. /\ DOMAIN after.cards = DOMAIN cv.cards \cup {op.id}
        /\ \A d \in DOMAIN cv.cards \cup {op.id} : after.cards[d] = IF d = op.id THEN op.value ELSE cv.cards[d]
    BY <2>1, PutSeen
  <2> HIDE DEF after
  <2>3. CASE op.id # c
    <3>1. ~GivesText(op, c)
      BY <2>3 DEF GivesText
    <3> QED
      BY <1>s, <2>2, <2>3, <3>1
  <2>4. CASE op.id = c
    <3> DEFINE x == op.value.text
    <3>1. texts = <<>> /\ op.value.versions = <<>>
      BY <1>1, <2>4
    <3>2. "text" \in DOMAIN op.value
      <4>1. IsCard(op.value)
        BY <1>1 DEF IsOp
      <4> QED
        BY <4>1 DEF IsCard
    <3>3. TextsAfter(texts, op, c) = <<x>>
      BY <1>1, <2>4, <3>1, <3>2 DEF TextsAfter, GivesText
    <3>4. after.cards[c] = op.value
      BY <2>2, <2>4
    <3> HIDE DEF x
    <3>5. /\ \E T : <<x>> \in Seq(T)
          /\ Len(<<x>>) > 0 /\ <<x>>[Len(<<x>>)] = x /\ Earlier(<<x>>) = <<>>
      <4>1. <<x>> \in Seq({x}) /\ Earlier(<<x>>) = <<>> /\ <<x>>[Len(<<x>>)] = x
        BY NothingEarlier
      <4>2. Len(<<x>>) > 0
        OBVIOUS
      <4> QED
        BY <4>1, <4>2
    <3>6. after.cards[c].text = x
      BY <3>4 DEF x
    <3>7. after.cards[c].versions = <<>>
      BY <3>1, <3>4
    <3>8. Tells(after, <<x>>, c)
      BY <3>5, <3>6, <3>7 DEF Tells
    <3> QED
      BY <3>3, <3>8
  <2> QED
    BY <2>3, <2>4
<1>2. CASE op.type = "card.move"
  <2> DEFINE z == Moved(cv.cards[op.id], op.value)
  <2>1. after = PutCard(cv, op.id, z) /\ op.id \in DOMAIN cv.cards
    BY <1>2 DEF After, Allowed
  <2>2. z.text = cv.cards[op.id].text /\ z.versions = cv.cards[op.id].versions
    <3> DEFINE x == cv.cards[op.id]
    <3>1. IsCard(x)
      BY <2>1 DEF IsCanvas
    <3> HIDE DEF x
    <3>2. x = [text |-> x.text, params |-> x.params, versions |-> x.versions, asset |-> x.asset,
               history |-> x.history, place |-> x.place, auto |-> x.auto]
      BY <3>1 DEF IsCard
    <3>3. Moved(x, op.value) = [text |-> x.text, params |-> x.params, versions |-> x.versions, asset |-> x.asset,
                                history |-> x.history, place |-> op.value, auto |-> FALSE]
      <4>1. Moved([text |-> x.text, params |-> x.params, versions |-> x.versions, asset |-> x.asset,
                   history |-> x.history, place |-> x.place, auto |-> x.auto], op.value)
            = [text |-> x.text, params |-> x.params, versions |-> x.versions, asset |-> x.asset,
               history |-> x.history, place |-> op.value, auto |-> FALSE]
        BY MovedCard
      <4> QED
        BY <3>2, <4>1, Zenon
    <3>4. Moved(x, op.value).text = x.text /\ Moved(x, op.value).versions = x.versions
      BY <3>3
    <3> QED
      BY <3>4 DEF x
  <2> HIDE DEF z
  <2>3. /\ DOMAIN after.cards = DOMAIN cv.cards \cup {op.id}
        /\ \A d \in DOMAIN cv.cards \cup {op.id} : after.cards[d] = IF d = op.id THEN z ELSE cv.cards[d]
    BY <2>1, PutSeen
  <2>4. ~GivesText(op, c)
    BY <1>2 DEF GivesText
  <2> HIDE DEF after
  <2> QED
    BY <1>s, <2>1, <2>2, <2>3, <2>4
<1>3. CASE op.type = "card.update" /\ DOMAIN op.value = {}
  <2>1. after = cv /\ ~GivesText(op, c)
    BY <1>3 DEF After, GivesText
  <2> QED
    BY <1>s, <2>1
<1>4. CASE op.type = "card.update" /\ DOMAIN op.value # {}
  <2> DEFINE z == Patched(KindOf[op.id], cv.cards[op.id], op.value)
  <2>1. after = PutCard(cv, op.id, z) /\ op.id \in DOMAIN cv.cards
    BY <1>4 DEF After, Allowed
  <2>2. /\ DOMAIN after.cards = DOMAIN cv.cards \cup {op.id}
        /\ \A d \in DOMAIN cv.cards \cup {op.id} : after.cards[d] = IF d = op.id THEN z ELSE cv.cards[d]
    <3> HIDE DEF z
    <3> QED
      BY <2>1, PutSeen
  <2> HIDE DEF after
  <2>3. CASE op.id # c
    <3>1. ~GivesText(op, c)
      BY <2>3 DEF GivesText
    <3> QED
      BY <1>s, <2>2, <2>3, <3>1
  <2>4. CASE op.id = c
    <3> DEFINE ts == TextsAfter(texts, op, c)
    <3>1. /\ \E T : ts \in Seq(T)
          /\ Len(ts) > 0 /\ z.text = ts[Len(ts)] /\ z.versions = Earlier(ts)
      BY <1>4, <2>1, <2>4, PatchTells
    <3> HIDE DEF ts, z
    <3>2. after.cards[c] = z
      BY <2>2, <2>4
    <3>3. Tells(after, ts, c)
      BY <3>1, <3>2 DEF Tells
    <3> QED
      BY <3>3 DEF ts
  <2> QED
    BY <2>3, <2>4
<1>5. CASE op.type = "card.delete"
  <2> DEFINE rest == [d \in DOMAIN cv.cards \ {op.id} |-> cv.cards[d]]
  <2>1. after = [cv EXCEPT !.cards = rest]
    BY <1>5 DEF After
  <2>2. DOMAIN rest = DOMAIN cv.cards \ {op.id} /\ \A d \in DOMAIN rest : rest[d] = cv.cards[d]
    OBVIOUS
  <2> HIDE DEF rest
  <2>3. after.cards = rest
    BY <2>1 DEF IsCanvas
  <2>4. ~GivesText(op, c)
    BY <1>5 DEF GivesText
  <2> HIDE DEF after
  <2> QED
    BY <1>s, <2>2, <2>3, <2>4
<1>6. CASE op.type = "viewport.set"
  <2>1. after = [cv EXCEPT !.zoom = op.value]
    BY <1>6 DEF After
  <2>2. after.cards = cv.cards
    BY <2>1 DEF IsCanvas
  <2>3. ~GivesText(op, c)
    BY <1>6 DEF GivesText
  <2> HIDE DEF after
  <2> QED
    BY <1>s, <2>2, <2>3
<1> QED
  BY <1>1, <1>2, <1>3, <1>4, <1>5, <1>6 DEF IsOp

\* A card that nobody creates stays without texts.
LEMMA OpLeavesUnborn ==
    ASSUME NEW cv, IsCanvas(cv), NEW c, NEW texts, Unborn(cv, texts, c),
           NEW op, IsOp(op), Allowed(cv, op), ~ (op.type = "card.create" /\ op.id = c)
    PROVE  Unborn(After(cv, op), TextsAfter(texts, op, c), c)
<1> DEFINE after == After(cv, op)
<1>1. ~GivesText(op, c)
  <2>1. CASE op.type = "card.update" /\ op.id = c
    <3>1. DOMAIN op.value = {}
      BY <2>1 DEF Allowed, Unborn
    <3> QED
      BY <3>1 DEF GivesText
  <2> QED
    BY <2>1 DEF GivesText
<1>2. TextsAfter(texts, op, c) = <<>>
  BY <1>1 DEF TextsAfter, Unborn
<1>3. c \notin DOMAIN after.cards
  <2>p. ASSUME NEW z, after = PutCard(cv, op.id, z), op.id # c PROVE c \notin DOMAIN after.cards
    <3> HIDE DEF after
    <3>1. DOMAIN after.cards = DOMAIN cv.cards \cup {op.id}
      BY <2>p, PutSeen
    <3> QED
      BY <2>p, <3>1 DEF Unborn
  <2>1. CASE op.type = "card.create"
    BY <2>1, <2>p DEF After
  <2>2. CASE op.type = "card.move"
    BY <2>2, <2>p DEF After, Allowed, Unborn
  <2>3. CASE op.type = "card.update" /\ DOMAIN op.value = {}
    BY <2>3 DEF After, Unborn
  <2>4. CASE op.type = "card.update" /\ DOMAIN op.value # {}
    BY <2>4, <2>p DEF After, Allowed, Unborn
  <2>5. CASE op.type = "card.delete"
    <3> DEFINE rest == [d \in DOMAIN cv.cards \ {op.id} |-> cv.cards[d]]
    <3>1. after = [cv EXCEPT !.cards = rest]
      BY <2>5 DEF After
    <3>2. after.cards = rest
      <4> HIDE DEF rest, after
      <4> QED
        BY <3>1 DEF IsCanvas
    <3> QED
      BY <3>2 DEF Unborn
  <2>6. CASE op.type = "viewport.set"
    <3>1. after.cards = cv.cards
      BY <2>6 DEF After, IsCanvas
    <3> QED
      BY <3>1 DEF Unborn
  <2> QED
    BY <2>1, <2>2, <2>3, <2>4, <2>5, <2>6 DEF IsOp
<1> QED
  BY <1>2, <1>3 DEF Unborn

\* The same for a batch of operations.
LEMMA BatchTells ==
    ASSUME NEW cv, IsCanvas(cv), NEW ops, IsBatch(ops), BatchAllowed(cv, ops),
           NEW c, KindOf[c] = "script", NEW texts, Tells(cv, texts, c),
           c \notin given => Unborn(cv, texts, c)
    PROVE  /\ Tells(AfterBatch(cv, ops), TextsAfterBatch(texts, ops, c), c)
           /\ c \notin given /\ c \notin Made(ops) =>
                 Unborn(AfterBatch(cv, ops), TextsAfterBatch(texts, ops, c), c)
<1> DEFINE f == AfterFirst(cv, ops)
           t == TextsAfterFirst(texts, ops, c)
           old == c \notin given /\ c \notin Made(ops)
           P(n) == Paired(f[n], f[n]) /\ Tells(f[n], t[n], c) /\ (old => Unborn(f[n], t[n], c))
           S == {n \in Nat : n <= Len(ops) /\ ~P(n)}
<1>0. Len(ops) \in Nat /\ DOMAIN ops = 1 .. Len(ops) /\ \A n \in 1 .. Len(ops) :
         IsOp(ops[n]) /\ IsNew(ops[n]) /\ (ops[n].type = "card.create" => n = 1)
  BY DEF IsBatch
<1>1. f[0] = cv /\ \A n \in Nat \ {0} : f[n] = After(f[n - 1], ops[n])
  BY AfterFirstSteps
<1>2. t[0] = texts /\ \A n \in 1 .. Len(ops) : t[n] = TextsAfter(t[n - 1], ops[n], c)
  <2>1. PICK T : texts \in Seq(T)
    BY DEF Tells
  <2> DEFINE U == T \cup {ops[n].value.text : n \in 1 .. Len(ops)}
  <2>2. texts \in Seq(U)
    BY <2>1
  <2>3. \A n \in 1 .. Len(ops) : ops[n].value.text \in U
    OBVIOUS
  <2> HIDE DEF U
  <2> QED
    BY <1>0, <2>2, <2>3, TextSteps
<1>3. \A n \in 1 .. Len(ops) : Allowed(f[n - 1], ops[n])
  BY DEF BatchAllowed
<1>4. AfterBatch(cv, ops) = f[Len(ops)] /\ TextsAfterBatch(texts, ops, c) = t[Len(ops)]
  BY DEF AfterBatch, TextsAfterBatch
<1>5. \A n \in 1 .. Len(ops) : old => ~ (ops[n].type = "card.create" /\ ops[n].id = c)
  <2>1. ASSUME NEW n \in 1 .. Len(ops), old, ops[n].type = "card.create", ops[n].id = c
        PROVE  FALSE
    <3>1. n = 1
      BY <1>0, <2>1
    <3>2. c \in Made(ops)
      <4>1. 1 \in DOMAIN ops
        BY <1>0, <3>1
      <4> QED
        BY <2>1, <3>1, <4>1 DEF Made
    <3> QED
      BY <2>1, <3>2
  <2> QED
    BY <2>1
<1>6. P(0)
  <2>1. Paired(cv, cv)
    BY DEF Paired, Twins, Alike
  <2> HIDE DEF f, t
  <2> QED
    BY <1>1, <1>2, <2>1
<1> HIDE DEF f, t, old
<1>7. S = {}
  <2>1. SUFFICES ASSUME S # {} PROVE FALSE
    OBVIOUS
  <2>2. PICK n \in S : \A m \in S : n <= m
    BY <2>1, LeastNumber
  <2>3. n # 0
    BY <1>6
  <2>4. n - 1 \in Nat /\ ~ (n <= n - 1) /\ n - 1 <= Len(ops) /\ n \in 1 .. Len(ops) /\ n \in Nat \ {0}
    BY <2>3
  <2>5. P(n - 1)
    <3>1. n - 1 \notin S
      <4> HIDE DEF S
      <4> QED
        BY <2>2, <2>4
    <3> HIDE DEF P
    <3> QED
      BY <2>4, <3>1
  <2>6. IsCanvas(f[n - 1])
    BY <2>5 DEF Paired
  <2>7. Paired(After(f[n - 1], ops[n]), After(f[n - 1], ops[n]))
    BY <1>0, <1>3, <2>4, <2>5, OpTwins
  <2>8. ops[n].type = "card.create" => ops[n].value.versions = <<>> /\ (ops[n].id = c => t[n - 1] = <<>>)
    <3>1. SUFFICES ASSUME ops[n].type = "card.create"
                   PROVE  ops[n].value.versions = <<>> /\ (ops[n].id = c => t[n - 1] = <<>>)
      OBVIOUS
    <3>2. n = 1 /\ ops[n].id \notin given /\ ops[n].value.versions = <<>>
      BY <1>0, <2>4, <3>1 DEF IsNew
    <3>3. ops[n].id = c => texts = <<>>
      BY <3>2 DEF Unborn
    <3>4. t[n - 1] = texts
      BY <1>2, <3>2
    <3> QED
      BY <3>2, <3>3, <3>4
  <2>9. Tells(After(f[n - 1], ops[n]), TextsAfter(t[n - 1], ops[n], c), c)
    BY <1>0, <1>3, <2>4, <2>5, <2>6, <2>8, OpTells
  <2>10. old => Unborn(After(f[n - 1], ops[n]), TextsAfter(t[n - 1], ops[n], c), c)
    BY <1>0, <1>3, <1>5, <2>4, <2>5, <2>6, OpLeavesUnborn
  <2>11. f[n] = After(f[n - 1], ops[n]) /\ t[n] = TextsAfter(t[n - 1], ops[n], c)
    BY <1>1, <1>2, <2>4
  <2>12. P(n)
    BY <2>7, <2>9, <2>10, <2>11
  <2> HIDE DEF P
  <2> QED
    BY <2>2, <2>12
<1>8. P(Len(ops))
  <2>1. Len(ops) \notin S
    BY <1>7
  <2> HIDE DEF P
  <2> QED
    BY <1>0, <2>1
<1> QED
  BY <1>4, <1>8 DEF old

\* A row more in the log.
LEMMA RowTells ==
    ASSUME IsLog, \A n \in 1 .. Len(log) : Len(log[n].ops) \in Nat, NEW by, NEW ops, Len(ops) \in Nat,
           log' = Append(log, [by |-> by, ops |-> ops]), NEW c
    PROVE  /\ TextsOfFirst(log', c)[Len(log')] = TextsAfterBatch(TextsGiven(c), ops, c)
           /\ \A n \in 1 .. Len(log') : Len(log'[n].ops) \in Nat
<1>1. PICK S : log \in Seq(S)
  BY DEF IsLog
<1> DEFINE row == [by |-> by, ops |-> ops]
           T == S \cup {row}
           K == Len(log)
           rows == log'
<1>2. log \in Seq(T) /\ row \in T /\ row.ops = ops
  BY <1>1
<1>3. rows = Append(log, row)
  OBVIOUS
<1> HIDE DEF row, T, rows
<1>4. /\ K \in Nat /\ Len(rows) = K + 1 /\ rows[K + 1] = row
      /\ \A i \in 1 .. K : rows[i] = log[i]
  BY <1>2, <1>3
<1>5. \A n \in 1 .. Len(rows) : Len(rows[n].ops) \in Nat
  <2>1. \A n \in 1 .. K + 1 : n \in 1 .. K \/ n = K + 1
    BY <1>4
  <2> QED
    BY <1>2, <1>4, <2>1
<1> DEFINE f == TextsOfFirst(log, c)
           g == TextsOfFirst(rows, c)
<1>6. f[0] = <<>> /\ \A n \in 1 .. K : f[n] = TextsAfterBatch(f[n - 1], log[n].ops, c)
  BY <1>4, RowSteps
<1>7. g[0] = <<>> /\ \A n \in 1 .. K + 1 : g[n] = TextsAfterBatch(g[n - 1], rows[n].ops, c)
  <2>1. Len(rows) \in Nat
    BY <1>4
  <2> HIDE DEF K
  <2>2. g[0] = <<>> /\ \A n \in 1 .. Len(rows) : g[n] = TextsAfterBatch(g[n - 1], rows[n].ops, c)
    BY <1>5, <2>1, RowSteps
  <2> HIDE DEF g
  <2> QED
    BY <1>4, <2>2
<1> HIDE DEF f, g
<1>8. f[K] = g[K]
  <2> DEFINE D == {n \in Nat : n <= K /\ f[n] # g[n]}
  <2>1. D = {}
    <3>1. SUFFICES ASSUME D # {} PROVE FALSE
      OBVIOUS
    <3>2. PICK n \in D : \A m \in D : n <= m
      BY <3>1, LeastNumber
    <3>3. n # 0
      BY <1>6, <1>7
    <3>4. n - 1 \in Nat /\ ~ (n <= n - 1) /\ n - 1 <= K /\ n \in 1 .. K /\ n \in 1 .. K + 1
      BY <1>4, <3>3
    <3>5. f[n - 1] = g[n - 1]
      <4>1. n - 1 \notin D
        <5> HIDE DEF D
        <5> QED
          BY <3>2, <3>4
      <4> QED
        BY <3>4, <4>1
    <3> QED
      BY <1>4, <1>6, <1>7, <3>4, <3>5
  <2> QED
    BY <1>4, <2>1
<1>9. g[K + 1] = TextsAfterBatch(g[K], ops, c)
  <2>1. K + 1 \in 1 .. K + 1 /\ K + 1 - 1 = K
    BY <1>4
  <2>2. g[K + 1] = TextsAfterBatch(g[K + 1 - 1], rows[K + 1].ops, c)
    BY <1>7, <2>1
  <2> HIDE DEF K
  <2> QED
    BY <1>2, <1>4, <2>1, <2>2
<1>10. TextsGiven(c) = f[K]
  BY DEF TextsGiven, f
<1> HIDE DEF K
<1>11. TextsOfFirst(rows, c)[Len(rows)] = g[K + 1]
  BY <1>4 DEF g
<1>12. TextsOfFirst(rows, c)[Len(rows)] = TextsAfterBatch(TextsGiven(c), ops, c)
  BY <1>8, <1>9, <1>10, <1>11
<1> QED
  BY <1>5, <1>12 DEF rows

-----------------------------------------------------------------------------
(* The invariant: each script tells the texts of the log *)

ScriptsTell ==
    /\ \A n \in 1 .. Len(log) : Len(log[n].ops) \in Nat
    /\ \A c : KindOf[c] = "script" => /\ Tells(canvas, TextsGiven(c), c)
                                      /\ c \notin given => Unborn(canvas, TextsGiven(c), c)

LEMMA BatchKeepsTexts ==
    ASSUME IsLog, TablesMatch, ScriptsTell, NEW by, NEW ops, IsBatch(ops), BatchAllowed(canvas, ops),
           CommitBatch(by, ops)
    PROVE  ScriptsTell'
<1>1. CASE ops = <<>>
  <2>1. canvas' = canvas /\ log' = log /\ given' = given
    BY <1>1 DEF CommitBatch
  <2> QED
    BY <2>1 DEF ScriptsTell, TextsGiven
<1>2. CASE ops # <<>>
  <2>1. /\ canvas' = AfterBatch(canvas, ops)
        /\ log' = Append(log, [by |-> by, ops |-> ops])
        /\ given' = given \cup Made(ops)
    BY <1>2 DEF CommitBatch
  <2>2. Len(ops) \in Nat /\ IsCanvas(canvas) /\ \A n \in 1 .. Len(log) : Len(log[n].ops) \in Nat
    BY DEF IsBatch, TablesMatch, Paired, ScriptsTell
  <2>3. ASSUME NEW c, KindOf[c] = "script"
        PROVE  /\ Tells(canvas', TextsOfFirst(log', c)[Len(log')], c)
               /\ c \notin given' => Unborn(canvas', TextsOfFirst(log', c)[Len(log')], c)
    <3>1. TextsOfFirst(log', c)[Len(log')] = TextsAfterBatch(TextsGiven(c), ops, c)
      BY <2>1, <2>2, RowTells
    <3>2. Tells(canvas, TextsGiven(c), c) /\ (c \notin given => Unborn(canvas, TextsGiven(c), c))
      BY <2>3 DEF ScriptsTell
    <3>3. /\ Tells(AfterBatch(canvas, ops), TextsAfterBatch(TextsGiven(c), ops, c), c)
          /\ c \notin given /\ c \notin Made(ops) =>
                Unborn(AfterBatch(canvas, ops), TextsAfterBatch(TextsGiven(c), ops, c), c)
      BY <2>2, <2>3, <3>2, BatchTells
    <3> QED
      BY <2>1, <3>1, <3>3
  <2>4. \A n \in 1 .. Len(log') : Len(log'[n].ops) \in Nat
    BY <2>1, <2>2, RowTells
  <2> QED
    BY <2>3, <2>4 DEF ScriptsTell, TextsGiven
<1> QED
  BY <1>1, <1>2

LEMMA ResultKeepsTexts ==
    ASSUME IsLog, TablesMatch, ScriptsTell, NEW d \in DOMAIN canvas.cards, NEW asset, CommitResult(d, asset),
           given' = given
    PROVE  ScriptsTell'
<1> DEFINE op == UpdateOp(d, [asset |-> asset])
           x == canvas.cards[d]
<1>1. canvas' = PutCard(canvas, d, WithResult(x, asset)) /\ log' = Append(log, [by |-> Executor, ops |-> <<op>>])
  BY DEF CommitResult
<1>2. IsCanvas(canvas) /\ IsCard(x) /\ \A n \in 1 .. Len(log) : Len(log[n].ops) \in Nat
  BY DEF TablesMatch, Paired, IsCanvas, ScriptsTell
<1>3. WithResult(x, asset).text = x.text /\ WithResult(x, asset).versions = x.versions
  <2> HIDE DEF x
  <2> DEFINE full == [text |-> x.text, params |-> x.params, versions |-> x.versions, asset |-> x.asset,
                      history |-> x.history, place |-> x.place, auto |-> x.auto]
             new == [text |-> x.text, params |-> x.params, versions |-> x.versions, asset |-> asset,
                     history |-> Latest(Append(x.history, asset), MaxHistory), place |-> x.place, auto |-> x.auto]
  <2>1. x = full
    BY <1>2 DEF IsCard
  <2>2. WithResult(full, asset) = new
    BY ResultCard
  <2>3. new.text = x.text /\ new.versions = x.versions
    OBVIOUS
  <2> HIDE DEF full, new
  <2> QED
    BY <2>1, <2>2, <2>3
<1>4. /\ DOMAIN canvas'.cards = DOMAIN canvas.cards
      /\ \A c \in DOMAIN canvas.cards : canvas'.cards[c] = IF c = d THEN WithResult(x, asset) ELSE canvas.cards[c]
  <2> HIDE DEF op, x
  <2>1. /\ DOMAIN PutCard(canvas, d, WithResult(x, asset)).cards = DOMAIN canvas.cards \cup {d}
        /\ \A c \in DOMAIN canvas.cards \cup {d} :
              PutCard(canvas, d, WithResult(x, asset)).cards[c] = IF c = d THEN WithResult(x, asset) ELSE canvas.cards[c]
    BY <1>2, PutSeen
  <2> QED
    BY <1>1, <2>1
<1>5. ~ ("text" \in DOMAIN op.value)
  BY DEF UpdateOp
<1> HIDE DEF op
<1>6. Len(<<op>>) = 1 /\ <<op>>[1] = op
  OBVIOUS
<1>7. ASSUME NEW c, KindOf[c] = "script"
      PROVE  /\ Tells(canvas', TextsOfFirst(log', c)[Len(log')], c)
             /\ c \notin given' => Unborn(canvas', TextsOfFirst(log', c)[Len(log')], c)
  <2>1. TextsOfFirst(log', c)[Len(log')] = TextsAfterBatch(TextsGiven(c), <<op>>, c)
    <3>1. Len(<<op>>) \in Nat
      BY <1>6
    <3> QED
      BY <1>1, <1>2, <3>1, RowTells
  <2>2. Tells(canvas, TextsGiven(c), c) /\ (c \notin given => Unborn(canvas, TextsGiven(c), c))
    BY <1>7 DEF ScriptsTell
  <2>3. TextsAfterBatch(TextsGiven(c), <<op>>, c) = TextsGiven(c)
    <3>1. PICK T : TextsGiven(c) \in Seq(T)
      BY <2>2 DEF Tells
    <3> DEFINE U == T \cup {op.value.text}
               texts == TextsGiven(c)
               one == <<op>>
               f == TextsAfterFirst(texts, one, c)
    <3>2. texts \in Seq(U)
      BY <3>1
    <3>3. Len(one) = 1 /\ one[1] = op /\ \A n \in 1 .. 1 : n = 1
      BY <1>6
    <3> HIDE DEF texts, one
    <3>4. Len(one) \in Nat /\ \A n \in 1 .. Len(one) : one[n].value.text \in U
      BY <3>3
    <3> HIDE DEF U
    <3>5. f[0] = texts /\ \A n \in 1 .. Len(one) : f[n] = TextsAfter(f[n - 1], one[n], c)
      BY <3>2, <3>4, TextSteps
    <3> HIDE DEF f
    <3>6. f[1] = TextsAfter(texts, op, c)
      BY <3>3, <3>5
    <3>7. TextsAfter(texts, op, c) = texts
      BY <1>5 DEF TextsAfter, GivesText
    <3>8. TextsAfterBatch(texts, one, c) = f[1]
      BY <3>3 DEF TextsAfterBatch, f
    <3> QED
      BY <3>6, <3>7, <3>8 DEF texts, one
  <2> HIDE DEF x
  <2>4. Tells(canvas', TextsGiven(c), c)
    BY <1>3, <1>4, <2>2 DEF Tells, x
  <2>5. c \notin given' => Unborn(canvas', TextsGiven(c), c)
    BY <1>4, <2>2 DEF Unborn
  <2> QED
    BY <2>1, <2>3, <2>4, <2>5
<1>8. \A n \in 1 .. Len(log') : Len(log'[n].ops) \in Nat
  <2>1. Len(<<op>>) \in Nat
    BY <1>6
  <2> QED
    BY <1>1, <1>2, <2>1, RowTells
<1> QED
  BY <1>7, <1>8 DEF ScriptsTell, TextsGiven

LEMMA StartsTold == Init => ScriptsTell
<1> SUFFICES ASSUME Init PROVE ScriptsTell
  OBVIOUS
<1>1. canvas = EmptyCanvas /\ Len(log) = 0
  BY DEF Init, CanvasInit
<1>2. DOMAIN canvas.cards = {}
  BY <1>1 DEF EmptyCanvas
<1>3. \A n \in 1 .. Len(log) : Len(log[n].ops) \in Nat
  BY <1>1
<1>4. ASSUME NEW c PROVE Tells(canvas, TextsGiven(c), c) /\ Unborn(canvas, TextsGiven(c), c)
  <2>1. TextsGiven(c) = <<>>
    BY <1>1, <1>3, RowSteps DEF TextsGiven
  <2>2. <<>> \in Seq({})
    OBVIOUS
  <2> QED
    BY <1>2, <2>1, <2>2 DEF Tells, Unborn
<1> QED
  BY <1>3, <1>4 DEF ScriptsTell

LEMMA TextsKept ==
    ASSUME Types, TablesMatch, ScriptsTell, Next
    PROVE  ScriptsTell'
<1>l. IsLog
  BY DEF Types
<1>u. canvas' = canvas /\ log' = log /\ given' = given => ScriptsTell'
  BY DEF ScriptsTell, TextsGiven
<1>1. ASSUME NEW h \in Handlers, Apply(h) PROVE ScriptsTell'
  <2>1. PICK ops \in Answers(call[h].step, call[h].card) :
           IF Accepts(call[h].base, ops)
           THEN revision < MaxRevision /\ Goto(h, "apply", "charge") /\ CommitBatch(h, ops)
           ELSE Goto(h, "apply", "fail") /\ UNCHANGED <<canvas, revision, log, given>>
    BY <1>1 DEF Apply
  <2>2. CASE UNCHANGED <<canvas, log, given>>
    BY <1>u, <2>2
  <2>3. CASE Accepts(call[h].base, ops) /\ CommitBatch(h, ops)
    <3>1. call[h].step \in Steps /\ call[h].card \in Cards
      BY DEF Types, Calls
    <3>2. IsBatch(ops)
      BY <3>1, AnswersHoldOps
    <3> QED
      BY <1>l, <2>3, <3>2, BatchKeepsTexts DEF Accepts
  <2> QED
    BY <2>1, <2>2, <2>3
<1>2. ASSUME NEW t \in Tabs, Patch(t) PROVE ScriptsTell'
  <2>1. PICK ops \in Batches :
           IF Accepts(tab[t].patch.rev, ops)
           THEN /\ revision < MaxRevision
                /\ CommitBatch(t, ops)
                /\ SetPatch(t, "ok", RevisionAfter(ops))
           ELSE /\ SetPatch(t, "failed", 0)
                /\ UNCHANGED <<canvas, revision, log, given>>
    BY <1>2 DEF Patch
  <2>2. CASE UNCHANGED <<canvas, log, given>>
    BY <1>u, <2>2
  <2>3. CASE Accepts(tab[t].patch.rev, ops) /\ CommitBatch(t, ops)
    BY <1>l, <2>3, BatchesHoldOps, BatchKeepsTexts DEF Accepts
  <2> QED
    BY <2>1, <2>2, <2>3
<1>3. ASSUME NEW c \in Cards, NEW a \in Assets, SetCardResult(c, a) PROVE ScriptsTell'
  BY <1>l, <1>3, ResultKeepsTexts DEF SetCardResult
<1>4. ASSUME NEW h \in Handlers, Ask(h) \/ Read(h) \/ Refuse(h) \/ CreateTask(h) \/ Hold(h) \/ HoldFails(h)
                \/ Unheld(h) \/ Invoke(h) \/ InvokeFails(h) \/ Charge(h) \/ Settle(h) \/ Fail(h)
                \/ Refund(h) \/ Tell(h) \/ Die(h) \/ Cancel(h) \/ CancelRefund(h)
      PROVE  canvas' = canvas /\ log' = log /\ given' = given
  BY <1>4 DEF Ask, Read, Refuse, CreateTask, Hold, HoldFails, Unheld, Invoke, InvokeFails, Charge, Settle,
              Fail, Refund, Tell, Die, Cancel, CancelRefund, canvasVars
<1>5. ASSUME NEW t \in Tabs, Flush(t) \/ Lose(t) \/ Answered(t) \/ Invalidate(t) \/ Fetch(t)
                               \/ Arrive(t) \/ FetchFails(t)
      PROVE  canvas' = canvas /\ log' = log /\ given' = given
  BY <1>5 DEF Flush, Lose, Answered, Invalidate, Fetch, Arrive, FetchFails
<1>6. ASSUME Trash \/ Restore PROVE canvas' = canvas /\ log' = log /\ given' = given
  BY <1>6 DEF Trash, Restore
<1> QED
  BY <1>u, <1>1, <1>2, <1>3, <1>4, <1>5, <1>6 DEF Next, ChatNext, CanvasNext

\* A script has its last text and, numbered without a gap, the MaxVersions texts before it,
\* whoever has written them and through whichever operation (scriptVersionSet, applyOp).
THEOREM TextsAreKept == Spec => []EveryTextKept
<1>1. Init => TablesMatch /\ ScriptsTell
  BY StartsMatched, StartsTold
<1>2. Types /\ TablesMatch /\ ScriptsTell /\ [Next]_vars => TablesMatch' /\ ScriptsTell'
  <2>1. ASSUME TablesMatch, ScriptsTell, UNCHANGED vars PROVE TablesMatch' /\ ScriptsTell'
    BY <2>1 DEF vars, TablesMatch, Replayed, ScriptsTell, TextsGiven
  <2> QED
    BY <2>1, MatchKept, TextsKept
<1>3. ScriptsTell => EveryTextKept
  BY DEF ScriptsTell, Tells, EveryTextKept
<1>4. Spec => []Types
  BY BillsAlways, PTL
<1> QED
  BY <1>1, <1>2, <1>3, <1>4, PTL DEF Spec
=============================================================================
