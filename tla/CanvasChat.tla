----------------------------- MODULE CanvasChat -----------------------------
(***************************************************************************)
(* The four handlers that call a chat model and write its answer onto the  *)
(* canvas: write a script, refine one, split it into shots, refine a shot  *)
(* (handlers_canvas.go, script.go, storyboard.go, shot.go), with the bill  *)
(* each of them keeps (chatcall.go, chatbill.go) and the cancellation of   *)
(* the task the bill is kept under (cancelTask).  Each statement on the    *)
(* database is a step of its own.                                          *)
(***************************************************************************)
EXTENDS Canvas

VARIABLES
    call,       \* call[h]: where handler h is
    task,       \* task[h]: the status of its row in tasks
    money,      \* money[h]: what the ledger says of that row
    cancel,     \* cancel[h]: a user who cancels the row
    said        \* canvas_messages: who said something in which call

chatVars == <<call, task, money, cancel, said>>

vars == <<trashed, revision, canvas, log, given, tab, faults, call, task, money, cancel, said>>

Steps == {"script", "refine", "storyboard", "refine-shot"}

\* seen is history: how many rows the log had when the handler read the canvas.
Calls == [pc : {"idle", "read", "bill", "hold", "unheld", "invoke", "apply", "fail", "refund",
                "charge", "settle", "say", "done", "dead"},
          step : Steps, card : Cards, base : Nat, seen : Nat]

Statuses == {"none", "running", "succeeded", "failed", "canceled"}
Holds == {"none", "held", "charged", "refunded"}

TypeOK ==
    /\ trashed \in BOOLEAN
    /\ revision \in 0 .. MaxRevision
    /\ DOMAIN canvas.cards \subseteq given
    /\ given \subseteq Cards
    /\ faults \in 0 .. MaxFaults
    /\ tab \in [Tabs -> TabStates]
    /\ call \in [Handlers -> Calls]
    /\ task \in [Handlers -> Statuses]
    /\ money \in [Handlers -> Holds]
    /\ cancel \in [Handlers -> {"none", "refund", "done"}]
    /\ said \subseteq Handlers \X {"user", "assistant"}

\* The browser offers each call on the cards it is for; a script is written out of nothing.
IsAbout(step, c) == KindOf[c] = IF step = "refine-shot" THEN "shot" ELSE "script"

ChatInit ==
    /\ call \in [Handlers -> {[pc |-> "idle", step |-> s, card |-> c, base |-> 0, seen |-> 0] :
                                  s \in Steps, c \in Cards}]
    /\ \A h \in Handlers : IsAbout(call[h].step, call[h].card)
    /\ task = [h \in Handlers |-> "none"]
    /\ money = [h \in Handlers |-> "none"]
    /\ cancel = [h \in Handlers |-> "none"]
    /\ said = {}

Init == CanvasInit /\ ChatInit

Goto(h, from, to) ==
    /\ call[h].pc = from
    /\ call' = [call EXCEPT ![h].pc = to]

----------------------------------------------------------------------------
(* The handlers.                                                           *)

\* AppendMessage looks for the project first.
Say(h, role) == said' = said \cup {<<h, role>>}

\* handleCanvasChat stores what the user says before anything else; the other
\* handlers have nothing to store yet.
Ask(h) ==
    /\ ~trashed
    /\ Goto(h, "idle", "read")
    /\ IF call[h].step = "script" THEN Say(h, "user") ELSE UNCHANGED said
    /\ UNCHANGED <<canvasVars, task, money, cancel>>

\* storyboardSource, scriptCardByID, shotCardByID: the card a call is about.
HasSource(cards, step, c) ==
    CASE step = "script" -> TRUE
      [] step = "storyboard" -> c \in DOMAIN cards /\ KindOf[c] = "script" /\ cards[c].text # EmptyText
      [] step = "refine" -> c \in DOMAIN cards /\ KindOf[c] = "script"
      [] step = "refine-shot" -> c \in DOMAIN cards /\ KindOf[c] = "shot"

Read(h) ==
    /\ call[h].pc = "read"
    /\ ~trashed
    /\ HasSource(canvas.cards, call[h].step, call[h].card)
    /\ call' = [call EXCEPT ![h].pc = "bill", ![h].base = Snapshot.rev, ![h].seen = Snapshot.seen]
    /\ UNCHANGED <<canvasVars, task, money, cancel, said>>

\* No canvas, no such card; no model, no provider, no credential, too few credits.
Refuse(h) ==
    /\ \/ /\ call[h].pc = "read"
          /\ trashed \/ ~HasSource(canvas.cards, call[h].step, call[h].card)
       \/ call[h].pc = "bill"
    /\ call' = [call EXCEPT ![h].pc = "done"]
    /\ UNCHANGED <<canvasVars, task, money, cancel, said>>

\* holdChat: the row, which no worker claims, then the hold on it.
CreateTask(h) ==
    /\ Goto(h, "bill", "hold")
    /\ task' = [task EXCEPT ![h] = "running"]
    /\ UNCHANGED <<canvasVars, money, cancel, said>>

Hold(h) ==
    /\ Goto(h, "hold", "invoke")
    /\ money' = [money EXCEPT ![h] = "held"]
    /\ UNCHANGED <<canvasVars, task, cancel, said>>

\* Somebody else has taken the credits since Balance was read.
HoldFails(h) ==
    /\ Goto(h, "hold", "unheld")
    /\ UNCHANGED <<canvasVars, task, money, cancel, said>>

UpdateStatus(h, next) ==
    task' = IF task[h] = "running" THEN [task EXCEPT ![h] = next] ELSE task

Unheld(h) ==
    /\ Goto(h, "unheld", "done")
    /\ UpdateStatus(h, "failed")
    /\ UNCHANGED <<canvasVars, money, cancel, said>>

\* The model answers; or it fails, times out, or nothing can be made of its answer.
Invoke(h) ==
    /\ Goto(h, "invoke", "apply")
    /\ UNCHANGED <<canvasVars, task, money, cancel, said>>

InvokeFailsFree(h) ==       \* Mutant: returns the error and forgets the bill
    /\ Goto(h, "invoke", "done")
    /\ UNCHANGED <<canvasVars, task, money, cancel, said>>

InvokeFails(h) ==
    /\ Goto(h, "invoke", "fail")
    /\ UNCHANGED <<canvasVars, task, money, cancel, said>>

\* scriptCard, shotCards, the patch of a refinement: the answer as a batch.
Answers(step, c) ==
    CASE step = "script" ->
            {<<CreateOp(d, NewCard(x, p, TRUE))>> :
                d \in {e \in FreshCards : KindOf[e] = "script"}, x \in Texts, p \in Params \ {BadParams}}
      [] step = "storyboard" ->
            {<<CreateOp(d, NewCard(EmptyText, p, TRUE))>> :
                d \in {e \in FreshCards : KindOf[e] = "shot"}, p \in Params \ {BadParams}}
      [] step = "refine" -> {<<UpdateOp(c, [text |-> x])>> : x \in Texts}
      [] step = "refine-shot" -> {<<UpdateOp(c, [params |-> p])>> : p \in Params \ {BadParams}}

ApplyAndCharge(h) ==        \* Mutant: a conflict is charged for
    /\ \E ops \in Answers(call[h].step, call[h].card) :
          IF Accepts(call[h].base, ops)
          THEN revision < MaxRevision /\ Goto(h, "apply", "charge") /\ CommitBatch(h, ops)
          ELSE Goto(h, "apply", "charge") /\ UNCHANGED <<canvas, revision, log, given>>
    /\ UNCHANGED <<trashed, tab, faults, task, money, cancel, said>>

\* Canvas.Apply with the revision of the snapshot decides between charge and refund.
Apply(h) ==
    /\ \E ops \in Answers(call[h].step, call[h].card) :
          IF Accepts(call[h].base, ops)
          THEN revision < MaxRevision /\ Goto(h, "apply", "charge") /\ CommitBatch(h, ops)
          ELSE Goto(h, "apply", "fail") /\ UNCHANGED <<canvas, revision, log, given>>
    /\ UNCHANGED <<trashed, tab, faults, task, money, cancel, said>>

\* chatBill.charge and refund: first the status, and only who has moved it
\* settles.
Charge(h) ==
    /\ Goto(h, "charge", IF task[h] = "running" THEN "settle" ELSE "say")
    /\ UpdateStatus(h, "succeeded")
    /\ UNCHANGED <<canvasVars, money, cancel, said>>

Settle(h) ==
    /\ Goto(h, "settle", "say")
    /\ money' = [money EXCEPT ![h] = IF @ = "held" THEN "charged" ELSE @]
    /\ UNCHANGED <<canvasVars, task, cancel, said>>

Fail(h) ==
    /\ Goto(h, "fail", IF task[h] = "running" THEN "refund" ELSE "done")
    /\ UpdateStatus(h, "failed")
    /\ UNCHANGED <<canvasVars, money, cancel, said>>

Refund(h) ==
    /\ Goto(h, "refund", "done")
    /\ money' = [money EXCEPT ![h] = IF @ = "held" THEN "refunded" ELSE @]
    /\ UNCHANGED <<canvasVars, task, cancel, said>>

\* The messages that go with the cards; a failure changes nothing any more.
Tell(h) ==
    /\ Goto(h, "say", "done")
    /\ said' = IF trashed THEN said
               ELSE said \cup {<<h, "assistant">>}
                         \cup IF call[h].step \in {"refine", "refine-shot"} THEN {<<h, "user">>} ELSE {}
    /\ UNCHANGED <<canvasVars, task, money, cancel>>

\* The process ends during the call.
Die(h) ==
    /\ faults < MaxFaults
    /\ call[h].pc \notin {"idle", "done", "dead"}
    /\ call' = [call EXCEPT ![h].pc = "dead"]
    /\ faults' = faults + 1
    /\ UNCHANGED <<trashed, revision, canvas, log, given, tab, task, money, cancel, said>>

----------------------------------------------------------------------------
(* cancelTask: the user sees the row among the running tasks.              *)

Cancel(h) ==
    /\ cancel[h] = "none" /\ task[h] = "running"
    /\ task' = [task EXCEPT ![h] = "canceled"]
    /\ cancel' = [cancel EXCEPT ![h] = "refund"]
    /\ UNCHANGED <<canvasVars, call, money, said>>

CancelRefund(h) ==
    /\ cancel[h] = "refund"
    /\ money' = [money EXCEPT ![h] = IF @ = "held" THEN "refunded" ELSE @]
    /\ cancel' = [cancel EXCEPT ![h] = "done"]
    /\ UNCHANGED <<canvasVars, call, task, said>>

ChatNext ==
    \E h \in Handlers :
        \/ Ask(h) \/ Read(h) \/ Refuse(h) \/ CreateTask(h) \/ Hold(h) \/ HoldFails(h) \/ Unheld(h)
        \/ Invoke(h) \/ InvokeFails(h) \/ Apply(h) \/ Charge(h) \/ Settle(h) \/ Fail(h) \/ Refund(h)
        \/ Tell(h) \/ Die(h) \/ Cancel(h) \/ CancelRefund(h)

Next == ChatNext \/ (CanvasNext /\ UNCHANGED chatVars)

Spec == Init /\ [][Next]_vars

----------------------------------------------------------------------------
(* Properties.                                                             *)

\* How many rows of the log the author of a batch had on his screen, or in his
\* snapshot, when he made it.
SeenBy(a) == IF a \in Tabs THEN tab[a].patch.seen ELSE call[a].seen

\* The optimistic lock (ApplyOps): whoever gets a batch accepted has seen every
\* change that somebody else has made.  What he may have missed is his own: the
\* screen of a tab can be replaced by a snapshot that is older than the request
\* it has under way.
NoBlindWrite ==
    [][\A i \in DOMAIN log' \ DOMAIN log :
          log'[i].by # Executor =>
              \A j \in SeenBy(log'[i].by) + 1 .. Len(log) : log[j].by = log'[i].by]_vars

\* The first n rows of a log, applied to an empty canvas.
Replay(rows) ==
    LET f[n \in Nat] == IF n = 0 THEN EmptyCanvas ELSE AfterBatch(f[n - 1], rows[n].ops)
    IN  f

Replayed == Replay(log)[Len(log)]

\* The list of results is no part of the operation that records one.
WithoutHistory(cv) == [cv EXCEPT !.cards = [c \in DOMAIN @ |-> [@[c] EXCEPT !.history = <<>>]]]

\* canvas_ops is what a canvas can be replayed from (ApplyOps, SetCardResult): its rows lead from
\* nothing to what the tables hold, and there is one row for each revision.
ReplayRebuilds ==
    /\ Len(log) = revision
    /\ WithoutHistory(Replayed) = WithoutHistory(canvas)

\* The texts of card c, in order: what an operation adds to them, a batch, a log.
GivesText(op, c) ==
    /\ op.id = c
    /\ op.type \in {"card.create", "card.update"}
    /\ "text" \in DOMAIN op.value

TextsAfter(texts, op, c) ==
    IF GivesText(op, c) /\ (texts = <<>> \/ texts[Len(texts)] # op.value.text)
    THEN Append(texts, op.value.text)
    ELSE texts

TextsAfterFirst(texts, ops, c) ==
    LET f[n \in 0 .. Len(ops)] == IF n = 0 THEN texts ELSE TextsAfter(f[n - 1], ops[n], c)
    IN  f

TextsAfterBatch(texts, ops, c) == TextsAfterFirst(texts, ops, c)[Len(ops)]

TextsOfFirst(rows, c) ==
    LET f[n \in 0 .. Len(rows)] == IF n = 0 THEN <<>> ELSE TextsAfterBatch(f[n - 1], rows[n].ops, c)
    IN  f

TextsGiven(c) == TextsOfFirst(log, c)[Len(log)]

\* The last MaxVersions texts before the present one, numbered from the first text on.
Earlier(texts) ==
    LET old == Latest(SubSeq(texts, 1, Len(texts) - 1), MaxVersions)
    IN  [k \in DOMAIN old |-> [rev |-> Len(texts) - 1 - Len(old) + k, text |-> old[k]]]

\* scriptVersionSet: a script has its text and, numbered without a gap, the last MaxVersions
\* texts it had before, whoever has changed it.
EveryTextKept ==
    \A c \in DOMAIN canvas.cards :
        KindOf[c] = "script" =>
            LET texts == TextsGiven(c)
                card == canvas.cards[c]
            IN  card.text = texts[Len(texts)] /\ card.versions = Earlier(texts)

Landed(h) == \E i \in DOMAIN log : log[i].by = h

\* The bill follows the product: what is charged is on the canvas, what is refunded is not,
\* unless the user has canceled the task under the call that then came through.
BillFollowsCanvas ==
    \A h \in Handlers :
        /\ money[h] = "charged" => Landed(h)
        /\ money[h] = "refunded" => ~Landed(h) \/ cancel[h] = "done"

\* A handler leaves no hold behind, unless its process has ended or a cancellation has looked
\* for the hold before it was there.
NoHoldLeft ==
    \A h \in Handlers :
        money[h] = "held" /\ call[h].pc = "done" /\ cancel[h] # "refund" => task[h] = "canceled"
=============================================================================
