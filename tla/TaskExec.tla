------------------------------ MODULE TaskExec ------------------------------
(***************************************************************************)
(* The life of a generation task: the row of table tasks, and everything   *)
(* that writes it.  HTTP handlers create a task and hold its cost, cancel  *)
(* it and requeue it (internal/httpapi); submit workers, poll goroutines   *)
(* and webhook callbacks of several processes run it (internal/executor)   *)
(* under a lease of the queue (store/mysql/queue.go); the ledger settles   *)
(* it.  One step is one statement on the database or one upstream call.    *)
(*                                                                         *)
(* The ledger is seen through money[t]; CreditLedger has its rows.  A cost *)
(* is positive: a task that costs nothing has nothing to settle.           *)
(***************************************************************************)
EXTENDS Integers, FiniteSets

CONSTANTS
    Tasks,
    Procs,          \* processes of aigcd, each with one lease owner
    Submitters,     \* submitLoop goroutines
    Pollers,        \* pollOne goroutines
    Hooks,          \* HTTP handlers of upstream callbacks
    Cancellers,     \* HTTP handlers of a cancellation, by the user or an admin
    Proc,           \* Proc[g] is the process goroutine g lives in
    SubmitMax,      \* SubmitRetry.MaxAttempts
    PollMax,        \* PollRetry.MaxAttempts
    MaxAttempt,     \* bound: attempts are counted no further
    MaxRequeues,    \* bound: how often an administrator requeues a task
    MaxRestarts,    \* bound: how many processes crash or stop
    Crashes,        \* may a process die without being stopped?
    DbFaults,       \* may a statement on the database fail?
    Stalls,         \* may a lease expire under a living goroutine?
    PromptHold,     \* does Hold return before anybody else sees the task?
    NoProc,         \* NULL of lease_owner
    NoTask

Goroutines == Submitters \cup Pollers \cup Hooks \cup Cancellers

ASSUME ExecAssumption ==
    /\ Proc \in [Goroutines -> Procs]
    /\ NoProc \notin Procs
    /\ NoTask \notin Tasks
    /\ SubmitMax \in Nat \ {0}
    /\ PollMax \in Nat \ {0}
    /\ MaxAttempt \in Nat /\ MaxAttempt >= SubmitMax /\ MaxAttempt >= PollMax
    /\ MaxRequeues \in Nat
    /\ MaxRestarts \in Nat
    /\ Crashes \in BOOLEAN
    /\ DbFaults \in BOOLEAN
    /\ Stalls \in BOOLEAN
    /\ PromptHold \in BOOLEAN
    /\ Cancellers \cap (Submitters \cup Pollers \cup Hooks) = {}
    /\ Submitters \cap Hooks = {}

VARIABLES
    status,     \* tasks.status, "absent" before the INSERT
    lease,      \* tasks.lease_owner, NoProc also once the lease has expired
    ref,        \* is tasks.upstream_ref set?
    due,        \* is tasks.next_poll_at set?
    attempt,    \* tasks.attempt
    money,      \* the ledger's rows of the task
    stored,     \* have products of the task been stored as assets?
    jobs,       \* how many jobs the upstream accepted for the task
    upstream,   \* state of the latest of them
    pending,    \* the process whose handler is between Create and Hold
    requeues,   \* how often the task was requeued
    run,        \* run[g]: where goroutine g stands, and with what in its hands
    stopping,   \* the processes whose run context is canceled
    restarts

row == <<status, lease, ref, due>>
world == <<stored, jobs, upstream>>
procs == <<stopping, restarts>>
vars == <<status, lease, ref, due, attempt, money, stored, jobs, upstream,
          pending, requeues, run, stopping, restarts>>

Terminal == {"succeeded", "failed", "canceled"}
Active == {"queued", "running"}
Statuses == Terminal \cup Active \cup {"absent"}

\* What the ledger says of a task: no row; a hold; a hold and its settlement;
\* a settlement alone; a settlement and, after it, a hold nobody can settle.
Settled == {"charged", "refunded"}
Moneys == Settled \cup {"none", "held", "void", "stranded"}

\* Where the goroutines stop between two steps.  Those of the first set run
\* under a context that Stop, or a webhook's caller, may cancel.
Cancelable == {"prepare", "submit", "record", "schedule", "ask", "transfer",
               "succeed", "fail", "cancel"}
Points == Cancelable \cup {"idle", "charge", "refund", "release", "get", "outer",
                           "outerRefund"}

\* seen is the status the goroutine works from, first the one an HTTP cancel
\* handler read, tries the attempts as submitWithRetry counts them.
Runs == [pc : Points, task : Tasks \cup {NoTask}, seen : Active, first : Active,
         tries : 0 .. MaxAttempt]

Idle == [pc |-> "idle", task |-> NoTask, seen |-> "queued", first |-> "queued",
         tries |-> 0]

TypeOK ==
    /\ status \in [Tasks -> Statuses]
    /\ lease \in [Tasks -> Procs \cup {NoProc}]
    /\ ref \in [Tasks -> BOOLEAN]
    /\ due \in [Tasks -> BOOLEAN]
    /\ attempt \in [Tasks -> 0 .. MaxAttempt]
    /\ money \in [Tasks -> Moneys]
    /\ stored \in [Tasks -> BOOLEAN]
    /\ jobs \in [Tasks -> Nat]
    /\ upstream \in [Tasks -> {"none", "working"} \cup Terminal]
    /\ pending \in [Tasks -> Procs \cup {NoProc}]
    /\ requeues \in [Tasks -> 0 .. MaxRequeues]
    /\ run \in [Goroutines -> Runs]
    /\ \A g \in Goroutines : run[g].task = NoTask => run[g] = Idle
    /\ stopping \subseteq Procs
    /\ restarts \in 0 .. MaxRestarts

Init ==
    /\ status = [t \in Tasks |-> "absent"]
    /\ lease = [t \in Tasks |-> NoProc]
    /\ ref = [t \in Tasks |-> FALSE]
    /\ due = [t \in Tasks |-> FALSE]
    /\ attempt = [t \in Tasks |-> 0]
    /\ money = [t \in Tasks |-> "none"]
    /\ stored = [t \in Tasks |-> FALSE]
    /\ jobs = [t \in Tasks |-> 0]
    /\ upstream = [t \in Tasks |-> "none"]
    /\ pending = [t \in Tasks |-> NoProc]
    /\ requeues = [t \in Tasks |-> 0]
    /\ run = [g \in Goroutines |-> Idle]
    /\ stopping = {}
    /\ restarts = 0

-----------------------------------------------------------------------------
(* Statements of the store *)

\* Mutant: the UPDATE has no WHERE status = expect.
UpdateStatusAlways(t, expect, next) ==
    /\ status' = [status EXCEPT ![t] = next]
    /\ UNCHANGED <<lease, due>>

\* UpdateStatus returns nil: it moved the row on, or finds it there already.
\* A terminal status also drops the lease and the next poll.
UpdateStatus(t, expect, next) ==
    /\ status[t] \in {expect, next}
    /\ status' = [status EXCEPT ![t] = next]
    /\ IF status[t] = expect /\ next \in Terminal
       THEN /\ lease' = [lease EXCEPT ![t] = NoProc]
            /\ due' = [due EXCEPT ![t] = FALSE]
       ELSE UNCHANGED <<lease, due>>

\* UpdateStatus returns 409.
Conflict(t, expect, next) == status[t] \notin {expect, next}

\* Charge refuses more than was held, so it settles nothing before the hold.
Charge(t) ==
    money' = [money EXCEPT ![t] = IF @ = "held" THEN "charged" ELSE @]

\* Mutant: a task that was charged is refunded all the same.
RefundCharged(t) ==
    money' = [money EXCEPT ![t] = CASE @ \in {"held", "charged"} -> "refunded"
                                    [] @ = "none" -> "void"
                                    [] OTHER -> @]

\* Refund settles a task that holds nothing, and the key of that settlement
\* keeps out every later one.
Refund(t) ==
    money' = [money EXCEPT ![t] = CASE @ = "held" -> "refunded"
                                    [] @ = "none" -> "void"
                                    [] OTHER -> @]

\* IncrementAttempt.  Only SubmitMax and PollMax are ever compared with it.
OneMore(n) == IF n < MaxAttempt THEN n + 1 ELSE n

\* Release has no effect unless the lease belongs to the goroutine's process.
ReleaseLease(g, t) ==
    lease' = [lease EXCEPT ![t] = IF @ = Proc[g] THEN NoProc ELSE @]

-----------------------------------------------------------------------------
(* Goroutines *)

At(g, pc) == run[g].pc = pc

Goto(g, pc) == run' = [run EXCEPT ![g].pc = pc]

GotoSeeing(g, pc, seen) == run' = [run EXCEPT ![g].pc = pc, ![g].seen = seen]

\* The call returns: a cancel handler goes on with its own UPDATE, any other
\* goroutine is done.
Return(g) == IF g \in Cancellers
             THEN Goto(g, "outer")
             ELSE run' = [run EXCEPT ![g] = Idle]

\* The step needs a context that is still alive.
Live(g, pc) == At(g, pc) /\ (g \in Submitters \cup Pollers => Proc[g] \notin stopping)

\* Service.advancing: the tasks a process is about to advance.
Advancing(p, t) ==
    \E g \in Pollers \cup Hooks : Proc[g] = p /\ run[g].task = t

\* Work at a task leases it; keepAlive renews that lease until the work is done.
Renewing(p, t) ==
    \E g \in Submitters \cup Pollers : Proc[g] = p /\ run[g].task = t

-----------------------------------------------------------------------------
(* HTTP: submitting, canceling, requeueing *)

\* The row is there from the INSERT on, for the queue and for the task list.
Visible(t) == PromptHold => pending[t] = NoProc

\* The INSERT comes first: the rows of the ledger refer to it.
Create(p, t) ==
    /\ status[t] = "absent"
    /\ status' = [status EXCEPT ![t] = "queued"]
    /\ pending' = [pending EXCEPT ![t] = p]
    /\ UNCHANGED <<lease, ref, due, attempt, money, world, requeues, run, procs>>

Hold(t) ==
    /\ pending[t] # NoProc
    /\ pending' = [pending EXCEPT ![t] = NoProc]
    /\ money' = [money EXCEPT ![t] = IF @ = "none" THEN "held" ELSE "stranded"]
    /\ UNCHANGED <<row, attempt, world, requeues, run, procs>>

\* Other tasks took the balance between its check and Hold, or the client hung
\* up: a task that is still queued fails, the outcome of that UPDATE is ignored.
HoldFails(t) ==
    /\ pending[t] # NoProc
    /\ pending' = [pending EXCEPT ![t] = NoProc]
    /\ \/ UpdateStatus(t, "queued", "failed")
       \/ Conflict(t, "queued", "failed") /\ UNCHANGED <<status, lease, due>>
    /\ UNCHANGED <<ref, attempt, money, world, requeues, run, procs>>

\* The handler reads the task and refuses a terminal one.
BeginCancel(g, t) ==
    /\ At(g, "idle")
    /\ status[t] \in Active
    /\ Visible(t)
    /\ run' = [run EXCEPT ![g] = [Idle EXCEPT !.pc = "get", !.task = t,
                                              !.first = status[t]]]
    /\ UNCHANGED <<row, attempt, money, world, pending, requeues, procs>>

\* Runner.Cancel reads it again; its errors are only logged.
CancelGet(g) ==
    LET t == run[g].task
    IN  /\ At(g, "get")
        /\ \/ status[t] \in Active /\ GotoSeeing(g, "cancel", status[t])
           \/ status[t] \in Terminal /\ Goto(g, "outer")
        /\ UNCHANGED <<row, attempt, money, world, pending, requeues, procs>>

\* The handler's own UPDATE from the status it read first: another cancellation
\* counts as its own, anything else is a 409.
CancelOuter(g) ==
    LET t == run[g].task
    IN  /\ At(g, "outer")
        /\ \/ UpdateStatus(t, run[g].first, "canceled") /\ Goto(g, "outerRefund")
           \/ /\ Conflict(t, run[g].first, "canceled")
              /\ run' = [run EXCEPT ![g] = Idle]
              /\ UNCHANGED <<status, lease, due>>
        /\ UNCHANGED <<ref, attempt, money, world, pending, requeues, procs>>

CancelOuterRefund(g) ==
    /\ At(g, "outerRefund")
    /\ Refund(run[g].task)
    /\ run' = [run EXCEPT ![g] = Idle]
    /\ UNCHANGED <<row, attempt, world, pending, requeues, procs>>

\* An administrator sends a terminal task round again: no hold is taken, the
\* attempts are kept.
Requeue(t) ==
    /\ status[t] \in Terminal
    /\ requeues[t] < MaxRequeues
    /\ requeues' = [requeues EXCEPT ![t] = @ + 1]
    /\ status' = [status EXCEPT ![t] = "queued"]
    /\ lease' = [lease EXCEPT ![t] = NoProc]
    /\ ref' = [ref EXCEPT ![t] = FALSE]
    /\ due' = [due EXCEPT ![t] = FALSE]
    /\ UNCHANGED <<attempt, money, world, pending, run, procs>>

-----------------------------------------------------------------------------
(* Submitting to the upstream: Run *)

\* Mutant: a lease that is held does not keep the task from being claimed.
ClaimLeased(g, t) ==
    /\ Live(g, "idle")
    /\ status[t] = "queued"
    /\ lease' = [lease EXCEPT ![t] = Proc[g]]
    /\ run' = [run EXCEPT ![g] = [Idle EXCEPT !.pc = "prepare", !.task = t]]
    /\ UNCHANGED <<status, ref, due, attempt, money, world, pending, requeues, procs>>

\* The oldest queued task that nobody leases, of a provider whose breaker is not
\* open; a task of an open one waits.
Claim(g, t) ==
    /\ Live(g, "idle")
    /\ status[t] = "queued"
    /\ lease[t] = NoProc
    /\ Visible(t)
    /\ lease' = [lease EXCEPT ![t] = Proc[g]]
    /\ run' = [run EXCEPT ![g] = [Idle EXCEPT !.pc = "prepare", !.task = t,
                                              !.tries = IF attempt[t] = 0 THEN 1
                                                        ELSE attempt[t]]]
    /\ UNCHANGED <<status, ref, due, attempt, money, world, pending, requeues, procs>>

\* Configuration, breaker and inputs are in order: the task becomes running
\* before the upstream hears of it.  On a conflict somebody else took it.
Prepare(g) ==
    LET t == run[g].task
    IN  /\ Live(g, "prepare")
        /\ \/ UpdateStatus(t, "queued", "running") /\ GotoSeeing(g, "submit", "running")
           \/ /\ Conflict(t, "queued", "running")
              /\ Goto(g, "release")
              /\ UNCHANGED <<status, lease, due>>
        /\ UNCHANGED <<ref, attempt, money, world, pending, requeues, procs>>

\* They are not: the task fails from the status it was claimed in.
Unprepared(g) ==
    /\ Live(g, "prepare")
    /\ Goto(g, "fail")
    /\ UNCHANGED <<row, attempt, money, world, pending, requeues, procs>>

\* The upstream answers with a reference or with the products themselves, as the
\* driver does that the model is configured with by now.
Submit(g) ==
    LET t == run[g].task
    IN  /\ Live(g, "submit")
        /\ jobs' = [jobs EXCEPT ![t] = @ + 1]
        /\ \/ upstream' = [upstream EXCEPT ![t] = "working"] /\ Goto(g, "record")
           \/ UNCHANGED upstream /\ Goto(g, "transfer")
        /\ UNCHANGED <<row, attempt, money, stored, pending, requeues, procs>>

\* A transient error, with attempts left: the column counts on, the loop takes
\* its value only if that is ahead of its own.
SubmitAgain(g) ==
    LET t == run[g].task
        next == OneMore(attempt[t])
    IN  /\ Live(g, "submit")
        /\ run[g].tries < SubmitMax
        /\ attempt' = [attempt EXCEPT ![t] = next]
        /\ run' = [run EXCEPT ![g].tries = IF next > @ THEN next ELSE OneMore(@)]
        /\ UNCHANGED <<row, money, world, pending, requeues, procs>>

\* An error no retry helps against, attempts used up, or an answer without
\* products or reference.
SubmitFails(g) ==
    /\ Live(g, "submit")
    /\ Goto(g, "fail")
    /\ UNCHANGED <<row, attempt, money, world, pending, requeues, procs>>

\* SetUpstreamRef, whatever the status of the row is by now; an error is only
\* logged.  The answer may also say that the job has failed or was canceled.
Record(g) ==
    /\ Live(g, "record")
    /\ \/ ref' = [ref EXCEPT ![run[g].task] = TRUE]
       \/ DbFaults /\ UNCHANGED ref
    /\ \E pc \in {"schedule", "fail", "cancel"} : Goto(g, pc)
    /\ UNCHANGED <<status, lease, due, attempt, money, world, pending, requeues, procs>>

\* Mutant: the task is given back without the next poll being set.
ScheduleNothing(g) ==
    /\ Live(g, "schedule")
    /\ Goto(g, "release")
    /\ UNCHANGED <<row, attempt, money, world, pending, requeues, procs>>

\* SetNextPoll hands the task to the pollers, again whatever its status.
Schedule(g) ==
    /\ Live(g, "schedule")
    /\ due' = [due EXCEPT ![run[g].task] = TRUE]
    /\ Goto(g, "release")
    /\ UNCHANGED <<status, lease, ref, attempt, money, world, pending, requeues, procs>>

-----------------------------------------------------------------------------
(* Advancing: a poll that is due, or an upstream callback *)

\* A task without a reference is given back at once, and so is one this process
\* is advancing already: nothing has changed then.
ClaimPoll(g, t) ==
    /\ Live(g, "idle")
    /\ status[t] = "running" /\ due[t] /\ lease[t] = NoProc
    /\ ref[t]
    /\ ~Advancing(Proc[g], t)
    /\ lease' = [lease EXCEPT ![t] = Proc[g]]
    /\ run' = [run EXCEPT ![g] = [Idle EXCEPT !.pc = "ask", !.task = t,
                                              !.seen = "running"]]
    /\ UNCHANGED <<status, ref, due, attempt, money, world, pending, requeues, procs>>

\* A callback only brings the next poll forward.  It takes no lease.
Webhook(g, t) ==
    /\ At(g, "idle")
    /\ status[t] \in Active
    /\ ref[t]
    /\ ~Advancing(Proc[g], t)
    /\ run' = [run EXCEPT ![g] = [Idle EXCEPT !.pc = "ask", !.task = t,
                                              !.seen = status[t]]]
    /\ UNCHANGED <<row, attempt, money, world, pending, requeues, procs>>

\* What the upstream says is taken up by the next step.
AfterAsk(t) == CASE upstream[t] = "succeeded" -> {"transfer", "fail"}
                 [] upstream[t] = "failed" -> {"fail"}
                 [] upstream[t] = "canceled" -> {"cancel"}
                 [] OTHER -> {"schedule"}

\* The upstream answers, and the reference is written back with what it said,
\* onto whatever row the task is by now; a task still queued is made running
\* before the answer is taken up.  A success without products is a failure.
Ask(g) ==
    LET t == run[g].task
    IN  /\ Live(g, "ask")
        /\ ref' = [ref EXCEPT ![t] = TRUE] \/ UNCHANGED ref
        /\ \/ /\ run[g].seen = "queued" => UpdateStatus(t, "queued", "running")
              /\ run[g].seen = "running" => UNCHANGED <<status, lease, due>>
              /\ \E pc \in AfterAsk(t) : GotoSeeing(g, pc, "running")
           \/ /\ run[g].seen = "queued" /\ Conflict(t, "queued", "running")
              /\ Goto(g, "release")
              /\ UNCHANGED <<status, lease, due>>
        /\ UNCHANGED <<attempt, money, world, pending, requeues, procs>>

\* The question itself fails: it is put again later, unless the error is final
\* or the attempts are used up.
AskFails(g) ==
    LET t == run[g].task
        next == OneMore(attempt[t])
    IN  /\ Live(g, "ask")
        /\ attempt' = [attempt EXCEPT ![t] = next]
        /\ \/ next < PollMax /\ Goto(g, "schedule")
           \/ Goto(g, "fail")
        /\ UNCHANGED <<row, money, world, pending, requeues, procs>>

\* The model or its provider is gone: the task fails without a question asked.
Unanswerable(g) ==
    /\ Live(g, "ask")
    /\ Goto(g, "fail")
    /\ UNCHANGED <<row, attempt, money, world, pending, requeues, procs>>

-----------------------------------------------------------------------------
(* Ending a task: finish, fail, cancelTask *)

\* Mutant: the task succeeds whether or not its products could be stored.
TransferLater(g) ==
    LET t == run[g].task
    IN  /\ Live(g, "transfer")
        /\ stored' = [stored EXCEPT ![t] = TRUE] \/ UNCHANGED stored
        /\ Goto(g, "succeed")
        /\ UNCHANGED <<row, attempt, money, jobs, upstream, pending, requeues, procs>>

\* The products are stored before the task may be called succeeded.
Transfer(g) ==
    LET t == run[g].task
    IN  /\ Live(g, "transfer")
        /\ \/ stored' = [stored EXCEPT ![t] = TRUE] /\ Goto(g, "succeed")
           \/ UNCHANGED stored /\ Goto(g, "fail")
        /\ UNCHANGED <<row, attempt, money, jobs, upstream, pending, requeues, procs>>

\* One UPDATE decides who ends the task: the one it lets through goes on to the
\* money, a loser does not touch it.
End(g, pc, expect, next, paying, Lose) ==
    LET t == run[g].task
    IN  /\ Live(g, pc)
        /\ \/ UpdateStatus(t, expect, next) /\ Goto(g, paying)
           \/ Conflict(t, expect, next) /\ Lose /\ UNCHANGED <<status, lease, due>>
        /\ UNCHANGED <<ref, attempt, money, world, pending, requeues, procs>>

\* Mutant: the one who fails the task leaves its hold alone.
FailWithoutRefund(g) ==
    End(g, "fail", run[g].seen, "failed", "release", Goto(g, "release"))

Succeed(g) == End(g, "succeed", "running", "succeeded", "charge", Goto(g, "release"))

Fail(g) == End(g, "fail", run[g].seen, "failed", "refund", Goto(g, "release"))

\* A cancellation that lost returns without giving the lease back.
CancelTask(g) == End(g, "cancel", run[g].seen, "canceled", "refund", Return(g))

\* The money is settled under a context nobody can cancel.
Settle(g) ==
    LET t == run[g].task
    IN  /\ \/ At(g, "charge") /\ Charge(t)
           \/ At(g, "refund") /\ Refund(t)
        /\ Goto(g, "release")
        /\ UNCHANGED <<row, attempt, world, pending, requeues, procs>>

\* The lease is dropped for the whole process: which of its goroutines holds it
\* is not recorded.
Release(g) ==
    /\ At(g, "release")
    /\ ReleaseLease(g, run[g].task)
    /\ Return(g)
    /\ UNCHANGED <<status, ref, due, attempt, money, world, pending, requeues, procs>>

-----------------------------------------------------------------------------
(* Faults and the upstream *)

\* The context of the run, or of the callback's request, is gone, or the
\* database does not answer: what the goroutine still had to write is skipped,
\* up to giving the lease back.
Interrupt(g) ==
    /\ run[g].pc \in Cancelable
    /\ \/ g \in Hooks
       \/ g \in Submitters \cup Pollers /\ (Proc[g] \in stopping \/ DbFaults)
    /\ Goto(g, "release")
    /\ UNCHANGED <<row, attempt, money, world, pending, requeues, procs>>

Stop(p) ==
    /\ p \notin stopping
    /\ restarts < MaxRestarts
    /\ restarts' = restarts + 1
    /\ stopping' = stopping \cup {p}
    /\ UNCHANGED <<row, attempt, money, world, pending, requeues, run>>

GiveUp(p) == lease' = [t \in Tasks |-> IF lease[t] = p THEN NoProc ELSE lease[t]]

\* All workers have returned; what leases are left are given up, and a new
\* process takes the place of the old one.
Restart(p) ==
    /\ p \in stopping
    /\ \A g \in Submitters \cup Pollers : Proc[g] = p => At(g, "idle")
    /\ GiveUp(p)
    /\ stopping' = stopping \ {p}
    /\ UNCHANGED <<status, ref, due, attempt, money, world, pending, requeues, run,
                   restarts>>

\* A crash takes the goroutines and the open requests with it.  The leases stay
\* in the table until they expire, and until then nobody claims them.
Crash(p) ==
    /\ Crashes
    /\ restarts < MaxRestarts
    /\ restarts' = restarts + 1
    /\ run' = [g \in Goroutines |-> IF Proc[g] = p THEN Idle ELSE run[g]]
    /\ pending' = [t \in Tasks |-> IF pending[t] = p THEN NoProc ELSE pending[t]]
    /\ GiveUp(p)
    /\ stopping' = stopping \ {p}
    /\ UNCHANGED <<status, ref, due, attempt, money, world, requeues>>

\* lease_expires_at passes: nobody renews the lease, or its holder has stalled.
Expire(t) ==
    /\ lease[t] # NoProc
    /\ Stalls \/ ~Renewing(lease[t], t)
    /\ lease' = [lease EXCEPT ![t] = NoProc]
    /\ UNCHANGED <<status, ref, due, attempt, money, world, pending, requeues, run,
                   procs>>

UpstreamEnds(t) ==
    /\ upstream[t] = "working"
    /\ \E outcome \in Terminal : upstream' = [upstream EXCEPT ![t] = outcome]
    /\ UNCHANGED <<row, attempt, money, stored, jobs, pending, requeues, run, procs>>

-----------------------------------------------------------------------------
SubmitStep(g) ==
    \/ Prepare(g) \/ Unprepared(g) \/ Submit(g) \/ SubmitAgain(g) \/ SubmitFails(g)
    \/ Record(g)

AdvanceStep(g) == Ask(g) \/ AskFails(g) \/ Unanswerable(g)

CancelStep(g) == CancelGet(g) \/ CancelOuter(g) \/ CancelOuterRefund(g)

EndStep(g) ==
    \/ Schedule(g) \/ Transfer(g) \/ Succeed(g) \/ Fail(g) \/ CancelTask(g)
    \/ Settle(g) \/ Release(g)

\* What goroutine g does next with the task in its hands.
Step(g) == SubmitStep(g) \/ AdvanceStep(g) \/ CancelStep(g) \/ EndStep(g)

HandlerStep(t) == Hold(t) \/ HoldFails(t)

Next ==
    \/ \E t \in Tasks :
          \/ \E p \in Procs : Create(p, t)
          \/ HandlerStep(t)
          \/ Requeue(t)
          \/ \E g \in Cancellers : BeginCancel(g, t)
          \/ \E g \in Submitters : Claim(g, t)
          \/ \E g \in Pollers : ClaimPoll(g, t)
          \/ \E g \in Hooks : Webhook(g, t)
          \/ Expire(t)
          \/ UpstreamEnds(t)
    \/ \E g \in Goroutines : Step(g) \/ Interrupt(g)
    \/ \E p \in Procs : Stop(p) \/ Restart(p) \/ Crash(p)

Spec == Init /\ [][Next]_vars

\* The scheduler runs every goroutine and handler on; the queue is served in the
\* order of created_at and of next_poll_at, so a task that can be claimed again
\* and again is claimed; leases expire and the upstream ends its jobs.
Fairness ==
    /\ \A g \in Goroutines : WF_vars(Step(g))
    /\ \A t \in Tasks :
          /\ WF_vars(HandlerStep(t))
          /\ SF_vars(\E g \in Submitters : Claim(g, t))
          /\ SF_vars(\E g \in Pollers : ClaimPoll(g, t))
          /\ WF_vars(Expire(t))
          /\ WF_vars(UpstreamEnds(t))
    /\ \A p \in Procs : WF_vars(Restart(p))

FairSpec == Spec /\ Fairness

-----------------------------------------------------------------------------
(* Properties *)

\* Somebody has the task in hand: a goroutine, or the handler that submits it.
InHand(t) == pending[t] # NoProc \/ \E g \in Goroutines : run[g].task = t

\* The money follows the status: a charge is booked only for a task the user
\* sees succeeded, a refund only for one he sees failed or canceled, whichever
\* of worker, poll, callback and cancellation ends it (runner.go finish, fail,
\* cancelTask; handlers_tasks.go cancelTask).
SettledAsShown ==
    \A t \in Tasks : requeues[t] = 0 =>
        /\ money[t] = "charged" => status[t] = "succeeded"
        /\ money[t] = "refunded" => status[t] \in {"failed", "canceled"}

\* A task shown as succeeded has its products in storage (runner.go finish: the
\* order must not be reversed).
SucceededHasProducts ==
    \A t \in Tasks : status[t] = "succeeded" => stored[t]

\* Once nobody works on an ended task any more, nothing of the user's balance
\* stays frozen for it.
NothingStaysFrozen ==
    \A t \in Tasks :
        status[t] \in Terminal /\ ~InHand(t) => money[t] \notin {"held", "stranded"}

\* A running task is in somebody's hands or on the poll schedule with the
\* reference the poll needs (runner.go Run: there is no third case).
RunningIsTended ==
    \A t \in Tasks : status[t] = "running" /\ ~InHand(t) => due[t] /\ ref[t]

\* One generation is paid for once, as long as leases are kept and nobody
\* requeues the task: claiming, retrying, polling and callbacks never send a
\* second job upstream.
PaidOnce == \A t \in Tasks : ~Stalls /\ requeues[t] = 0 => jobs[t] <= 1

\* A terminal status is final; only an administrator's requeue leaves it.
TerminalIsFinal ==
    [][\A t \in Tasks : status[t] \in Terminal =>
          status'[t] = status[t] \/ Requeue(t)]_vars

\* Every submitted task ends.
EveryTaskEnds == \A t \in Tasks : status[t] \in Active ~> status[t] \in Terminal

-----------------------------------------------------------------------------
(* Refinement *)

\* Every task costs 1, which its user has for it.
Paid(t) == money[t] \in Settled \cup {"held", "stranded"}
Back(t) == money[t] = "refunded"

Money == INSTANCE CreditAccounts WITH
    Users <- Tasks,
    Owner <- [t \in Tasks |-> t],
    HoldAmounts <- {1},
    TopupAmounts <- {},
    available <- [t \in Tasks |-> IF Paid(t) /\ ~Back(t) THEN 0 ELSE 1],
    frozen <- [t \in Tasks |-> IF Paid(t) THEN 1 ELSE -1],
    returned <- [t \in Tasks |-> IF Back(t) THEN 1 ELSE 0],
    closed <- {t \in Tasks : money[t] \in Settled \cup {"void", "stranded"}}

\* Whatever becomes of a task, its money moves only as the accounts allow: it is
\* frozen once and closed once, and a charge keeps what a refund gives back.
MovesMoneyAsAccounts == [][Money!Next]_(Money!vars)
=============================================================================
