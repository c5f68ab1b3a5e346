----------------------------- MODULE LeaseQueue -----------------------------
(***************************************************************************)
(* The queue of internal/store/mysql/queue.go: leases as two columns of    *)
(* the tasks table.  Claiming marks a row with one UPDATE and finds it     *)
(* again with a SELECT on the values just written, so each claim takes two *)
(* steps; keepAlive renews, and a lease nobody renews lapses, which is how *)
(* the work of a dead process comes back.                                  *)
(*                                                                         *)
(* Time is counted in milliseconds, the resolution of lease_expires_at,    *)
(* and backwards: left[t] is what remains until it, so two rows bear the   *)
(* same deadline exactly when the same is left of them.                    *)
(***************************************************************************)
EXTENDS Integers, FiniteSets

CONSTANTS
    Tasks,
    Procs,              \* processes, each with one lease owner
    Submitters,         \* submitLoop goroutines
    Proc,               \* Proc[g] is the process goroutine g lives in
    Age,                \* Age[t] orders tasks by created_at
    TTL,                \* LeaseTTL
    PollBatch,          \* how many rows one ClaimPoll marks at most
    DistinctDeadlines,  \* does a process write one deadline a millisecond?
    Stalls,             \* may a renewal come too late?
    MaxCrashes,         \* bound: how many processes crash
    NoProc, NoTask      \* NULLs

ASSUME QueueAssumption ==
    /\ Proc \in [Submitters -> Procs]
    /\ Age \in [Tasks -> Nat]
    /\ TTL \in Nat \ {0}
    /\ PollBatch \in Nat \ {0}
    /\ DistinctDeadlines \in BOOLEAN
    /\ Stalls \in BOOLEAN
    /\ MaxCrashes \in Nat
    /\ NoProc \notin Procs
    /\ NoTask \notin Tasks

VARIABLES
    status,     \* tasks.status, the terminal ones as "done"
    due,        \* has next_poll_at passed?
    owner,      \* tasks.lease_owner
    left,       \* milliseconds until lease_expires_at, Lapsed also for its NULL
    sub,        \* sub[g]: submitLoop goroutine g
    loop,       \* loop[p]: the pollLoop goroutine of process p
    polling,    \* Service.advancing: the tasks with a pollOne goroutine in p
    wrote,      \* the processes that have written a deadline in this millisecond
    crashes

row == <<status, due, owner, left>>
vars == <<status, due, owner, left, sub, loop, polling, wrote, crashes>>

Lapsed == -1
Left == Lapsed .. TTL

\* A goroutine is idle, between the UPDATE and the SELECT of a claim, or at work.
\* marked is a history variable: the rows its UPDATE marked.
Idle == [pc |-> "idle", task |-> NoTask, deadline |-> Lapsed, marked |-> {}]
Claims == [pc : {"idle", "marked", "working"}, task : Tasks \cup {NoTask},
           deadline : Left, marked : SUBSET Tasks]

TypeOK ==
    /\ status \in [Tasks -> {"queued", "running", "done"}]
    /\ due \in [Tasks -> BOOLEAN]
    /\ owner \in [Tasks -> Procs \cup {NoProc}]
    /\ left \in [Tasks -> Left]
    /\ sub \in [Submitters -> Claims]
    /\ \A g \in Submitters : sub[g].pc = "working" => sub[g].task \in Tasks
    /\ loop \in [Procs -> Claims]
    /\ polling \in [Procs -> SUBSET Tasks]
    /\ wrote \subseteq Procs
    /\ crashes \in 0 .. MaxCrashes

Init ==
    /\ status = [t \in Tasks |-> "queued"]
    /\ due = [t \in Tasks |-> FALSE]
    /\ owner = [t \in Tasks |-> NoProc]
    /\ left = [t \in Tasks |-> Lapsed]
    /\ sub = [g \in Submitters |-> Idle]
    /\ loop = [p \in Procs |-> Idle]
    /\ polling = [p \in Procs |-> {}]
    /\ wrote = {}
    /\ crashes = 0

\* Somebody in process p works at t; keepAlive renews its lease.
Holds(p, t) ==
    \/ t \in polling[p]
    \/ \E g \in Submitters :
          Proc[g] = p /\ sub[g].pc = "working" /\ sub[g].task = t

\* Mutant: only lease_expires_at IS NULL is looked for.
FreeUnleased(t) == owner[t] = NoProc

\* lease_expires_at IS NULL OR lease_expires_at < NOW(3).
Free(t) == left[t] = Lapsed

\* UPDATE ... SET lease_owner = p, lease_expires_at = now + TTL on the rows S.
Mark(p, S) ==
    /\ DistinctDeadlines => p \notin wrote
    /\ wrote' = wrote \cup {p}
    /\ owner' = [t \in Tasks |-> IF t \in S THEN p ELSE owner[t]]
    /\ left' = [t \in Tasks |-> IF t \in S THEN TTL ELSE left[t]]

\* Release: no effect on rows that p does not have.
Drop(p, S) ==
    LET mine == {t \in S : owner[t] = p}
    IN  /\ owner' = [t \in Tasks |-> IF t \in mine THEN NoProc ELSE owner[t]]
        /\ left' = [t \in Tasks |-> IF t \in mine THEN Lapsed ELSE left[t]]

-----------------------------------------------------------------------------
(* Claim: a queued task for a submit worker *)

\* Mutant: the WHERE of Claim does not look at the lease.
ClaimAnyway(g) ==
    /\ sub[g].pc = "idle"
    /\ \E t \in {u \in Tasks : status[u] = "queued"} :
          /\ Mark(Proc[g], {t})
          /\ sub' = [sub EXCEPT ![g] = [pc |-> "marked", task |-> NoTask,
                                        deadline |-> TTL, marked |-> {t}]]
    /\ UNCHANGED <<status, due, loop, polling, crashes>>

\* The UPDATE marks the oldest queued task that is free.
Claim(g) ==
    LET free == {t \in Tasks : status[t] = "queued" /\ Free(t)}
    IN  /\ sub[g].pc = "idle"
        /\ \E t \in free :
              /\ \A u \in free : Age[t] <= Age[u]
              /\ Mark(Proc[g], {t})
              /\ sub' = [sub EXCEPT ![g] = [pc |-> "marked", task |-> NoTask,
                                            deadline |-> TTL, marked |-> {t}]]
        /\ UNCHANGED <<status, due, loop, polling, crashes>>

\* The rows a SELECT on owner, deadline and status finds.
Matching(p, deadline, s) ==
    {t \in Tasks : owner[t] = p /\ left[t] = deadline /\ status[t] = s}

\* readLeases, LIMIT 1 without an order; no row when the task was canceled.
ReadBack(g) ==
    LET found == Matching(Proc[g], sub[g].deadline, "queued")
    IN  /\ sub[g].pc = "marked"
        /\ \/ \E t \in found :
                 sub' = [sub EXCEPT ![g].pc = "working", ![g].task = t]
           \/ found = {} /\ sub' = [sub EXCEPT ![g] = Idle]
        /\ UNCHANGED <<row, loop, polling, wrote, crashes>>

\* Run makes the task running before it calls the upstream; when it is not queued
\* any more the lease is given back.
Begin(g) ==
    LET t == sub[g].task
    IN  /\ sub[g].pc = "working"
        /\ \/ /\ status[t] = "queued"
              /\ status' = [status EXCEPT ![t] = "running"]
              /\ UNCHANGED <<owner, left, sub>>
           \/ /\ status[t] = "done"
              /\ Drop(Proc[g], {t})
              /\ sub' = [sub EXCEPT ![g] = Idle]
              /\ UNCHANGED status
        /\ UNCHANGED <<due, loop, polling, wrote, crashes>>

\* Run ends the task, or hands it to the pollers; the lease is given back.
Finish(g) ==
    LET t == sub[g].task
    IN  /\ sub[g].pc = "working"
        /\ status[t] = "running"
        /\ \/ status' = [status EXCEPT ![t] = "done"] /\ UNCHANGED due
           \/ due' = [due EXCEPT ![t] = TRUE] /\ UNCHANGED status
        /\ Drop(Proc[g], {t})
        /\ sub' = [sub EXCEPT ![g] = Idle]
        /\ UNCHANGED <<loop, polling, wrote, crashes>>

-----------------------------------------------------------------------------
(* ClaimPoll: running tasks for poll goroutines *)

\* As many as are due and free, up to the limit; which of them come first by
\* next_poll_at is left open.
ClaimPoll(p) ==
    LET free == {t \in Tasks : status[t] = "running" /\ due[t] /\ Free(t)}
    IN  /\ loop[p].pc = "idle"
        /\ \E S \in SUBSET free :
              /\ S # {}
              /\ Cardinality(S) <= PollBatch
              /\ S = free \/ Cardinality(S) = PollBatch
              /\ Mark(p, S)
              /\ loop' = [loop EXCEPT ![p] = [pc |-> "marked", task |-> NoTask,
                                              deadline |-> TTL, marked |-> S]]
        /\ UNCHANGED <<status, due, sub, polling, crashes>>

\* One pollOne goroutine for each row read back; a task this process is advancing
\* already is given back.
ReadBackPolls(p) ==
    LET found == Matching(p, loop[p].deadline, "running")
        n == Cardinality(loop[p].marked)
    IN  /\ loop[p].pc = "marked"
        /\ \E S \in SUBSET found :
              /\ Cardinality(S) <= n
              /\ S = found \/ Cardinality(S) = n
              /\ polling' = [polling EXCEPT ![p] = @ \cup S]
              /\ Drop(p, S \cap polling[p])
        /\ loop' = [loop EXCEPT ![p] = Idle]
        /\ UNCHANGED <<status, due, sub, wrote, crashes>>

\* The task ends or is scheduled again, and is given back.
PollDone(p, t) ==
    /\ t \in polling[p]
    /\ polling' = [polling EXCEPT ![p] = @ \ {t}]
    /\ status' = [status EXCEPT ![t] = "done"] \/ UNCHANGED status
    /\ Drop(p, {t})
    /\ UNCHANGED <<due, sub, loop, wrote, crashes>>

-----------------------------------------------------------------------------
(* Leases and time *)

\* Renew asks for the owner and for nothing else: a lease that has lapsed, and
\* that nobody took, is good again.
Renew(p, t) ==
    /\ Holds(p, t)
    /\ owner[t] = p
    /\ left[t] < TTL
    /\ Mark(p, {t})
    /\ UNCHANGED <<status, due, sub, loop, polling, crashes>>

\* A millisecond passes.  Renewals are in time unless a process stalls, and a
\* SELECT never takes as long as a lease.
Tick ==
    /\ ~Stalls => \A p \in Procs, t \in Tasks :
          Holds(p, t) /\ owner[t] = p => left[t] > 0
    /\ \A g \in Submitters : sub[g].pc = "marked" => sub[g].deadline > 0
    /\ \A p \in Procs : loop[p].pc = "marked" => loop[p].deadline > 0
    /\ left' = [t \in Tasks |-> IF left[t] = Lapsed THEN Lapsed ELSE left[t] - 1]
    /\ sub' = [g \in Submitters |->
          IF sub[g].pc = "marked" THEN [sub[g] EXCEPT !.deadline = @ - 1] ELSE sub[g]]
    /\ loop' = [p \in Procs |->
          IF loop[p].pc = "marked" THEN [loop[p] EXCEPT !.deadline = @ - 1] ELSE loop[p]]
    /\ wrote' = {}
    /\ UNCHANGED <<status, due, owner, polling, crashes>>

\* A cancellation ends the task and drops its lease.
Cancel(t) ==
    /\ status[t] # "done"
    /\ status' = [status EXCEPT ![t] = "done"]
    /\ owner' = [owner EXCEPT ![t] = NoProc]
    /\ left' = [left EXCEPT ![t] = Lapsed]
    /\ UNCHANGED <<due, sub, loop, polling, wrote, crashes>>

\* The goroutines are gone, the rows keep the leases.
Crash(p) ==
    /\ crashes < MaxCrashes
    /\ crashes' = crashes + 1
    /\ sub' = [g \in Submitters |-> IF Proc[g] = p THEN Idle ELSE sub[g]]
    /\ loop' = [loop EXCEPT ![p] = Idle]
    /\ polling' = [polling EXCEPT ![p] = {}]
    /\ UNCHANGED <<row, wrote>>

SubmitStep(g) == ReadBack(g) \/ Begin(g) \/ Finish(g)

Next ==
    \/ \E g \in Submitters : Claim(g) \/ SubmitStep(g)
    \/ \E p \in Procs :
          \/ ClaimPoll(p) \/ ReadBackPolls(p) \/ Crash(p)
          \/ \E t \in Tasks : PollDone(p, t) \/ Renew(p, t)
    \/ \E t \in Tasks : Cancel(t)
    \/ Tick

Spec == Init /\ [][Next]_vars

\* Goroutines are scheduled and time passes; a task that can be claimed for a poll
\* again and again is claimed, for the one whose poll is due longest comes first.
Fairness ==
    /\ WF_vars(Tick)
    /\ \A g \in Submitters : SF_vars(Claim(g)) /\ WF_vars(SubmitStep(g))
    /\ \A p \in Procs :
          /\ WF_vars(ReadBackPolls(p))
          /\ \A t \in Tasks : WF_vars(PollDone(p, t)) /\ WF_vars(Renew(p, t))
    /\ \A t \in Tasks : SF_vars(\E p \in Procs : ClaimPoll(p) /\ t \in loop'[p].marked)

FairSpec == Spec /\ Fairness

-----------------------------------------------------------------------------
(* Properties *)

\* As long as renewals are in time, nobody works at a task without its lease, and
\* so no two goroutines of any processes work at the same task: a generation is
\* not submitted, and paid for, twice (queue.go Claim, Renew).
OneWorker ==
    \A t \in Tasks :
        /\ \A p \in Procs : Holds(p, t) /\ status[t] # "done" => owner[t] = p
        /\ \A g, h \in Submitters :
              /\ sub[g].pc = "working" /\ sub[g].task = t
              /\ sub[h].pc = "working" /\ sub[h].task = t
              => g = h
        /\ \A g \in Submitters, p \in Procs :
              ~(sub[g].pc = "working" /\ sub[g].task = t /\ t \in polling[p])

\* A queued task gets a worker, even if the process that had leased it died, or
\* never got to see it.
QueuedIsServed ==
    \A t \in Tasks : status[t] = "queued" ~>
        status[t] # "queued" \/ \E p \in Procs : Holds(p, t)

Abstract == INSTANCE Leases WITH
    lease <- [t \in Tasks |-> IF left[t] = Lapsed THEN NoProc ELSE owner[t]]

\* Rows and deadlines implement leases that nobody takes from their holder, also
\* when renewals come too late and deadlines collide.
ImplementsLeases == Abstract!Spec
=============================================================================
