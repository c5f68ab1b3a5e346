------------------------------ MODULE Breaker ------------------------------
(***************************************************************************)
(* The circuit breakers of internal/executor/breakers.go, one per upstream *)
(* provider, in the memory of one process, and their callers: submit       *)
(* workers that ask before they call (claim, Run and submitWithRetry of    *)
(* runner.go), and pollers, which never ask but do report (advance and     *)
(* pollFailed of poller.go).  Allow, Success, Failure and State each hold  *)
(* the mutex, so each is one step.                                         *)
(***************************************************************************)
EXTENDS Integers, FiniteSets

CONSTANTS
    Providers,
    Workers,            \* submitLoop goroutines of the process
    Pollers,            \* pollOne goroutines of the process
    FailureThreshold,   \* BreakerConfig
    HalfOpenProbes,     \* BreakerConfig
    MaxAttempts,        \* SubmitRetry.MaxAttempts
    MaxFailures,        \* bound: failures are counted no further
    Withdrawals,        \* providers for which Run may return between Allow and the call
    JobsFail,           \* providers that may answer a poll with a failed job
    NoProvider

ASSUME BreakerAssumption ==
    /\ IsFiniteSet(Workers)
    /\ FailureThreshold \in Nat \ {0}
    /\ HalfOpenProbes \in Nat \ {0}
    /\ MaxAttempts \in Nat \ {0}
    /\ MaxFailures \in Nat /\ MaxFailures >= FailureThreshold
    /\ Withdrawals \subseteq Providers
    /\ JobsFail \subseteq Providers
    /\ Workers \cap Pollers = {}
    /\ NoProvider \notin Providers

VARIABLES
    state,      \* breakerEntry.state
    failures,   \* breakerEntry.failures
    probes,     \* breakerEntry.probesInFlight
    ripe,       \* has nextProbeAt passed?
    run,        \* run[g]: where goroutine g stands, and for which provider
    up,         \* the providers that work: they answer, their jobs succeed
    probing,    \* history: the calls let through since the breaker became half open
    streak      \* history: calls and jobs that failed since the last that did not

entry == <<state, failures, probes, ripe>>
vars == <<state, failures, probes, ripe, run, up, probing, streak>>

Goroutines == Workers \cup Pollers

\* A worker holds a claimed task, has been let through, or calls the upstream.
\* A poller asks about a job, then knows that the job failed.
Runs == [pc : {"idle", "claimed", "admitted", "calling", "asking", "jobFailed"},
         provider : Providers \cup {NoProvider}, tries : 0 .. MaxAttempts]

Idle == [pc |-> "idle", provider |-> NoProvider, tries |-> 0]

TypeOK ==
    /\ state \in [Providers -> {"closed", "open", "half_open"}]
    /\ failures \in [Providers -> 0 .. MaxFailures]
    /\ probes \in [Providers -> 0 .. HalfOpenProbes]
    /\ ripe \in [Providers -> BOOLEAN]
    /\ run \in [Goroutines -> Runs]
    /\ \A g \in Goroutines : run[g].pc # "idle" => run[g].provider \in Providers
    /\ up \subseteq Providers
    /\ probing \in [Providers -> SUBSET Workers]
    /\ streak \in [Providers -> 0 .. MaxFailures]

Init ==
    /\ state = [p \in Providers |-> "closed"]
    /\ failures = [p \in Providers |-> 0]
    /\ probes = [p \in Providers |-> 0]
    /\ ripe = [p \in Providers |-> FALSE]
    /\ run = [g \in Goroutines |-> Idle]
    /\ up = Providers
    /\ probing = [p \in Providers |-> {}]
    /\ streak = [p \in Providers |-> 0]

At(g, pc) == run[g].pc = pc
Goto(g, pc) == run' = [run EXCEPT ![g].pc = pc]
Done(g) == run' = [run EXCEPT ![g] = Idle]
OneMore(n) == IF n < MaxFailures THEN n + 1 ELSE n

-----------------------------------------------------------------------------
(* The breaker *)

\* Mutant: State is the stored state.
ShownAsStored(p) == state[p]

\* State: an open breaker whose time has come shows as half open.
Shown(p) == IF state[p] = "open" /\ ripe[p] THEN "half_open" ELSE state[p]

\* Allow lets the call through; it moves an open breaker on, no timer does.
Allow(g, p) ==
    \/ /\ state[p] = "closed"
       /\ UNCHANGED <<entry, probing>>
    \/ /\ state[p] = "open" /\ ripe[p]
       /\ state' = [state EXCEPT ![p] = "half_open"]
       /\ probes' = [probes EXCEPT ![p] = 1]
       /\ probing' = [probing EXCEPT ![p] = {g}]
       /\ UNCHANGED <<failures, ripe>>
    \/ /\ state[p] = "half_open" /\ probes[p] < HalfOpenProbes
       /\ probes' = [probes EXCEPT ![p] = @ + 1]
       /\ probing' = [probing EXCEPT ![p] = @ \cup {g}]
       /\ UNCHANGED <<state, failures, ripe>>

Refuses(p) ==
    \/ state[p] = "open" /\ ~ripe[p]
    \/ state[p] = "half_open" /\ probes[p] >= HalfOpenProbes

\* Success closes the breaker, whatever it was.
Success(p) ==
    /\ state' = [state EXCEPT ![p] = "closed"]
    /\ failures' = [failures EXCEPT ![p] = 0]
    /\ probes' = [probes EXCEPT ![p] = 0]
    /\ ripe' = [ripe EXCEPT ![p] = FALSE]
    /\ probing' = [probing EXCEPT ![p] = {}]

Opens(p) ==
    \/ state[p] = "half_open"
    \/ state[p] = "closed" /\ failures[p] + 1 >= FailureThreshold

\* Mutant: the breaker opens one failure late.
FailureOffByOne(p) ==
    IF \/ state[p] = "half_open"
       \/ state[p] = "closed" /\ failures[p] >= FailureThreshold
    THEN /\ state' = [state EXCEPT ![p] = "open"]
         /\ failures' = [failures EXCEPT ![p] = OneMore(@)]
         /\ probes' = [probes EXCEPT ![p] = 0]
         /\ ripe' = [ripe EXCEPT ![p] = FALSE]
         /\ probing' = [probing EXCEPT ![p] = {}]
    ELSE /\ failures' = [failures EXCEPT ![p] = OneMore(@)]
         /\ UNCHANGED <<state, probes, ripe, probing>>

\* Failure opens the breaker at the threshold, and again at once while it is half
\* open; a failure reported while it is open is only counted.
Failure(p) ==
    IF Opens(p)
    THEN /\ state' = [state EXCEPT ![p] = "open"]
         /\ failures' = [failures EXCEPT ![p] =
                IF state[p] = "half_open" THEN @ ELSE OneMore(@)]
         /\ probes' = [probes EXCEPT ![p] = 0]
         /\ ripe' = [ripe EXCEPT ![p] = FALSE]
         /\ probing' = [probing EXCEPT ![p] = {}]
    ELSE /\ failures' = [failures EXCEPT ![p] = OneMore(@)]
         /\ UNCHANGED <<state, probes, ripe, probing>>

\* OpenDuration has passed since the breaker opened.
Elapse(p) ==
    /\ state[p] = "open" /\ ~ripe[p]
    /\ ripe' = [ripe EXCEPT ![p] = TRUE]
    /\ UNCHANGED <<state, failures, probes, run, up, probing, streak>>

-----------------------------------------------------------------------------
(* Submit workers *)

\* claim: AvailableProviders leaves out the providers that show as open, the
\* queue has a task of any other.
Claim(g, p) ==
    /\ At(g, "idle")
    /\ Shown(p) # "open"
    /\ run' = [run EXCEPT ![g] = [pc |-> "claimed", provider |-> p, tries |-> 1]]
    /\ UNCHANGED <<entry, up, probing, streak>>

\* Run asks again before it calls; a task it refuses fails, its hold is refunded.
AskLeave(g) ==
    LET p == run[g].provider
    IN  /\ At(g, "claimed")
        /\ \/ Allow(g, p) /\ Goto(g, "admitted")
           \/ Refuses(p) /\ Done(g) /\ UNCHANGED <<entry, probing>>
        /\ UNCHANGED <<up, streak>>

\* Run returns early: the inputs cannot be resolved, or the task is no longer
\* queued.  The breaker hears nothing.
Withdraw(g) ==
    /\ At(g, "admitted")
    /\ run[g].provider \in Withdrawals
    /\ Done(g)
    /\ probing' = [p \in Providers |-> probing[p] \ {g}]
    /\ UNCHANGED <<entry, up, streak>>

Call(g) ==
    /\ At(g, "admitted")
    /\ Goto(g, "calling")
    /\ UNCHANGED <<entry, up, probing, streak>>

\* Mutant: an error that is the request's own fault is not reported.
CallSucceedsUnreported(g) ==
    /\ At(g, "calling")
    /\ \/ Success(run[g].provider)
       \/ /\ UNCHANGED entry
          /\ probing' = [p \in Providers |-> probing[p] \ {g}]
    /\ streak' = [streak EXCEPT ![run[g].provider] = 0]
    /\ Done(g)
    /\ UNCHANGED up

\* The upstream accepts, or refuses for a reason that is the request's own.
CallSucceeds(g) ==
    /\ At(g, "calling")
    /\ Success(run[g].provider)
    /\ streak' = [streak EXCEPT ![run[g].provider] = 0]
    /\ Done(g)
    /\ UNCHANGED up

\* A transient error: the worker calls again, without asking the breaker, as
\* long as it has attempts left and its context lives.
CallFails(g) ==
    LET p == run[g].provider
    IN  /\ At(g, "calling")
        /\ p \notin up
        /\ Failure(p)
        /\ streak' = [streak EXCEPT ![p] = OneMore(@)]
        /\ \/ Done(g)
           \/ /\ run[g].tries < MaxAttempts
              /\ run' = [run EXCEPT ![g].tries = @ + 1]
        /\ UNCHANGED up

-----------------------------------------------------------------------------
(* Pollers *)

\* ClaimPoll takes running tasks of any provider, open breaker or not.
Ask(g, p) ==
    /\ At(g, "idle")
    /\ run' = [run EXCEPT ![g] = [Idle EXCEPT !.pc = "asking", !.provider = p]]
    /\ UNCHANGED <<entry, up, probing, streak>>

\* The upstream answers, which counts as a success before the answer is read.
PollAnswers(g) ==
    LET p == run[g].provider
    IN  /\ At(g, "asking")
        /\ Success(p)
        /\ \/ Done(g) /\ streak' = [streak EXCEPT ![p] = 0]
           \/ p \in JobsFail \ up /\ Goto(g, "jobFailed") /\ UNCHANGED streak
        /\ UNCHANGED up

\* The answer was that the job failed for a reason that is the provider's.
JobFails(g) ==
    LET p == run[g].provider
    IN  /\ At(g, "jobFailed")
        /\ Failure(p)
        /\ streak' = [streak EXCEPT ![p] = OneMore(@)]
        /\ Done(g)
        /\ UNCHANGED up

PollFails(g) ==
    LET p == run[g].provider
    IN  /\ At(g, "asking")
        /\ p \notin up
        /\ Failure(p)
        /\ streak' = [streak EXCEPT ![p] = OneMore(@)]
        /\ Done(g)
        /\ UNCHANGED up

-----------------------------------------------------------------------------
\* The upstream of p breaks down, or comes back.
Change(p) ==
    /\ up' = IF p \in up THEN up \ {p} ELSE up \cup {p}
    /\ UNCHANGED <<entry, run, probing, streak>>

\* What a worker does with the task it has.
Work(g) ==
    \/ AskLeave(g) \/ Withdraw(g) \/ Call(g)
    \/ CallSucceeds(g) \/ CallFails(g)

Poll(g) == PollAnswers(g) \/ JobFails(g) \/ PollFails(g)

Next ==
    \/ \E p \in Providers : Elapse(p) \/ Change(p)
    \/ \E g \in Workers : Work(g) \/ \E p \in Providers : Claim(g, p)
    \/ \E g \in Pollers : Poll(g) \/ \E p \in Providers : Ask(g, p)

Spec == Init /\ [][Next]_vars

\* Goroutines are scheduled, time passes, and a provider that may be claimed from
\* again and again is: its tasks get old, and the queue serves the oldest first.
Fairness ==
    /\ \A g \in Workers : WF_vars(Work(g))
    /\ \A g \in Pollers : WF_vars(Poll(g))
    /\ \A p \in Providers :
          /\ WF_vars(Elapse(p))
          /\ SF_vars(\E g \in Workers : Claim(g, p))

FairSpec == Spec /\ Fairness

-----------------------------------------------------------------------------
(* Properties *)

\* A provider that has just come back is not stormed: between two changes of its
\* breaker no more calls are let through than the configuration allows, whatever
\* is reported by calls and polls that began before (breakers.go Allow).
ProbesLimited == \A p \in Providers : Cardinality(probing[p]) <= HalfOpenProbes

\* Those who must report before a half-open breaker moves on are out and will.
ProbesOut(p) ==
    state[p] = "half_open" =>
        /\ probes[p] > 0
        /\ probes[p] = Cardinality(probing[p])
        /\ \A g \in probing[p] :
              run[g].pc \in {"admitted", "calling"} /\ run[g].provider = p

\* As long as no worker withdraws, whatever probes a half-open breaker waits for
\* are out with a worker that will report: refusing everybody else ends when they
\* do (breakers.go, comment on probesInFlight).
ProbeIsOut == \A p \in Providers \ Withdrawals : ProbesOut(p)

Trips(p) == streak[p] >= FailureThreshold => state[p] # "closed"

\* So many failed calls in a row open the breaker, where polls bring no failed
\* jobs (breakers.go Failure).
TripsOnStreak == \A p \in Providers \ JobsFail : Trips(p)

\* Once a provider works for good, and no worker withdraws, its breaker closes for
\* good: it is probed until then, whatever calls and polls from bad times still
\* report (breakers.go Allow, AvailableProviders).
Recovers ==
    \A p \in Providers \ Withdrawals : <>[](p \in up) => <>[](state[p] = "closed")
=============================================================================
