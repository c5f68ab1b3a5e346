--------------------------- MODULE BreakerProofs ---------------------------
(***************************************************************************)
(* Proofs about Breaker, for any providers, workers, thresholds and limits.*)
(***************************************************************************)
EXTENDS Breaker, FiniteSetTheorems, TLAPS

-----------------------------------------------------------------------------
(* The inductive invariant *)

\* The calls let through since the breaker became half open are still out, and
\* the breaker counts each of them.
ProbesCounted ==
    \A p \in Providers :
        /\ Cardinality(probing[p]) <= probes[p]
        /\ state[p] # "half_open" => probing[p] = {} /\ probes[p] = 0
        /\ \A g \in probing[p] :
              run[g].pc \in {"admitted", "calling"} /\ run[g].provider = p

\* Without withdrawals it counts no other, and a half-open one waits for at least one.
ProbesExact ==
    \A p \in Providers \ Withdrawals : state[p] = "half_open" =>
        probes[p] > 0 /\ probes[p] = Cardinality(probing[p])

\* A closed breaker is below its threshold.
ClosedBelow ==
    \A p \in Providers : state[p] = "closed" =>
        /\ failures[p] < FailureThreshold
        /\ p \notin JobsFail => streak[p] <= failures[p]

\* No poller reports a failed job of a provider that has none.
NoJobFailed ==
    \A g \in Goroutines : run[g].pc = "jobFailed" => run[g].provider \in JobsFail

IInv == TypeOK /\ ProbesCounted /\ ProbesExact /\ ClosedBelow /\ NoJobFailed

-----------------------------------------------------------------------------
(* The operations of a breaker *)

\* Sets of workers are finite.
LEMMA ProbingFinite ==
    ASSUME TypeOK, NEW p \in Providers
    PROVE  /\ IsFiniteSet(probing[p])
           /\ Cardinality(probing[p]) \in Nat
<1>1. probing[p] \subseteq Workers
  BY DEF TypeOK
<1> QED
  BY <1>1, BreakerAssumption, FS_Subset, FS_CardinalityType

\* The breaker and the goroutines of a step, apart from provider p and goroutine g:
\* what g has in its hands it has for p, and the breaker of p ends up with no probe
\* out or with those it had.
Reported(p, g) ==
    /\ \A x \in Providers \ {p} :
          /\ state'[x] = state[x] /\ failures'[x] = failures[x]
          /\ probes'[x] = probes[x] /\ probing'[x] = probing[x]
          /\ streak'[x] = streak[x]
    /\ \A h \in Goroutines \ {g} : run'[h] = run[h]
    /\ state'[p] # "half_open" /\ probing'[p] = {} /\ probes'[p] = 0
    /\ state'[p] = "closed" =>
          failures'[p] < FailureThreshold /\ (p \notin JobsFail => streak'[p] <= failures'[p])

\* After a report nothing is left of the probes of its provider.
LEMMA ReportKeeps ==
    ASSUME IInv, TypeOK', NoJobFailed', NEW p \in Providers, NEW g \in Goroutines,
           g \in Workers => run[g].provider = p, g \notin Workers \/ run[g].pc # "idle",
           Reported(p, g)
    PROVE  IInv'
<1>1. Cardinality({}) = 0
  BY FS_EmptySet
<1>2. \A x \in Providers \ {p} : g \notin probing[x]
  BY DEF IInv, ProbesCounted, TypeOK
<1>3. \A x \in Providers : probing[x] \subseteq Goroutines
  BY DEF IInv, TypeOK, Goroutines
<1>4. ProbesCounted'
  <2> SUFFICES ASSUME NEW x \in Providers
               PROVE  /\ Cardinality(probing'[x]) <= probes'[x]
                      /\ state'[x] # "half_open" => probing'[x] = {} /\ probes'[x] = 0
                      /\ \A h \in probing'[x] :
                            run'[h].pc \in {"admitted", "calling"} /\ run'[h].provider = x
    BY DEF ProbesCounted
  <2>1. CASE x = p
    BY <1>1, <2>1 DEF Reported
  <2>2. CASE x # p
    <3>1. /\ state'[x] = state[x] /\ probes'[x] = probes[x] /\ probing'[x] = probing[x]
          /\ \A h \in probing[x] : run'[h] = run[h]
      BY <1>2, <1>3, <2>2 DEF Reported
    <3> QED
      BY <3>1 DEF IInv, ProbesCounted
  <2> QED
    BY <2>1, <2>2
<1>5. ProbesExact'
  BY DEF IInv, ProbesExact, Reported
<1>6. ClosedBelow'
  BY DEF IInv, ClosedBelow, Reported
<1> QED
  BY <1>4, <1>5, <1>6 DEF IInv

\* Success leaves a closed breaker that has counted nothing.
LEMMA SuccessReports ==
    ASSUME IInv, NEW p \in Providers, NEW g \in Goroutines, Success(p),
           \A h \in Goroutines \ {g} : run'[h] = run[h],
           \A x \in Providers \ {p} : streak'[x] = streak[x],
           p \notin JobsFail => streak'[p] = 0
    PROVE  Reported(p, g)
<1> QED
  BY BreakerAssumption DEF Success, Reported, IInv, TypeOK

\* Failure leaves an open breaker, or a closed one still below its threshold.
LEMMA FailureReports ==
    ASSUME IInv, NEW p \in Providers, NEW g \in Goroutines, Failure(p),
           \A h \in Goroutines \ {g} : run'[h] = run[h],
           streak' = [streak EXCEPT ![p] = OneMore(@)]
    PROVE  Reported(p, g)
<1>1. /\ failures[p] \in 0 .. MaxFailures /\ streak[p] \in 0 .. MaxFailures
      /\ state[p] \in {"closed", "open", "half_open"}
  BY DEF IInv, TypeOK
<1>2. \A x \in Providers \ {p} :
          /\ state'[x] = state[x] /\ failures'[x] = failures[x]
          /\ probes'[x] = probes[x] /\ probing'[x] = probing[x]
          /\ streak'[x] = streak[x]
  BY DEF Failure, IInv, TypeOK
<1>3. CASE Opens(p)
  <2>1. state'[p] = "open" /\ probing'[p] = {} /\ probes'[p] = 0
    BY <1>3 DEF Failure, IInv, TypeOK
  <2> QED
    BY <1>2, <2>1 DEF Reported
<1>4. CASE ~Opens(p)
  <2>1. /\ state'[p] = state[p] /\ state[p] # "half_open"
        /\ probing'[p] = probing[p] /\ probes'[p] = probes[p]
        /\ failures'[p] = OneMore(failures[p]) /\ streak'[p] = OneMore(streak[p])
    BY <1>4 DEF Failure, Opens, IInv, TypeOK
  <2>2. probing'[p] = {} /\ probes'[p] = 0
    BY <2>1 DEF IInv, ProbesCounted
  <2>3. ASSUME state[p] = "closed"
        PROVE  /\ failures'[p] < FailureThreshold
               /\ p \notin JobsFail => streak'[p] <= failures'[p]
    <3>1. failures[p] + 1 < FailureThreshold
      BY <1>1, <1>4, <2>3, BreakerAssumption DEF Opens
    <3>2. p \notin JobsFail => streak[p] <= failures[p]
      BY <2>3 DEF IInv, ClosedBelow
    <3> QED
      BY <1>1, <2>1, <3>1, <3>2, BreakerAssumption DEF OneMore
  <2> QED
    BY <1>2, <2>1, <2>2, <2>3 DEF Reported
<1> QED
  BY <1>3, <1>4

-----------------------------------------------------------------------------
(* The steps *)

\* Nobody reports yet: goroutine g takes up a task or goes a step further, and
\* the breakers stand still.
LEMMA StepAsideKeeps ==
    ASSUME IInv, NEW g \in Goroutines,
           UNCHANGED <<state, failures, probes, probing, streak>>,
           TypeOK', NoJobFailed',
           \A h \in Goroutines \ {g} : run'[h] = run[h],
           \/ \A p \in Providers : g \notin probing[p]
           \/ run'[g].pc \in {"admitted", "calling"} /\ run'[g].provider = run[g].provider
    PROVE  IInv'
<1>1. ProbesCounted'
  <2>1. \A p \in Providers : \A h \in probing[p] :
            run'[h].pc \in {"admitted", "calling"} /\ run'[h].provider = p
    BY DEF IInv, ProbesCounted, TypeOK, Goroutines
  <2> QED
    BY <2>1 DEF IInv, ProbesCounted
<1>2. ProbesExact' /\ ClosedBelow'
  BY DEF IInv, ProbesExact, ClosedBelow
<1> QED
  BY <1>1, <1>2 DEF IInv

\* Types are kept by every step.
LEMMA TypesKept ==
    ASSUME IInv, Next
    PROVE  TypeOK'
<1> USE BreakerAssumption DEF IInv, TypeOK, entry
<1>1. \A n \in 0 .. MaxFailures : OneMore(n) \in 0 .. MaxFailures
  BY DEF OneMore
<1>2. Idle \in Runs
  BY DEF Idle, Runs
<1>3. ASSUME NEW p \in Providers, Elapse(p) \/ Change(p) PROVE TypeOK'
  BY <1>3 DEF Elapse, Change
<1>4. ASSUME NEW p \in Providers, Success(p)
      PROVE  /\ state' \in [Providers -> {"closed", "open", "half_open"}]
             /\ failures' \in [Providers -> 0 .. MaxFailures]
             /\ probes' \in [Providers -> 0 .. HalfOpenProbes]
             /\ ripe' \in [Providers -> BOOLEAN]
             /\ probing' \in [Providers -> SUBSET Workers]
  BY <1>4 DEF Success
<1>5. ASSUME NEW p \in Providers, Failure(p)
      PROVE  /\ state' \in [Providers -> {"closed", "open", "half_open"}]
             /\ failures' \in [Providers -> 0 .. MaxFailures]
             /\ probes' \in [Providers -> 0 .. HalfOpenProbes]
             /\ ripe' \in [Providers -> BOOLEAN]
             /\ probing' \in [Providers -> SUBSET Workers]
  <2>1. OneMore(failures[p]) \in 0 .. MaxFailures
    BY <1>1
  <2>2. CASE Opens(p)
    <3>1. (IF state[p] = "half_open" THEN failures[p] ELSE OneMore(failures[p]))
              \in 0 .. MaxFailures
      BY <2>1
    <3>2. failures' \in [Providers -> 0 .. MaxFailures]
      BY <1>5, <2>2, <3>1 DEF Failure
    <3>3. probes' \in [Providers -> 0 .. HalfOpenProbes]
      BY <1>5, <2>2 DEF Failure
    <3> QED
      BY <1>5, <2>2, <3>2, <3>3 DEF Failure
  <2>3. CASE ~Opens(p)
    BY <1>5, <2>1, <2>3 DEF Failure
  <2> QED
    BY <2>2, <2>3
<1>6. ASSUME NEW g \in Workers, NEW p \in Providers, Allow(g, p)
      PROVE  /\ state' \in [Providers -> {"closed", "open", "half_open"}]
             /\ failures' \in [Providers -> 0 .. MaxFailures]
             /\ probes' \in [Providers -> 0 .. HalfOpenProbes]
             /\ ripe' \in [Providers -> BOOLEAN]
             /\ probing' \in [Providers -> SUBSET Workers]
  BY <1>6 DEF Allow
<1>7. ASSUME NEW g \in Goroutines, Done(g)
      PROVE  /\ run' \in [Goroutines -> Runs]
             /\ \A h \in Goroutines : run'[h].pc # "idle" => run'[h].provider \in Providers
  BY <1>2, <1>7 DEF Done, Idle
<1>8. ASSUME NEW g \in Goroutines, NEW pc, Goto(g, pc), ~At(g, "idle"),
             pc \in {"admitted", "calling", "jobFailed"}
      PROVE  /\ run' \in [Goroutines -> Runs]
             /\ \A h \in Goroutines : run'[h].pc # "idle" => run'[h].provider \in Providers
  BY <1>8 DEF Goto, At, Runs
<1>9. ASSUME NEW g \in Workers, NEW p \in Providers, Claim(g, p) PROVE TypeOK'
  BY <1>9 DEF Claim, Goroutines, Runs
<1>10. ASSUME NEW g \in Pollers, NEW p \in Providers, Ask(g, p) PROVE TypeOK'
  <2>1. [Idle EXCEPT !.pc = "asking", !.provider = p] \in Runs
    BY <1>2 DEF Runs, Idle
  <2>2. run' \in [Goroutines -> Runs]
    BY <1>10, <2>1 DEF Ask, Goroutines
  <2>3. \A h \in Goroutines : run'[h].pc # "idle" => run'[h].provider \in Providers
    BY <1>10 DEF Ask, Idle
  <2> QED
    BY <1>10, <2>2, <2>3 DEF Ask
<1>11. ASSUME NEW g \in Workers, Work(g) PROVE TypeOK'
  <2>1. g \in Goroutines
    BY DEF Goroutines
  <2>2. ~At(g, "idle") => run[g].provider \in Providers
    BY <2>1 DEF At
  <2>3. ASSUME AskLeave(g) PROVE TypeOK'
    <3>1. ~At(g, "idle")
      BY <2>3 DEF AskLeave, At
    <3> QED
      BY <1>6, <1>7, <1>8, <2>1, <2>2, <2>3, <3>1 DEF AskLeave
  <2>5. ASSUME Withdraw(g) PROVE TypeOK'
    <3>1. probing' \in [Providers -> SUBSET Workers]
      BY <2>5 DEF Withdraw
    <3> QED
      BY <1>7, <2>1, <2>5, <3>1 DEF Withdraw
  <2>6. ASSUME Call(g) PROVE TypeOK'
    <3>1. ~At(g, "idle")
      BY <2>6 DEF Call, At
    <3> QED
      BY <1>8, <2>1, <2>6, <3>1 DEF Call
  <2>7. ASSUME CallSucceeds(g) PROVE TypeOK'
    <3>1. run[g].provider \in Providers
      BY <2>2, <2>7 DEF CallSucceeds, At
    <3>2. streak' \in [Providers -> 0 .. MaxFailures]
      <4>1. 0 \in 0 .. MaxFailures
        OBVIOUS
      <4> QED
        BY <2>7, <4>1 DEF CallSucceeds
    <3> QED
      BY <1>4, <1>7, <2>1, <2>7, <3>1, <3>2 DEF CallSucceeds
  <2>8. ASSUME CallFails(g) PROVE TypeOK'
    <3>1. run[g].provider \in Providers
      BY <2>2, <2>8 DEF CallFails, At
    <3>2. streak' \in [Providers -> 0 .. MaxFailures]
      BY <1>1, <2>8 DEF CallFails
    <3>3. /\ run' \in [Goroutines -> Runs]
          /\ \A h \in Goroutines : run'[h].pc # "idle" => run'[h].provider \in Providers
      <4>1. CASE Done(g)
        BY <1>7, <2>1, <4>1
      <4>2. CASE run[g].tries < MaxAttempts /\ run' = [run EXCEPT ![g].tries = @ + 1]
        BY <2>1, <4>2 DEF Runs
      <4> QED
        BY <2>8, <4>1, <4>2 DEF CallFails
    <3> QED
      BY <1>5, <2>8, <3>1, <3>2, <3>3 DEF CallFails
  <2> QED
    BY <1>11, <2>3, <2>5, <2>6, <2>7, <2>8 DEF Work
<1>12. ASSUME NEW g \in Pollers, Poll(g) PROVE TypeOK'
  <2>1. g \in Goroutines /\ ~At(g, "idle") /\ run[g].provider \in Providers
    BY <1>12 DEF Goroutines, Poll, PollAnswers, JobFails, PollFails, At
  <2>2. ASSUME PollAnswers(g) PROVE TypeOK'
    <3>1. streak' \in [Providers -> 0 .. MaxFailures]
      BY <2>2 DEF PollAnswers
    <3> QED
      BY <1>4, <1>7, <1>8, <2>1, <2>2, <3>1 DEF PollAnswers
  <2>3. ASSUME JobFails(g) \/ PollFails(g) PROVE TypeOK'
    <3>1. streak' \in [Providers -> 0 .. MaxFailures]
      BY <1>1, <2>3 DEF JobFails, PollFails
    <3> QED
      BY <1>5, <1>7, <2>1, <2>3, <3>1 DEF JobFails, PollFails
  <2> QED
    BY <1>12, <2>2, <2>3 DEF Poll
<1> QED
  BY <1>3, <1>9, <1>10, <1>11, <1>12 DEF Next

\* Every step keeps the invariant.
LEMMA NextKeeps == IInv /\ [Next]_vars => IInv'
<1> SUFFICES ASSUME IInv, [Next]_vars PROVE IInv'
  OBVIOUS
<1>1. CASE UNCHANGED vars
  BY <1>1 DEF vars, entry, IInv, TypeOK, ProbesCounted, ProbesExact, ClosedBelow,
              NoJobFailed
<1>2. CASE Next
  <2> USE DEF entry
  <2>1. TypeOK'
    BY <1>2, TypesKept
  <2>2. /\ \A g \in Workers : g \in Goroutines
        /\ \A g \in Pollers : g \in Goroutines /\ g \notin Workers
        /\ \A g \in Goroutines : run[g].pc # "idle" => run[g].provider \in Providers
    BY BreakerAssumption DEF IInv, TypeOK, Goroutines
  <2>3. \A g \in Goroutines, p \in Providers :
            g \in probing[p] => run[g].pc \in {"admitted", "calling"} /\ run[g].provider = p
    BY DEF IInv, ProbesCounted
  <2>4. ASSUME NEW g \in Goroutines,
               \/ Done(g) \/ \E pc \in {"admitted", "calling"} : Goto(g, pc)
               \/ run' = [run EXCEPT ![g].tries = @ + 1]
        PROVE  NoJobFailed' /\ \A h \in Goroutines \ {g} : run'[h] = run[h]
    BY <2>4 DEF Done, Goto, Idle, IInv, TypeOK, Runs, NoJobFailed
  <2>5. ASSUME NEW p \in Providers, Elapse(p) \/ Change(p) PROVE IInv'
    BY <2>1, <2>5 DEF Elapse, Change, IInv, ProbesCounted, ProbesExact, ClosedBelow,
                      NoJobFailed
  <2>6. ASSUME NEW g \in Workers, NEW p \in Providers, Claim(g, p) PROVE IInv'
    <3>1. \A h \in Goroutines \ {g} : run'[h] = run[h]
      BY <2>6 DEF Claim, IInv, TypeOK
    <3>2. NoJobFailed'
      BY <2>6 DEF Claim, IInv, TypeOK, NoJobFailed
    <3>3. \A x \in Providers : g \notin probing[x]
      BY <2>2, <2>3, <2>6 DEF Claim, At
    <3> QED
      BY <2>1, <2>2, <2>6, <3>1, <3>2, <3>3, StepAsideKeeps DEF Claim
  <2>7. ASSUME NEW g \in Pollers, NEW p \in Providers, Ask(g, p) PROVE IInv'
    <3>1. \A h \in Goroutines \ {g} : run'[h] = run[h]
      BY <2>7 DEF Ask, IInv, TypeOK
    <3>2. NoJobFailed'
      BY <2>7 DEF Ask, Idle, IInv, TypeOK, NoJobFailed
    <3>3. \A x \in Providers : g \notin probing[x]
      BY <2>2, <2>3, <2>7 DEF Ask, At
    <3> QED
      BY <2>1, <2>2, <2>7, <3>1, <3>2, <3>3, StepAsideKeeps DEF Ask
  <2>8. ASSUME NEW g \in Workers, Work(g) PROVE IInv'
    <3> DEFINE p == run[g].provider
    <3>1. p \in Providers /\ g \in Goroutines
      BY <2>2, <2>8 DEF Work, AskLeave, Withdraw, Call, CallSucceeds,
                        CallFails, At
    <3> HIDE DEF p
    <3>2. ASSUME AskLeave(g) PROVE IInv'
      <4>1. NoJobFailed' /\ \A h \in Goroutines \ {g} : run'[h] = run[h]
        BY <2>4, <3>1, <3>2 DEF AskLeave
      <4>2. \A x \in Providers : g \notin probing[x]
        BY <2>3, <3>1, <3>2 DEF AskLeave, At
      <4>3. CASE UNCHANGED <<entry, probing>>
        BY <2>1, <3>1, <3>2, <4>1, <4>2, <4>3, StepAsideKeeps DEF AskLeave
      <4>4. CASE /\ Goto(g, "admitted")
                 /\ state[p] # "closed"
                 /\ state' = [state EXCEPT ![p] = "half_open"]
                 /\ probes' = [probes EXCEPT ![p] = @ + 1]
                 /\ probing' = [probing EXCEPT ![p] = @ \cup {g}]
                 /\ failures' = failures
        <5>1. IsFiniteSet(probing[p]) /\ Cardinality(probing[p]) \in Nat
          BY <3>1, ProbingFinite DEF IInv
        <5>2. Cardinality(probing'[p]) = Cardinality(probing[p]) + 1
          BY <3>1, <4>2, <4>4, <5>1, FS_AddElement DEF IInv, TypeOK
        <5>3. /\ probes'[p] = probes[p] + 1 /\ probing'[p] = probing[p] \cup {g}
              /\ state'[p] = "half_open" /\ probes[p] \in Nat
              /\ run'[g].pc = "admitted" /\ run'[g].provider = p
          BY <3>1, <4>4 DEF Goto, IInv, TypeOK, p
        <5>4. \A x \in Providers \ {p} :
                 /\ probes'[x] = probes[x] /\ probing'[x] = probing[x]
                 /\ state'[x] = state[x]
          BY <4>4 DEF IInv, TypeOK
        <5>5. ProbesCounted'
          <6> SUFFICES ASSUME NEW x \in Providers
                       PROVE  /\ Cardinality(probing'[x]) <= probes'[x]
                              /\ state'[x] # "half_open" =>
                                    probing'[x] = {} /\ probes'[x] = 0
                              /\ \A h \in probing'[x] :
                                    /\ run'[h].pc \in {"admitted", "calling"}
                                    /\ run'[h].provider = x
            BY DEF ProbesCounted
          <6>1. \A h \in probing[x] : /\ run'[h].pc \in {"admitted", "calling"}
                                      /\ run'[h].provider = x
            BY <4>1, <4>2 DEF IInv, ProbesCounted, TypeOK, Goroutines
          <6>2. CASE x = p
            <7>1. Cardinality(probing[p]) <= probes[p]
              BY <3>1 DEF IInv, ProbesCounted
            <7>2. Cardinality(probing'[p]) <= probes'[p]
              BY <5>1, <5>2, <5>3, <7>1
            <7> QED
              BY <5>3, <6>1, <6>2, <7>2
          <6>3. CASE x # p
            BY <5>4, <6>1, <6>3 DEF IInv, ProbesCounted
          <6> QED
            BY <6>2, <6>3
        <5>6. ProbesExact'
          <6> SUFFICES ASSUME NEW x \in Providers \ Withdrawals, state'[x] = "half_open"
                       PROVE  probes'[x] > 0 /\ probes'[x] = Cardinality(probing'[x])
            BY DEF ProbesExact
          <6>1. CASE x # p
            BY <5>4, <6>1 DEF IInv, ProbesExact
          <6>2. CASE x = p /\ state[p] = "half_open"
            <7>1. probes[p] = Cardinality(probing[p])
              BY <3>1, <6>2 DEF IInv, ProbesExact
            <7>2. probes'[p] > 0 /\ probes'[p] = Cardinality(probing'[p])
              BY <5>1, <5>2, <5>3, <7>1
            <7> QED
              BY <6>2, <7>2
          <6>3. CASE x = p /\ state[p] # "half_open"
            <7>1. probing[p] = {} /\ probes[p] = 0
              BY <3>1, <6>3 DEF IInv, ProbesCounted
            <7>2. Cardinality(probing[p]) = 0
              BY <7>1, FS_EmptySet
            <7>3. probes'[p] > 0 /\ probes'[p] = Cardinality(probing'[p])
              BY <5>2, <5>3, <7>1, <7>2
            <7> QED
              BY <6>3, <7>3
          <6> QED
            BY <6>1, <6>2, <6>3
        <5>7. ClosedBelow'
          BY <3>2, <4>4, <5>3, <5>4 DEF IInv, ClosedBelow, AskLeave
        <5> QED
          BY <2>1, <4>1, <5>5, <5>6, <5>7 DEF IInv
      <4>5. CASE /\ Goto(g, "admitted")
                 /\ state[p] = "open"
                 /\ state' = [state EXCEPT ![p] = "half_open"]
                 /\ probes' = [probes EXCEPT ![p] = 1]
                 /\ probing' = [probing EXCEPT ![p] = {g}]
                 /\ failures' = failures
        <5>1. probes[p] = 0 /\ probing[p] = {}
          BY <3>1, <4>5 DEF IInv, ProbesCounted
        <5>2. /\ probes' = [probes EXCEPT ![p] = @ + 1]
              /\ probing' = [probing EXCEPT ![p] = @ \cup {g}]
          BY <3>1, <4>5, <5>1 DEF IInv, TypeOK
        <5> QED
          BY <4>4, <4>5, <5>2
      <4>6. CASE Allow(g, p) /\ Goto(g, "admitted")
        <5>1. CASE state[p] = "half_open"
          <6>1. state' = [state EXCEPT ![p] = "half_open"]
            BY <3>1, <4>6, <5>1 DEF Allow, IInv, TypeOK
          <6> QED
            BY <4>4, <4>6, <5>1, <6>1 DEF Allow
        <5>2. CASE state[p] # "half_open"
          BY <4>3, <4>5, <4>6, <5>2 DEF Allow
        <5> QED
          BY <5>1, <5>2
      <4> QED
        BY <3>2, <4>3, <4>6 DEF AskLeave, p
    <3>4. ASSUME Withdraw(g) PROVE IInv'
      <4>1. NoJobFailed' /\ \A h \in Goroutines \ {g} : run'[h] = run[h]
        BY <2>4, <3>1, <3>4 DEF Withdraw
      <4>2. \A x \in Providers :
               /\ probing'[x] = probing[x] \ {g}
               /\ Cardinality(probing'[x]) <= Cardinality(probing[x])
               /\ Cardinality(probing[x]) \in Nat /\ Cardinality(probing'[x]) \in Nat
        <5> TAKE x \in Providers
        <5>1. probing'[x] = probing[x] \ {g}
          BY <3>4 DEF Withdraw
        <5>2. IsFiniteSet(probing[x])
          BY ProbingFinite DEF IInv
        <5> QED
          BY <5>1, <5>2, FS_Subset, FS_CardinalityType
      <4>3. ProbesCounted'
        <5> SUFFICES ASSUME NEW x \in Providers
                     PROVE  /\ Cardinality(probing'[x]) <= probes'[x]
                            /\ state'[x] # "half_open" =>
                                  probing'[x] = {} /\ probes'[x] = 0
                            /\ \A h \in probing'[x] :
                                  /\ run'[h].pc \in {"admitted", "calling"}
                                  /\ run'[h].provider = x
          BY DEF ProbesCounted
        <5>1. /\ Cardinality(probing[x]) <= probes[x] /\ probes[x] \in Nat
              /\ state[x] # "half_open" => probing[x] = {} /\ probes[x] = 0
          BY DEF IInv, ProbesCounted, TypeOK
        <5>2. \A h \in probing'[x] : h \in probing[x] /\ run'[h] = run[h]
          BY <4>1, <4>2 DEF IInv, TypeOK, Goroutines
        <5>3. UNCHANGED <<state, probes>>
          BY <3>4 DEF Withdraw
        <5> QED
          BY <4>2, <5>1, <5>2, <5>3 DEF IInv, ProbesCounted
      <4>4. ProbesExact'
        <5>1. \A x \in Providers \ Withdrawals : probing'[x] = probing[x]
          BY <3>4, <4>2 DEF Withdraw, IInv, ProbesCounted
        <5> QED
          BY <3>4, <5>1 DEF Withdraw, IInv, ProbesExact
      <4>5. ClosedBelow'
        BY <3>4 DEF Withdraw, IInv, ClosedBelow
      <4> QED
        BY <2>1, <4>1, <4>3, <4>4, <4>5 DEF IInv
    <3>5. ASSUME Call(g) PROVE IInv'
      <4>1. run'[g].pc = "calling" /\ run'[g].provider = run[g].provider
        BY <3>1, <3>5 DEF Call, Goto, IInv, TypeOK
      <4>2. NoJobFailed' /\ \A h \in Goroutines \ {g} : run'[h] = run[h]
        BY <2>4, <3>1, <3>5 DEF Call
      <4>3. UNCHANGED <<state, failures, probes, probing, streak>>
        BY <3>5 DEF Call
      <4> QED
        BY <2>1, <3>1, <4>1, <4>2, <4>3, StepAsideKeeps
    <3>6. ASSUME CallSucceeds(g) PROVE IInv'
      <4>1. NoJobFailed' /\ \A h \in Goroutines \ {g} : run'[h] = run[h]
        BY <2>4, <3>1, <3>6 DEF CallSucceeds
      <4>2. Reported(p, g)
        BY <3>1, <3>6, <4>1, SuccessReports DEF CallSucceeds, p, IInv, TypeOK
      <4> QED
        BY <2>1, <3>1, <3>6, <4>1, <4>2, ReportKeeps DEF CallSucceeds, At, p
    <3>7. ASSUME CallFails(g) PROVE IInv'
      <4>1. NoJobFailed' /\ \A h \in Goroutines \ {g} : run'[h] = run[h]
        BY <2>4, <3>1, <3>7 DEF CallFails
      <4>2. Reported(p, g)
        BY <3>1, <3>7, <4>1, FailureReports DEF CallFails, p
      <4> QED
        BY <2>1, <3>1, <3>7, <4>1, <4>2, ReportKeeps DEF CallFails, At, p
    <3> QED
      BY <2>8, <3>2, <3>4, <3>5, <3>6, <3>7 DEF Work
  <2>9. ASSUME NEW g \in Pollers, Poll(g) PROVE IInv'
    <3> DEFINE p == run[g].provider
    <3>1. p \in Providers /\ g \in Goroutines /\ g \notin Workers
      BY <2>2, <2>9 DEF Poll, PollAnswers, JobFails, PollFails, At
    <3>2. /\ \A h \in Goroutines \ {g} : run'[h] = run[h]
          /\ NoJobFailed'
      <4>1. /\ run \in [Goroutines -> Runs]
            /\ \/ run' = [run EXCEPT ![g] = Idle]
               \/ run' = [run EXCEPT ![g].pc = "jobFailed"] /\ run[g].provider \in JobsFail
        BY <2>9 DEF Poll, PollAnswers, JobFails, PollFails, Done, Goto, IInv, TypeOK
      <4>2. \A h \in Goroutines \ {g} : run'[h] = run[h]
        BY <3>1, <4>1
      <4>3. run'[g].pc = "jobFailed" => run'[g].provider \in JobsFail
        BY <3>1, <4>1 DEF Idle, Runs
      <4> QED
        BY <4>2, <4>3 DEF NoJobFailed, IInv
    <3> HIDE DEF p
    <3>3. ASSUME PollAnswers(g) PROVE Reported(p, g)
      <4>1. /\ Success(p) /\ \A x \in Providers \ {p} : streak'[x] = streak[x]
            /\ p \notin JobsFail => streak'[p] = 0
        BY <3>1, <3>3 DEF PollAnswers, IInv, TypeOK, p
      <4> QED
        BY <3>1, <3>2, <4>1, SuccessReports
    <3>4. ASSUME JobFails(g) \/ PollFails(g) PROVE Reported(p, g)
      BY <3>1, <3>2, <3>4, FailureReports DEF JobFails, PollFails, p
    <3>5. Reported(p, g)
      BY <2>9, <3>3, <3>4 DEF Poll
    <3> QED
      BY <2>1, <3>1, <3>2, <3>5, ReportKeeps
  <2> QED
    BY <1>2, <2>5, <2>6, <2>7, <2>8, <2>9 DEF Next
<1> QED
  BY <1>1, <1>2

\* At first every breaker is closed and nobody is at work.
LEMMA InitEstablishes == Init => IInv
<1> SUFFICES ASSUME Init PROVE IInv
  OBVIOUS
<1>1. Cardinality({}) = 0
  BY FS_EmptySet
<1> QED
  BY <1>1, BreakerAssumption
     DEF Init, IInv, TypeOK, Runs, Idle, ProbesCounted, ProbesExact, ClosedBelow,
         NoJobFailed

-----------------------------------------------------------------------------
(* The theorems *)

\* The inductive invariant holds in every reachable state.
THEOREM BreakerInvariant == Spec => []IInv
<1>1. Init => IInv
  BY InitEstablishes
<1>2. IInv /\ [Next]_vars => IInv'
  BY NextKeeps
<1> QED
  BY <1>1, <1>2, PTL DEF Spec

\* No more probes are out than the configuration allows, also when workers
\* withdraw and whatever is reported late.
THEOREM BreakerLimitsProbes == Spec => []ProbesLimited
<1>1. IInv => ProbesLimited
  <2> SUFFICES ASSUME IInv, NEW p \in Providers
               PROVE  Cardinality(probing[p]) <= HalfOpenProbes
    BY DEF ProbesLimited
  <2>1. Cardinality(probing[p]) \in Nat
    BY ProbingFinite DEF IInv
  <2>2. Cardinality(probing[p]) <= probes[p] /\ probes[p] \in 0 .. HalfOpenProbes
    BY DEF IInv, ProbesCounted, TypeOK
  <2> QED
    BY <2>1, <2>2, BreakerAssumption
<1> QED
  BY <1>1, BreakerInvariant, PTL

\* As long as no worker withdraws, a half-open breaker waits for somebody.
THEOREM BreakerProbesReport == Spec => []ProbeIsOut
<1>1. IInv => ProbeIsOut
  BY DEF IInv, ProbesCounted, ProbesExact, ProbeIsOut, ProbesOut
<1> QED
  BY <1>1, BreakerInvariant, PTL

\* As long as no job fails at the provider, a row of failures opens its breaker.
THEOREM BreakerTrips == Spec => []TripsOnStreak
<1>1. IInv => TripsOnStreak
  BY BreakerAssumption DEF IInv, ClosedBelow, TypeOK, TripsOnStreak, Trips
<1> QED
  BY <1>1, BreakerInvariant, PTL
=============================================================================
