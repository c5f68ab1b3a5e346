-------------------------- MODULE LeaseQueueProofs --------------------------
(***************************************************************************)
(* Proofs about LeaseQueue, for any tasks, processes and lease lengths.    *)
(***************************************************************************)
EXTENDS LeaseQueue, TLAPS

-----------------------------------------------------------------------------
(* Types *)

\* Types are kept by every step.
LEMMA TypesKept == TypeOK /\ [Next]_vars => TypeOK'
<1> SUFFICES ASSUME TypeOK, [Next]_vars PROVE TypeOK'
  OBVIOUS
<1> USE QueueAssumption DEF TypeOK, Left, Lapsed
<1>1. Idle \in Claims
  BY DEF Idle, Claims
<1>2. ASSUME NEW p \in Procs, NEW S \in SUBSET Tasks, Mark(p, S)
      PROVE  /\ owner' \in [Tasks -> Procs \cup {NoProc}]
             /\ left' \in [Tasks -> Left]
             /\ wrote' \subseteq Procs
  BY <1>2 DEF Mark
<1>3. ASSUME NEW p \in Procs, NEW S \in SUBSET Tasks, Drop(p, S)
      PROVE  owner' \in [Tasks -> Procs \cup {NoProc}] /\ left' \in [Tasks -> Left]
  BY <1>3 DEF Drop
<1>4. ASSUME NEW S \in SUBSET Tasks
      PROVE  [pc |-> "marked", task |-> NoTask, deadline |-> TTL, marked |-> S] \in Claims
  BY DEF Claims
<1>5. ASSUME NEW g \in Submitters, Claim(g) PROVE TypeOK'
  <2>1. PICK t \in Tasks :
            /\ Mark(Proc[g], {t})
            /\ sub' = [sub EXCEPT ![g] = [pc |-> "marked", task |-> NoTask,
                                          deadline |-> TTL, marked |-> {t}]]
    BY <1>5 DEF Claim
  <2>2. Proc[g] \in Procs
    OBVIOUS
  <2>3. /\ owner' \in [Tasks -> Procs \cup {NoProc}] /\ left' \in [Tasks -> Left]
        /\ wrote' \subseteq Procs
    BY <1>2, <2>1, <2>2
  <2>4. sub' \in [Submitters -> Claims]
    BY <1>4, <2>1
  <2> QED
    BY <1>5, <2>1, <2>3, <2>4 DEF Claim
<1>6. ASSUME NEW g \in Submitters, ReadBack(g) PROVE TypeOK'
  <2>1. CASE sub' = [sub EXCEPT ![g] = Idle]
    BY <1>1, <1>6, <2>1 DEF ReadBack, row, Idle
  <2>2. ASSUME NEW t \in Tasks, sub' = [sub EXCEPT ![g].pc = "working", ![g].task = t]
        PROVE  TypeOK'
    <3>1. [sub[g] EXCEPT !.pc = "working", !.task = t] \in Claims
      <4>1. sub[g] \in Claims
        OBVIOUS
      <4> HIDE DEF TypeOK, Left
      <4> QED
        BY <4>1 DEF Claims
    <3>2. sub' = [sub EXCEPT ![g] = [sub[g] EXCEPT !.pc = "working", !.task = t]]
      BY <2>2
    <3>3. sub' \in [Submitters -> Claims]
      BY <3>1, <3>2
    <3>4. \A h \in Submitters : sub'[h].pc = "working" => sub'[h].task \in Tasks
      BY <2>2 DEF Claims
    <3> QED
      BY <1>6, <3>3, <3>4 DEF ReadBack, row
  <2> QED
    BY <1>6, <2>1, <2>2 DEF ReadBack, Matching
<1>7. ASSUME NEW g \in Submitters, Begin(g) PROVE TypeOK'
  <2>1. sub[g].task \in Tasks /\ Proc[g] \in Procs
    BY <1>7 DEF Begin
  <2>2. CASE Drop(Proc[g], {sub[g].task}) /\ sub' = [sub EXCEPT ![g] = Idle] /\ UNCHANGED status
    BY <1>1, <1>3, <1>7, <2>1, <2>2 DEF Begin, Idle
  <2> QED
    BY <1>7, <2>1, <2>2 DEF Begin
<1>8. ASSUME NEW g \in Submitters, Finish(g) PROVE TypeOK'
  <2>1. sub[g].task \in Tasks /\ Proc[g] \in Procs
    BY <1>8 DEF Finish
  <2>2. owner' \in [Tasks -> Procs \cup {NoProc}] /\ left' \in [Tasks -> Left]
    BY <1>3, <1>8, <2>1 DEF Finish
  <2>3. status' \in [Tasks -> {"queued", "running", "done"}] /\ due' \in [Tasks -> BOOLEAN]
    BY <1>8, <2>1 DEF Finish
  <2> QED
    BY <1>1, <1>8, <2>2, <2>3 DEF Finish, Idle
<1>9. ASSUME NEW p \in Procs, ClaimPoll(p) PROVE TypeOK'
  <2>1. PICK S \in SUBSET Tasks :
            /\ Mark(p, S)
            /\ loop' = [loop EXCEPT ![p] = [pc |-> "marked", task |-> NoTask,
                                            deadline |-> TTL, marked |-> S]]
    BY <1>9 DEF ClaimPoll
  <2>2. /\ owner' \in [Tasks -> Procs \cup {NoProc}] /\ left' \in [Tasks -> Left]
        /\ wrote' \subseteq Procs
    BY <1>2, <2>1
  <2>3. loop' \in [Procs -> Claims]
    BY <1>4, <2>1
  <2> QED
    BY <1>9, <2>2, <2>3 DEF ClaimPoll
<1>10. ASSUME NEW p \in Procs, ReadBackPolls(p) PROVE TypeOK'
  <2>1. PICK S \in SUBSET Tasks : /\ polling' = [polling EXCEPT ![p] = @ \cup S]
                                  /\ Drop(p, S \cap polling[p])
    BY <1>10 DEF ReadBackPolls, Matching
  <2>2. S \cap polling[p] \in SUBSET Tasks
    OBVIOUS
  <2>3. owner' \in [Tasks -> Procs \cup {NoProc}] /\ left' \in [Tasks -> Left]
    BY <1>3, <2>1, <2>2
  <2> QED
    BY <1>1, <1>10, <2>1, <2>3 DEF ReadBackPolls
<1>11. ASSUME NEW p \in Procs, NEW t \in Tasks, PollDone(p, t) PROVE TypeOK'
  BY <1>3, <1>11 DEF PollDone
<1>12. ASSUME NEW p \in Procs, NEW t \in Tasks, Renew(p, t) PROVE TypeOK'
  BY <1>2, <1>12 DEF Renew
<1>13. ASSUME NEW t \in Tasks, Cancel(t) PROVE TypeOK'
  BY <1>13 DEF Cancel
<1>14. ASSUME Tick PROVE TypeOK'
  <2>1. left' \in [Tasks -> Left]
    BY <1>14 DEF Tick
  <2>2. ASSUME NEW c \in Claims, c.pc = "marked", c.deadline > 0
        PROVE  [c EXCEPT !.deadline = @ - 1] \in Claims
    <3>1. c.deadline \in Left
      BY <2>2 DEF Claims
    <3>2. c.deadline - 1 \in Left
      BY <2>2, <3>1
    <3> HIDE DEF Left
    <3> QED
      BY <2>2, <3>2 DEF Claims
  <2>3. sub' \in [Submitters -> Claims]
    BY <1>14, <2>2 DEF Tick
  <2>4. \A g \in Submitters : sub'[g].pc = sub[g].pc /\ sub'[g].task = sub[g].task
    BY <1>14 DEF Tick, Claims
  <2>5. loop' \in [Procs -> Claims]
    BY <1>14, <2>2 DEF Tick
  <2> QED
    BY <1>14, <2>1, <2>3, <2>4, <2>5 DEF Tick
<1>15. ASSUME NEW p \in Procs, Crash(p) PROVE TypeOK'
  <2>1. sub' \in [Submitters -> Claims] /\ loop' \in [Procs -> Claims]
    BY <1>1, <1>15 DEF Crash
  <2>2. \A g \in Submitters : sub'[g].pc = "working" => sub'[g].task \in Tasks
    BY <1>15 DEF Crash, Idle
  <2>3. polling' \in [Procs -> SUBSET Tasks] /\ crashes' \in 0 .. MaxCrashes
    BY <1>15 DEF Crash
  <2> QED
    BY <1>15, <2>1, <2>2, <2>3 DEF Crash, row
<1>16. CASE UNCHANGED vars
  BY <1>16 DEF vars
<1> QED
  BY <1>5, <1>6, <1>7, <1>8, <1>9, <1>10, <1>11, <1>12, <1>13, <1>14, <1>15, <1>16
     DEF Next, SubmitStep

\* The queue is type correct.
THEOREM QueueTypeCorrect == Spec => []TypeOK
<1>1. Init => TypeOK
  BY QueueAssumption DEF Init, TypeOK, Idle, Claims, Left, Lapsed
<1> QED
  BY <1>1, TypesKept, PTL DEF Spec

-----------------------------------------------------------------------------
(* Rows and deadlines implement leases *)

Lease == [t \in Tasks |-> IF left[t] = Lapsed THEN NoProc ELSE owner[t]]

\* Marking rows that are free takes their leases.
LEMMA MarkTakes ==
    ASSUME TypeOK, NEW p \in Procs, NEW S \in SUBSET Tasks, \A t \in S : Free(t),
           Mark(p, S)
    PROVE  Abstract!Next
<1>1. /\ \A t \in S : Lease[t] = NoProc
      /\ Lease' = [t \in Tasks |-> IF t \in S THEN p ELSE Lease[t]]
  BY QueueAssumption DEF Mark, Free, Lease, Lapsed, TypeOK
<1> QED
  BY <1>1 DEF Lease, Abstract!Next, Abstract!Take

\* Dropping rows frees them.
LEMMA DropFrees ==
    ASSUME TypeOK, NEW p \in Procs, NEW S \in SUBSET Tasks, Drop(p, S)
    PROVE  Abstract!Next
<1> DEFINE mine == {t \in S : owner[t] = p}
<1>1. Lease' = [t \in Tasks |-> IF t \in mine THEN NoProc ELSE Lease[t]]
  BY DEF Drop, Lease, TypeOK
<1>2. mine \in SUBSET Tasks
  OBVIOUS
<1> QED
  BY <1>1, <1>2 DEF Lease, Abstract!Next, Abstract!Free

\* Every step of the queue is a step of the leases, or none.
LEMMA StepImplements == TypeOK /\ [Next]_vars => [Abstract!Next]_Lease
<1> SUFFICES ASSUME TypeOK, [Next]_vars PROVE Abstract!Next \/ UNCHANGED Lease
  OBVIOUS
<1> USE DEF TypeOK
<1>1. ASSUME UNCHANGED <<owner, left>> PROVE UNCHANGED Lease
  BY <1>1 DEF Lease
<1>2. ASSUME NEW g \in Submitters, Claim(g) PROVE Abstract!Next
  <2>1. PICK t \in Tasks : Free(t) /\ Mark(Proc[g], {t})
    BY <1>2 DEF Claim
  <2>2. Proc[g] \in Procs
    BY QueueAssumption
  <2> QED
    BY <2>1, <2>2, MarkTakes
<1>3. ASSUME NEW g \in Submitters, SubmitStep(g) PROVE Abstract!Next \/ UNCHANGED Lease
  <2>1. Proc[g] \in Procs
    BY QueueAssumption
  <2>2. CASE UNCHANGED <<owner, left>>
    BY <1>1, <2>2
  <2>3. CASE sub[g].pc = "working" /\ Drop(Proc[g], {sub[g].task})
    BY <2>1, <2>3, DropFrees
  <2> QED
    BY <1>3, <2>2, <2>3 DEF SubmitStep, ReadBack, Begin, Finish, row
<1>4. ASSUME NEW p \in Procs, ClaimPoll(p) PROVE Abstract!Next
  <2>1. PICK S \in SUBSET Tasks : (\A t \in S : Free(t)) /\ Mark(p, S)
    BY <1>4 DEF ClaimPoll
  <2> QED
    BY <2>1, MarkTakes
<1>5. ASSUME NEW p \in Procs, ReadBackPolls(p) PROVE Abstract!Next
  <2>1. PICK S \in SUBSET Tasks : Drop(p, S \cap polling[p])
    BY <1>5 DEF ReadBackPolls, Matching
  <2>2. S \cap polling[p] \in SUBSET Tasks
    OBVIOUS
  <2> QED
    BY <2>1, <2>2, DropFrees
<1>6. ASSUME NEW p \in Procs, NEW t \in Tasks, PollDone(p, t) PROVE Abstract!Next
  BY <1>6, DropFrees DEF PollDone
<1>7. ASSUME NEW p \in Procs, NEW t \in Tasks, Renew(p, t)
      PROVE  Abstract!Next \/ UNCHANGED Lease
  <2>1. CASE Free(t)
    BY <1>7, <2>1, MarkTakes DEF Renew
  <2>2. CASE ~Free(t)
    BY <1>7, <2>2, QueueAssumption DEF Renew, Mark, Free, Lease, Lapsed
  <2> QED
    BY <2>1, <2>2
<1>8. ASSUME NEW t \in Tasks, Cancel(t) PROVE Abstract!Next
  <2>1. Lease' = [u \in Tasks |-> IF u \in {t} THEN NoProc ELSE Lease[u]]
    BY <1>8 DEF Cancel, Lease
  <2> QED
    BY <2>1 DEF Lease, Abstract!Next, Abstract!Free
<1>9. ASSUME Tick PROVE Abstract!Next
  <2> DEFINE S == {t \in Tasks : left[t] = 0}
  <2>1. Lease' = [t \in Tasks |-> IF t \in S THEN NoProc ELSE Lease[t]]
    <3>1. \A t \in Tasks : left'[t] = Lapsed <=> left[t] = Lapsed \/ left[t] = 0
      BY <1>9, QueueAssumption DEF Tick, Left, Lapsed
    <3> QED
      BY <1>9, <3>1 DEF Tick, Lease
  <2>2. S \in SUBSET Tasks
    OBVIOUS
  <2> QED
    BY <2>1, <2>2 DEF Lease, Abstract!Next, Abstract!Free
<1>10. ASSUME NEW p \in Procs, Crash(p) PROVE UNCHANGED Lease
  BY <1>1, <1>10 DEF Crash, row
<1>11. CASE UNCHANGED vars
  BY <1>1, <1>11 DEF vars
<1> QED
  BY <1>2, <1>3, <1>4, <1>5, <1>6, <1>7, <1>8, <1>9, <1>10, <1>11 DEF Next

\* The queue implements the leases, whatever the clock does: no lease passes from
\* one process to another without having been free.
THEOREM QueueImplementsLeases == Spec => ImplementsLeases
<1>1. Init => Abstract!Init
  BY DEF Init, Abstract!Init
<1>2. TypeOK /\ [Next]_vars => [Abstract!Next]_Lease
  BY StepImplements
<1> QED
  BY <1>1, <1>2, QueueTypeCorrect, PTL DEF Spec, ImplementsLeases, Abstract!Spec, Lease

-----------------------------------------------------------------------------
(* One worker at a task, as long as deadlines are distinct and renewals in time *)

Working(g, t) == sub[g].pc = "working" /\ sub[g].task = t
Marked(g) == sub[g].pc = "marked"
LoopMarked(p) == loop[p].pc = "marked"

HeldByNobody(t) == \A p \in Procs : ~Holds(p, t)

\* A task somebody works at is leased by his process, until it has ended.
HeldIsLeased ==
    \A p \in Procs, t \in Tasks :
        Holds(p, t) /\ status[t] # "done" => owner[t] = p /\ left[t] # Lapsed

\* The second and third part of OneWorker.
Alone ==
    \A t \in Tasks :
        /\ \A g, h \in Submitters : Working(g, t) /\ Working(h, t) => g = h
        /\ \A g \in Submitters, p \in Procs : ~(Working(g, t) /\ t \in polling[p])

\* What a claim will read back is nobody's yet.
MarkedIsUnheld ==
    /\ \A g \in Submitters : Marked(g) =>
          /\ sub[g].deadline # Lapsed
          /\ \A t \in Tasks :
                owner[t] = Proc[g] /\ left[t] = sub[g].deadline => HeldByNobody(t)
    /\ \A p \in Procs : LoopMarked(p) =>
          /\ loop[p].deadline # Lapsed
          /\ \A t \in Tasks :
                owner[t] = p /\ left[t] = loop[p].deadline => HeldByNobody(t)

\* Two claims of one process that are to be read back differ in their deadlines.
MarkedApart ==
    /\ \A g, h \in Submitters :
          Marked(g) /\ Marked(h) /\ Proc[g] = Proc[h] /\ g # h =>
              sub[g].deadline # sub[h].deadline
    /\ \A g \in Submitters :
          Marked(g) /\ LoopMarked(Proc[g]) => sub[g].deadline # loop[Proc[g]].deadline

\* A process that has not written a deadline in this millisecond has none yet
\* that lies a whole lease ahead.
UnwrittenIsOlder ==
    \A p \in Procs \ wrote :
        /\ \A t \in Tasks : owner[t] = p => left[t] # TTL
        /\ \A g \in Submitters : Marked(g) /\ Proc[g] = p => sub[g].deadline # TTL
        /\ LoopMarked(p) => loop[p].deadline # TTL

Apart == HeldIsLeased /\ Alone /\ MarkedIsUnheld /\ MarkedApart /\ UnwrittenIsOlder

\* A step that only takes work out of hands, and leases off rows that nobody
\* works at any more, keeps tasks apart.
LEMMA GiveUpKeeps ==
    ASSUME TypeOK, Apart,
           \A t \in Tasks : status'[t] # "done" => status[t] # "done",
           \A t \in Tasks :
              \/ owner'[t] = owner[t] /\ left'[t] = left[t]
              \/ owner'[t] = NoProc /\ left'[t] = Lapsed,
           \A p \in Procs, t \in Tasks :
              /\ Holds(p, t)' => Holds(p, t)
              /\ Holds(p, t)' /\ status'[t] # "done" => owner'[t] = owner[t],
           \A g \in Submitters, t \in Tasks : Working(g, t)' => Working(g, t),
           \A p \in Procs : polling'[p] \subseteq polling[p],
           \A g \in Submitters : Marked(g)' =>
              Marked(g) /\ sub'[g].deadline = sub[g].deadline,
           \A p \in Procs : LoopMarked(p)' =>
              LoopMarked(p) /\ loop'[p].deadline = loop[p].deadline,
           wrote' = wrote
    PROVE  Apart'
<1> USE QueueAssumption DEF Apart
<1>1. \A t \in Tasks : HeldByNobody(t) => HeldByNobody(t)'
  BY DEF HeldByNobody
<1>2. HeldIsLeased'
  BY DEF HeldIsLeased
<1>3. Alone'
  BY DEF Alone
<1>4. MarkedIsUnheld'
  <2>1. \A g \in Submitters : Marked(g)' =>
            /\ sub'[g].deadline # Lapsed
            /\ \A t \in Tasks :
                  owner'[t] = Proc[g] /\ left'[t] = sub'[g].deadline => HeldByNobody(t)'
    BY <1>1 DEF MarkedIsUnheld
  <2>2. \A p \in Procs : LoopMarked(p)' =>
            /\ loop'[p].deadline # Lapsed
            /\ \A t \in Tasks :
                  owner'[t] = p /\ left'[t] = loop'[p].deadline => HeldByNobody(t)'
    BY <1>1 DEF MarkedIsUnheld
  <2> QED
    BY <2>1, <2>2 DEF MarkedIsUnheld
<1>5. MarkedApart'
  BY DEF MarkedApart
<1>6. UnwrittenIsOlder'
  BY DEF UnwrittenIsOlder
<1> QED
  BY <1>2, <1>3, <1>4, <1>5, <1>6

\* A step that marks rows, the first of its process in this millisecond, keeps tasks
\* apart: either nobody works at the rows, and no other claim will read them back, or
\* the process renews leases and claims nothing.
LEMMA MarkKeeps ==
    ASSUME TypeOK, Apart, DistinctDeadlines, NEW p \in Procs, NEW S \in SUBSET Tasks,
           Mark(p, S), status' = status, polling' = polling,
           \/ \A t \in S : HeldByNobody(t)
           \/ sub' = sub /\ loop' = loop,
           \A q \in Procs : \A t \in S :
              Holds(q, t) /\ status[t] # "done" => q = p,
           \A q \in Procs, t \in Tasks : Holds(q, t)' <=> Holds(q, t),
           \A g \in Submitters, t \in Tasks : Working(g, t)' <=> Working(g, t),
           \A g \in Submitters : Marked(g)' =>
              \/ Marked(g) /\ sub'[g].deadline = sub[g].deadline
              \/ Proc[g] = p /\ sub'[g].deadline = TTL,
           \A q \in Procs : LoopMarked(q)' =>
              \/ LoopMarked(q) /\ loop'[q].deadline = loop[q].deadline
              \/ q = p /\ loop'[q].deadline = TTL,
           \/ /\ loop' = loop
              /\ \A g, h \in Submitters :
                    Marked(g)' /\ Marked(h)' /\ g # h => Marked(g) \/ Marked(h)
              /\ \A g \in Submitters : Marked(g)' =>
                    \/ Marked(g) /\ sub'[g].deadline = sub[g].deadline
                    \/ Proc[g] = p /\ ~Marked(g)
           \/ sub' = sub /\ ~LoopMarked(p)
    PROVE  Apart'
<1> USE QueueAssumption DEF Apart
<1>1. p \notin wrote /\ wrote' = wrote \cup {p}
  BY DEF Mark
<1>2. /\ \A t \in S : owner'[t] = p /\ left'[t] = TTL
      /\ \A t \in Tasks \ S : owner'[t] = owner[t] /\ left'[t] = left[t]
  BY DEF Mark
<1>3. \A t \in Tasks : HeldByNobody(t)' <=> HeldByNobody(t)
  BY DEF HeldByNobody
<1>6. TTL # Lapsed
  BY DEF Lapsed
<1>4. HeldIsLeased'
  <2> SUFFICES ASSUME NEW q \in Procs, NEW t \in Tasks, Holds(q, t)', status'[t] # "done"
               PROVE  owner'[t] = q /\ left'[t] # Lapsed
    BY DEF HeldIsLeased
  <2>1. Holds(q, t) /\ status[t] # "done"
    OBVIOUS
  <2>2. CASE t \in S
    BY <1>2, <1>6, <2>1, <2>2
  <2>3. CASE t \notin S
    BY <1>2, <2>1, <2>3 DEF HeldIsLeased
  <2> QED
    BY <2>2, <2>3
<1>5. Alone'
  BY DEF Alone
<1>7. \A t \in Tasks : owner'[t] = p /\ left'[t] = TTL => t \in S
  BY <1>1, <1>2 DEF UnwrittenIsOlder
<1>8. MarkedIsUnheld'
  <2>1. ASSUME NEW g \in Submitters, Marked(g)'
        PROVE  /\ sub'[g].deadline # Lapsed
               /\ \A t \in Tasks :
                     owner'[t] = Proc[g] /\ left'[t] = sub'[g].deadline => HeldByNobody(t)'
    <3>1. CASE Marked(g) /\ sub'[g].deadline = sub[g].deadline
      <4>1. Proc[g] = p => sub[g].deadline # TTL
        BY <1>1, <3>1 DEF UnwrittenIsOlder
      <4> QED
        BY <1>2, <1>3, <3>1, <4>1 DEF MarkedIsUnheld
    <3>2. CASE Proc[g] = p /\ sub'[g].deadline = TTL
      <4>1. CASE \A t \in S : HeldByNobody(t)
        BY <1>3, <1>6, <1>7, <3>2, <4>1
      <4>2. CASE sub' = sub
        BY <2>1, <3>1, <4>2 DEF Marked
      <4> QED
        BY <4>1, <4>2
    <3> QED
      BY <2>1, <3>1, <3>2
  <2>2. ASSUME NEW q \in Procs, LoopMarked(q)'
        PROVE  /\ loop'[q].deadline # Lapsed
               /\ \A t \in Tasks :
                     owner'[t] = q /\ left'[t] = loop'[q].deadline => HeldByNobody(t)'
    <3>1. CASE LoopMarked(q) /\ loop'[q].deadline = loop[q].deadline
      <4>1. q = p => loop[q].deadline # TTL
        BY <1>1, <3>1 DEF UnwrittenIsOlder
      <4> QED
        BY <1>2, <1>3, <3>1, <4>1 DEF MarkedIsUnheld
    <3>2. CASE q = p /\ loop'[q].deadline = TTL
      <4>1. CASE \A t \in S : HeldByNobody(t)
        BY <1>3, <1>6, <1>7, <3>2, <4>1
      <4>2. CASE loop' = loop
        BY <2>2, <3>1, <4>2 DEF LoopMarked
      <4> QED
        BY <4>1, <4>2
    <3> QED
      BY <2>2, <3>1, <3>2
  <2> QED
    BY <2>1, <2>2 DEF MarkedIsUnheld
<1>9. MarkedApart'
  BY <1>1 DEF MarkedApart, UnwrittenIsOlder, Marked, LoopMarked
<1>10. UnwrittenIsOlder'
  BY <1>1, <1>2 DEF UnwrittenIsOlder
<1> QED
  BY <1>4, <1>5, <1>8, <1>9, <1>10

\* Every step keeps tasks apart.
LEMMA ApartKept ==
    ASSUME DistinctDeadlines, ~Stalls, TypeOK, TypeOK', Apart, [Next]_vars
    PROVE  Apart'
<1> USE QueueAssumption
<1>1. \A g \in Submitters : Proc[g] \in Procs
  OBVIOUS
<1>2. \A g \in Submitters, t \in Tasks : Working(g, t) => Holds(Proc[g], t)
  BY DEF Working, Holds
<1>3. \A t \in Tasks : Free(t) /\ status[t] # "done" => HeldByNobody(t)
  BY DEF Apart, HeldIsLeased, HeldByNobody, Free
<1>4. ASSUME NEW g \in Submitters, Claim(g) PROVE Apart'
  <2>1. PICK t \in Tasks :
            /\ status[t] = "queued" /\ Free(t)
            /\ Mark(Proc[g], {t})
            /\ sub' = [sub EXCEPT ![g] = [pc |-> "marked", task |-> NoTask,
                                          deadline |-> TTL, marked |-> {t}]]
    BY <1>4 DEF Claim
  <2>2. /\ sub[g].pc = "idle" /\ sub'[g].pc = "marked" /\ sub'[g].deadline = TTL
        /\ \A h \in Submitters \ {g} : sub'[h] = sub[h]
        /\ status' = status /\ polling' = polling /\ loop' = loop
    BY <1>4, <2>1 DEF Claim, TypeOK
  <2>3. \A h \in Submitters, u \in Tasks : Working(h, u)' <=> Working(h, u)
    BY <2>2 DEF Working
  <2>4. \A q \in Procs, u \in Tasks : Holds(q, u)' <=> Holds(q, u)
    BY <2>2 DEF Holds
  <2>5. HeldByNobody(t)
    BY <1>3, <2>1
  <2>6. \A h \in Submitters : Marked(h)' =>
            \/ Marked(h) /\ sub'[h].deadline = sub[h].deadline
            \/ h = g /\ ~Marked(h)
    BY <2>2 DEF Marked
  <2>7. /\ \A q \in Procs : LoopMarked(q)' => LoopMarked(q)
        /\ \A u \in {t} : HeldByNobody(u)
        /\ \A q \in Procs : \A u \in {t} : ~Holds(q, u)
    BY <2>2, <2>5 DEF LoopMarked, HeldByNobody
  <2> HIDE DEF TypeOK, Apart, QueueAssumption
  <2> QED
    BY <1>1, <2>1, <2>2, <2>3, <2>4, <2>6, <2>7, MarkKeeps
<1>5. ASSUME NEW g \in Submitters, ReadBack(g) PROVE Apart'
  <2>1. /\ UNCHANGED <<status, owner, left, loop, polling, wrote>>
        /\ Marked(g)
        /\ sub'[g].pc # "marked"
        /\ \A h \in Submitters \ {g} : sub'[h] = sub[h]
    <3>1. sub \in [Submitters -> Claims]
      BY DEF TypeOK
    <3>2. \/ \E t \in Tasks : sub' = [sub EXCEPT ![g].pc = "working", ![g].task = t]
          \/ sub' = [sub EXCEPT ![g] = Idle]
      BY <1>5 DEF ReadBack, Matching
    <3>3. sub'[g].pc # "marked"
      BY <3>1, <3>2 DEF Claims, Idle
    <3>4. \A h \in Submitters \ {g} : sub'[h] = sub[h]
      BY <3>1, <3>2
    <3> QED
      BY <1>5, <3>3, <3>4 DEF ReadBack, Marked, row
  <2>2. CASE sub' = [sub EXCEPT ![g] = Idle]
    <3>1. sub'[g].pc = "idle"
      BY <2>2 DEF Idle, TypeOK
    <3>2. \A h \in Submitters, u \in Tasks : Working(h, u)' => Working(h, u)
      BY <2>1, <3>1 DEF Working
    <3>3. \A q \in Procs, u \in Tasks : Holds(q, u)' => Holds(q, u)
      BY <2>1, <3>1 DEF Holds
    <3>4. \A h \in Submitters : Marked(h)' =>
              Marked(h) /\ sub'[h].deadline = sub[h].deadline
      BY <2>1 DEF Marked
    <3>5. \A q \in Procs : LoopMarked(q)' =>
              LoopMarked(q) /\ loop'[q].deadline = loop[q].deadline
      BY <2>1 DEF LoopMarked
    <3> QED
      BY <2>1, <3>2, <3>3, <3>4, <3>5, GiveUpKeeps
  <2>3. ASSUME NEW t \in Matching(Proc[g], sub[g].deadline, "queued"),
               sub' = [sub EXCEPT ![g].pc = "working", ![g].task = t]
        PROVE  Apart'
    <3>1. /\ t \in Tasks /\ owner[t] = Proc[g] /\ left[t] = sub[g].deadline
          /\ status[t] = "queued"
      BY DEF Matching
    <3>2. HeldByNobody(t) /\ left[t] # Lapsed
      BY <2>1, <3>1 DEF Apart, MarkedIsUnheld
    <3>3. sub'[g].pc = "working" /\ sub'[g].task = t
      BY <2>3 DEF TypeOK, Claims
    <3>4. \A h \in Submitters, u \in Tasks :
              Working(h, u)' <=> Working(h, u) \/ (h = g /\ u = t)
      BY <2>1, <3>3 DEF Working, Marked
    <3>5. \A q \in Procs, u \in Tasks :
              Holds(q, u)' => Holds(q, u) \/ (q = Proc[g] /\ u = t)
      BY <2>1, <3>3 DEF Holds
    <3>6. \A h \in Submitters : ~Working(h, t)
      BY <1>1, <1>2, <3>1, <3>2 DEF HeldByNobody
    <3>7. \A q \in Procs : t \notin polling[q]
      BY <3>1, <3>2 DEF HeldByNobody, Holds
    <3>8. HeldIsLeased'
      BY <2>1, <3>1, <3>2, <3>5 DEF Apart, HeldIsLeased
    <3>9. Alone'
      BY <2>1, <3>4, <3>6, <3>7 DEF Apart, Alone
    <3>10. MarkedIsUnheld'
      <4>1. ASSUME NEW h \in Submitters, Marked(h)'
            PROVE  /\ sub'[h].deadline # Lapsed
                   /\ \A u \in Tasks : owner'[u] = Proc[h] /\ left'[u] = sub'[h].deadline
                         => HeldByNobody(u)'
        <5>1. h # g /\ Marked(h) /\ sub'[h] = sub[h]
          BY <2>1, <4>1 DEF Marked
        <5>2. Proc[h] = Proc[g] => sub[h].deadline # sub[g].deadline
          BY <2>1, <5>1 DEF Apart, MarkedApart
        <5>3. \A u \in Tasks : owner[u] = Proc[h] /\ left[u] = sub[h].deadline =>
                  u # t /\ HeldByNobody(u)
          BY <3>1, <5>1, <5>2 DEF Apart, MarkedIsUnheld
        <5> QED
          BY <2>1, <3>5, <5>1, <5>3 DEF HeldByNobody, Apart, MarkedIsUnheld
      <4>2. ASSUME NEW q \in Procs, LoopMarked(q)'
            PROVE  /\ loop'[q].deadline # Lapsed
                   /\ \A u \in Tasks : owner'[u] = q /\ left'[u] = loop'[q].deadline
                         => HeldByNobody(u)'
        <5>1. LoopMarked(q) /\ loop'[q] = loop[q]
          BY <2>1, <4>2 DEF LoopMarked
        <5>2. q = Proc[g] => loop[q].deadline # sub[g].deadline
          BY <2>1, <5>1 DEF Apart, MarkedApart
        <5>3. \A u \in Tasks : owner[u] = q /\ left[u] = loop[q].deadline =>
                  u # t /\ HeldByNobody(u)
          BY <3>1, <5>1, <5>2 DEF Apart, MarkedIsUnheld
        <5> QED
          BY <2>1, <3>5, <5>1, <5>3 DEF HeldByNobody, Apart, MarkedIsUnheld
      <4> QED
        BY <4>1, <4>2 DEF MarkedIsUnheld
    <3>11. MarkedApart' /\ UnwrittenIsOlder'
      BY <2>1 DEF Apart, MarkedApart, UnwrittenIsOlder, Marked, LoopMarked
    <3> QED
      BY <3>8, <3>9, <3>10, <3>11 DEF Apart
  <2> QED
    BY <1>5, <2>2, <2>3 DEF ReadBack
<1>6. ASSUME NEW g \in Submitters, Begin(g) \/ Finish(g) PROVE Apart'
  <2>0. PICK t \in Tasks : sub[g].task = t
    BY <1>6 DEF Begin, Finish, TypeOK
  <2>1. /\ sub[g].pc = "working"
        /\ UNCHANGED <<loop, polling, wrote>>
        /\ \A u \in Tasks : status'[u] # "done" => status[u] # "done"
    BY <1>6 DEF Begin, Finish, TypeOK
  <2>2. \/ UNCHANGED <<owner, left, sub>>
        \/ Drop(Proc[g], {t}) /\ sub' = [sub EXCEPT ![g] = Idle]
    BY <1>6, <2>0 DEF Begin, Finish
  <2>3. \A h \in Submitters : sub'[h] = sub[h] \/ (h = g /\ sub'[h].pc = "idle")
    BY <2>2 DEF TypeOK, Idle
  <2>4. \A h \in Submitters, u \in Tasks : Working(h, u)' => Working(h, u)
    BY <2>3 DEF Working
  <2>5. \A q \in Procs, u \in Tasks : Holds(q, u)' => Holds(q, u)
    BY <2>1, <2>3 DEF Holds
  <2>6. \A h \in Submitters : Marked(h)' =>
            Marked(h) /\ sub'[h].deadline = sub[h].deadline
    BY <2>3 DEF Marked
  <2>7. \A q \in Procs : LoopMarked(q)' =>
            LoopMarked(q) /\ loop'[q].deadline = loop[q].deadline
    BY <2>1 DEF LoopMarked
  <2>8. \A u \in Tasks : \/ owner'[u] = owner[u] /\ left'[u] = left[u]
                         \/ /\ owner'[u] = NoProc /\ left'[u] = Lapsed
                            /\ u = t /\ sub' = [sub EXCEPT ![g] = Idle]
    BY <2>2 DEF Drop, TypeOK
  <2>9. \A q \in Procs, u \in Tasks :
            Holds(q, u)' /\ status'[u] # "done" => owner'[u] = owner[u]
    <3> SUFFICES ASSUME NEW q \in Procs, Holds(q, t)', sub' = [sub EXCEPT ![g] = Idle]
                 PROVE  FALSE
      BY <2>8
    <3>1. Working(g, t)
      BY <2>0, <2>1 DEF Working
    <3>2. sub'[g].pc = "idle"
      BY DEF Idle, TypeOK
    <3>3. \A h \in Submitters : ~Working(h, t)'
      BY <2>1, <2>3, <2>4, <3>1, <3>2 DEF Apart, Alone, Working
    <3>4. t \notin polling'[q]
      BY <2>1, <3>1 DEF Apart, Alone
    <3> QED
      BY <3>3, <3>4 DEF Holds, Working
  <2> QED
    BY <2>1, <2>4, <2>5, <2>6, <2>7, <2>8, <2>9, GiveUpKeeps
<1>7. ASSUME NEW p \in Procs, ClaimPoll(p) PROVE Apart'
  <2>1. PICK S \in SUBSET Tasks :
            /\ \A t \in S : status[t] = "running" /\ Free(t)
            /\ Mark(p, S)
            /\ loop' = [loop EXCEPT ![p] = [pc |-> "marked", task |-> NoTask,
                                            deadline |-> TTL, marked |-> S]]
    BY <1>7 DEF ClaimPoll
  <2>2. /\ loop[p].pc = "idle" /\ loop'[p].deadline = TTL
        /\ \A q \in Procs \ {p} : loop'[q] = loop[q]
        /\ status' = status /\ polling' = polling /\ sub' = sub
    BY <1>7, <2>1 DEF ClaimPoll, TypeOK
  <2>3. \A h \in Submitters, u \in Tasks : Working(h, u)' <=> Working(h, u)
    BY <2>2 DEF Working
  <2>4. \A q \in Procs, u \in Tasks : Holds(q, u)' <=> Holds(q, u)
    BY <2>2 DEF Holds
  <2>5. /\ \A t \in S : HeldByNobody(t)
        /\ \A q \in Procs : \A t \in S : ~Holds(q, t)
    BY <1>3, <2>1 DEF HeldByNobody
  <2>6. /\ \A h \in Submitters : Marked(h)' =>
              Marked(h) /\ sub'[h].deadline = sub[h].deadline
        /\ \A q \in Procs : LoopMarked(q)' =>
              \/ LoopMarked(q) /\ loop'[q].deadline = loop[q].deadline
              \/ q = p /\ loop'[q].deadline = TTL
        /\ ~LoopMarked(p)
    BY <2>2 DEF Marked, LoopMarked
  <2> HIDE DEF TypeOK, Apart, QueueAssumption
  <2> QED
    BY <2>1, <2>2, <2>3, <2>4, <2>5, <2>6, MarkKeeps
<1>8. ASSUME NEW p \in Procs, ReadBackPolls(p) PROVE Apart'
  <2>1. PICK S \in SUBSET Matching(p, loop[p].deadline, "running") :
            /\ polling' = [polling EXCEPT ![p] = @ \cup S]
            /\ Drop(p, S \cap polling[p])
    BY <1>8 DEF ReadBackPolls
  <2>2. /\ LoopMarked(p) /\ UNCHANGED <<status, sub, wrote>>
        /\ loop' = [loop EXCEPT ![p] = Idle]
    BY <1>8 DEF ReadBackPolls, LoopMarked
  <2>3. \A t \in S : /\ t \in Tasks /\ owner[t] = p /\ left[t] = loop[p].deadline
                     /\ status[t] = "running"
    BY DEF Matching
  <2>4. \A t \in S : HeldByNobody(t) /\ left[t] # Lapsed
    BY <2>2, <2>3 DEF Apart, MarkedIsUnheld
  <2>5. S \cap polling[p] = {}
    BY <2>3, <2>4 DEF HeldByNobody, Holds
  <2>6. \A t \in Tasks : owner'[t] = owner[t] /\ left'[t] = left[t]
    BY <2>1, <2>5 DEF Drop
  <2>7. /\ \A q \in Procs : polling'[q] = IF q = p THEN polling[q] \cup S ELSE polling[q]
        /\ loop'[p].pc = "idle" /\ \A q \in Procs \ {p} : loop'[q] = loop[q]
    BY <2>1, <2>2 DEF TypeOK, Idle
  <2>8. \A q \in Procs, t \in Tasks : Holds(q, t)' => Holds(q, t) \/ (q = p /\ t \in S)
    BY <2>2, <2>7 DEF Holds
  <2>9. \A h \in Submitters : \A t \in S : ~Working(h, t)
    BY <1>1, <1>2, <2>3, <2>4 DEF HeldByNobody
  <2>10. HeldIsLeased'
    BY <2>2, <2>3, <2>4, <2>6, <2>8 DEF Apart, HeldIsLeased
  <2>11. Alone'
    <3>1. \A h \in Submitters, t \in Tasks : Working(h, t)' <=> Working(h, t)
      BY <2>2 DEF Working
    <3>2. Alone
      BY DEF Apart
    <3> HIDE DEF TypeOK, Apart, QueueAssumption, Next
    <3> QED
      BY <2>7, <2>9, <3>1, <3>2 DEF Alone
  <2>12. MarkedIsUnheld'
    <3>1. ASSUME NEW h \in Submitters, Marked(h)'
          PROVE  /\ sub'[h].deadline # Lapsed
                 /\ \A u \in Tasks : owner'[u] = Proc[h] /\ left'[u] = sub'[h].deadline
                       => HeldByNobody(u)'
      <4>1. Marked(h) /\ sub' = sub
        BY <2>2, <3>1 DEF Marked
      <4>2. Proc[h] = p => sub[h].deadline # loop[p].deadline
        BY <2>2, <4>1 DEF Apart, MarkedApart
      <4>3. \A u \in Tasks : owner[u] = Proc[h] /\ left[u] = sub[h].deadline =>
                u \notin S /\ HeldByNobody(u)
        BY <2>3, <4>1, <4>2 DEF Apart, MarkedIsUnheld
      <4> QED
        BY <2>6, <2>8, <4>1, <4>3 DEF HeldByNobody, Apart, MarkedIsUnheld
    <3>2. ASSUME NEW q \in Procs, LoopMarked(q)'
          PROVE  /\ loop'[q].deadline # Lapsed
                 /\ \A u \in Tasks : owner'[u] = q /\ left'[u] = loop'[q].deadline
                       => HeldByNobody(u)'
      <4>1. q # p /\ LoopMarked(q) /\ loop'[q] = loop[q]
        BY <2>7, <3>2 DEF LoopMarked
      <4>2. \A u \in Tasks : owner[u] = q /\ left[u] = loop[q].deadline =>
                u \notin S /\ HeldByNobody(u)
        BY <2>3, <4>1 DEF Apart, MarkedIsUnheld
      <4> QED
        BY <2>6, <2>8, <4>1, <4>2 DEF HeldByNobody, Apart, MarkedIsUnheld
    <3> QED
      BY <3>1, <3>2 DEF MarkedIsUnheld
  <2>13. MarkedApart' /\ UnwrittenIsOlder'
    BY <2>2, <2>6, <2>7 DEF Apart, MarkedApart, UnwrittenIsOlder, Marked, LoopMarked
  <2> QED
    BY <2>10, <2>11, <2>12, <2>13 DEF Apart
<1>9. ASSUME NEW p \in Procs, NEW t \in Tasks, PollDone(p, t) PROVE Apart'
  <2>1. /\ t \in polling[p] /\ UNCHANGED <<sub, loop, wrote>>
        /\ \A q \in Procs : polling'[q] = IF q = p THEN polling[q] \ {t} ELSE polling[q]
        /\ \A u \in Tasks : status'[u] # "done" => status[u] # "done" /\ status'[u] = status[u]
        /\ Drop(p, {t})
    BY <1>9 DEF PollDone, TypeOK
  <2>2. \A q \in Procs, u \in Tasks : Holds(q, u)' => Holds(q, u)
    BY <2>1 DEF Holds
  <2>3. \A u \in Tasks : \/ owner'[u] = owner[u] /\ left'[u] = left[u]
                         \/ owner'[u] = NoProc /\ left'[u] = Lapsed /\ u = t
    BY <2>1 DEF Drop, TypeOK
  <2>4. \A q \in Procs, u \in Tasks :
            Holds(q, u)' /\ status'[u] # "done" => owner'[u] = owner[u]
    <3> SUFFICES ASSUME NEW q \in Procs, Holds(q, t)', status'[t] # "done"
                 PROVE  FALSE
      BY <2>3
    <3>1. Holds(p, t) /\ Holds(q, t) /\ status[t] # "done"
      BY <2>1, <2>2 DEF Holds
    <3>2. q = p
      BY <3>1 DEF Apart, HeldIsLeased
    <3>3. PICK h \in Submitters : Working(h, t)
      BY <2>1, <3>2 DEF Holds, Working
    <3> QED
      BY <2>1, <3>3 DEF Apart, Alone
  <2>5. /\ \A h \in Submitters, u \in Tasks : Working(h, u)' => Working(h, u)
        /\ \A q \in Procs : polling'[q] \subseteq polling[q]
        /\ \A h \in Submitters : Marked(h)' =>
              Marked(h) /\ sub'[h].deadline = sub[h].deadline
        /\ \A q \in Procs : LoopMarked(q)' =>
              LoopMarked(q) /\ loop'[q].deadline = loop[q].deadline
    BY <2>1 DEF Working, Marked, LoopMarked
  <2> QED
    BY <2>1, <2>2, <2>3, <2>4, <2>5, GiveUpKeeps
<1>10. ASSUME NEW p \in Procs, NEW t \in Tasks, Renew(p, t) PROVE Apart'
  <2>1. /\ UNCHANGED <<status, sub, loop, polling>>
        /\ Mark(p, {t}) /\ owner[t] = p
    BY <1>10 DEF Renew
  <2>2. \A q \in Procs : \A u \in {t} : Holds(q, u) /\ status[u] # "done" => q = p
    BY <2>1 DEF Apart, HeldIsLeased
  <2>3. /\ \A q \in Procs, u \in Tasks : Holds(q, u)' <=> Holds(q, u)
        /\ \A h \in Submitters, u \in Tasks : Working(h, u)' <=> Working(h, u)
        /\ \A h \in Submitters : Marked(h)' =>
              Marked(h) /\ sub'[h].deadline = sub[h].deadline
        /\ \A q \in Procs : LoopMarked(q)' =>
              LoopMarked(q) /\ loop'[q].deadline = loop[q].deadline
    BY <2>1 DEF Holds, Working, Marked, LoopMarked
  <2> HIDE DEF TypeOK, Apart, QueueAssumption
  <2> QED
    BY <2>1, <2>2, <2>3, MarkKeeps
<1>11. ASSUME NEW t \in Tasks, Cancel(t) PROVE Apart'
  <2>1. /\ UNCHANGED <<sub, loop, polling, wrote>>
        /\ \A u \in Tasks : status'[u] # "done" => status[u] # "done" /\ u # t
        /\ \A u \in Tasks : \/ owner'[u] = owner[u] /\ left'[u] = left[u]
                            \/ owner'[u] = NoProc /\ left'[u] = Lapsed /\ u = t
    BY <1>11 DEF Cancel, TypeOK
  <2>2. /\ \A q \in Procs, u \in Tasks : Holds(q, u)' => Holds(q, u)
        /\ \A h \in Submitters, u \in Tasks : Working(h, u)' => Working(h, u)
        /\ \A h \in Submitters : Marked(h)' =>
              Marked(h) /\ sub'[h].deadline = sub[h].deadline
        /\ \A q \in Procs : LoopMarked(q)' =>
              LoopMarked(q) /\ loop'[q].deadline = loop[q].deadline
    BY <2>1 DEF Holds, Working, Marked, LoopMarked
  <2> QED
    BY <2>1, <2>2, GiveUpKeeps
<1>12. ASSUME Tick PROVE Apart'
  <2>1. /\ UNCHANGED <<status, owner, polling>> /\ wrote' = {}
        /\ \A t \in Tasks : /\ left[t] = Lapsed => left'[t] = Lapsed
                            /\ left[t] # Lapsed => left'[t] = left[t] - 1
        /\ \A g \in Submitters : /\ sub'[g].pc = sub[g].pc /\ sub'[g].task = sub[g].task
                                 /\ Marked(g) => /\ sub[g].deadline > 0
                                                 /\ sub'[g].deadline = sub[g].deadline - 1
        /\ \A p \in Procs : /\ loop'[p].pc = loop[p].pc
                            /\ LoopMarked(p) => /\ loop[p].deadline > 0
                                                /\ loop'[p].deadline = loop[p].deadline - 1
        /\ \A p \in Procs, t \in Tasks : Holds(p, t) /\ owner[t] = p => left[t] > 0
    BY <1>12 DEF Tick, TypeOK, Claims, Marked, LoopMarked
  <2>2. /\ \A g \in Submitters : Marked(g)' <=> Marked(g)
        /\ \A p \in Procs : LoopMarked(p)' <=> LoopMarked(p)
        /\ \A g \in Submitters, t \in Tasks : Working(g, t)' <=> Working(g, t)
        /\ \A p \in Procs, t \in Tasks : Holds(p, t)' <=> Holds(p, t)
        /\ \A t \in Tasks : HeldByNobody(t)' <=> HeldByNobody(t)
    BY <2>1 DEF Marked, LoopMarked, Working, Holds, HeldByNobody
  <2>3. /\ \A t \in Tasks : left[t] \in Left
        /\ \A g \in Submitters : sub[g].deadline \in Left
        /\ \A p \in Procs : loop[p].deadline \in Left
    BY DEF TypeOK, Claims
  <2>4. HeldIsLeased'
    BY <2>1, <2>2, <2>3 DEF Apart, HeldIsLeased, Left, Lapsed
  <2>5. Alone'
    BY <2>1, <2>2 DEF Apart, Alone
  <2>6. MarkedIsUnheld'
    <3>1. ASSUME NEW g \in Submitters, Marked(g)'
          PROVE  /\ sub'[g].deadline # Lapsed
                 /\ \A u \in Tasks : owner'[u] = Proc[g] /\ left'[u] = sub'[g].deadline
                       => HeldByNobody(u)'
      <4>1. \A u \in Tasks : left'[u] = sub'[g].deadline => left[u] = sub[g].deadline
        BY <2>1, <2>2, <2>3, <3>1 DEF Left, Lapsed
      <4> QED
        BY <2>1, <2>2, <2>3, <3>1, <4>1 DEF Apart, MarkedIsUnheld, Left, Lapsed
    <3>2. ASSUME NEW p \in Procs, LoopMarked(p)'
          PROVE  /\ loop'[p].deadline # Lapsed
                 /\ \A u \in Tasks : owner'[u] = p /\ left'[u] = loop'[p].deadline
                       => HeldByNobody(u)'
      <4>1. \A u \in Tasks : left'[u] = loop'[p].deadline => left[u] = loop[p].deadline
        BY <2>1, <2>2, <2>3, <3>2 DEF Left, Lapsed
      <4> QED
        BY <2>1, <2>2, <2>3, <3>2, <4>1 DEF Apart, MarkedIsUnheld, Left, Lapsed
    <3> QED
      BY <3>1, <3>2 DEF MarkedIsUnheld
  <2>7. MarkedApart'
    <3>1. \A g \in Submitters :
              Marked(g) => sub[g].deadline \in Int /\ sub'[g].deadline = sub[g].deadline - 1
      BY <2>1, <2>3 DEF Left, Lapsed
    <3>2. \A p \in Procs :
              LoopMarked(p) => loop[p].deadline \in Int /\ loop'[p].deadline = loop[p].deadline - 1
      BY <2>1, <2>3 DEF Left, Lapsed
    <3>3. ASSUME NEW g \in Submitters, NEW h \in Submitters,
                 Marked(g)', Marked(h)', Proc[g] = Proc[h], g # h
          PROVE  sub'[g].deadline # sub'[h].deadline
      <4>1. Marked(g) /\ Marked(h) /\ sub[g].deadline # sub[h].deadline
        BY <2>2, <3>3 DEF Apart, MarkedApart
      <4> QED
        BY <3>1, <4>1
    <3>4. ASSUME NEW g \in Submitters, Marked(g)', LoopMarked(Proc[g])'
          PROVE  sub'[g].deadline # loop'[Proc[g]].deadline
      <4>1. Marked(g) /\ LoopMarked(Proc[g]) /\ sub[g].deadline # loop[Proc[g]].deadline
        BY <1>1, <2>2, <3>4 DEF Apart, MarkedApart
      <4> QED
        BY <1>1, <3>1, <3>2, <4>1
    <3> QED
      BY <3>3, <3>4 DEF MarkedApart
  <2>8. UnwrittenIsOlder'
    BY <2>1, <2>2, <2>3 DEF UnwrittenIsOlder, Left, Lapsed
  <2> QED
    BY <2>4, <2>5, <2>6, <2>7, <2>8 DEF Apart
<1>13. ASSUME NEW p \in Procs, Crash(p) PROVE Apart'
  <2>1. /\ UNCHANGED <<status, owner, left, wrote>>
        /\ \A g \in Submitters : sub'[g] = sub[g] \/ sub'[g].pc = "idle"
        /\ \A q \in Procs : loop'[q] = loop[q] \/ loop'[q].pc = "idle"
        /\ \A q \in Procs : polling'[q] \subseteq polling[q]
    BY <1>13 DEF Crash, row, Idle, TypeOK
  <2>2. /\ \A q \in Procs, u \in Tasks : Holds(q, u)' => Holds(q, u)
        /\ \A h \in Submitters, u \in Tasks : Working(h, u)' => Working(h, u)
        /\ \A h \in Submitters : Marked(h)' =>
              Marked(h) /\ sub'[h].deadline = sub[h].deadline
        /\ \A q \in Procs : LoopMarked(q)' =>
              LoopMarked(q) /\ loop'[q].deadline = loop[q].deadline
    BY <2>1 DEF Holds, Working, Marked, LoopMarked
  <2> QED
    BY <2>1, <2>2, GiveUpKeeps
<1>14. CASE UNCHANGED vars
  <2>1. /\ UNCHANGED <<status, owner, left, sub, loop, polling, wrote>>
    BY <1>14 DEF vars
  <2>2. /\ \A q \in Procs, u \in Tasks : Holds(q, u)' => Holds(q, u)
        /\ \A h \in Submitters, u \in Tasks : Working(h, u)' => Working(h, u)
        /\ \A h \in Submitters : Marked(h)' =>
              Marked(h) /\ sub'[h].deadline = sub[h].deadline
        /\ \A q \in Procs : LoopMarked(q)' =>
              LoopMarked(q) /\ loop'[q].deadline = loop[q].deadline
    BY <2>1 DEF Holds, Working, Marked, LoopMarked
  <2> QED
    BY <2>1, <2>2, GiveUpKeeps
<1> QED
  BY <1>4, <1>5, <1>6, <1>7, <1>8, <1>9, <1>10, <1>11, <1>12, <1>13, <1>14
     DEF Next, SubmitStep

\* As long as no process writes two deadlines in one millisecond and renewals are in
\* time, no two goroutines work at one task.
THEOREM QueueOneWorker ==
    ASSUME DistinctDeadlines, ~Stalls
    PROVE  Spec => []OneWorker
<1>1. Init => TypeOK /\ Apart
  <2>1. Init => TypeOK
    BY QueueAssumption DEF Init, TypeOK, Idle, Claims, Left, Lapsed
  <2>2. Init => Apart
    BY QueueAssumption
       DEF Init, Idle, Apart, HeldIsLeased, Alone, MarkedIsUnheld, MarkedApart,
           UnwrittenIsOlder, Holds, Working, Marked, LoopMarked, Lapsed
  <2> QED
    BY <2>1, <2>2
<1>2. TypeOK /\ Apart /\ [Next]_vars => TypeOK' /\ Apart'
  BY TypesKept, ApartKept
<1>3. Apart => OneWorker
  BY DEF Apart, HeldIsLeased, Alone, Working, OneWorker
<1> QED
  BY <1>1, <1>2, <1>3, PTL DEF Spec
=============================================================================
