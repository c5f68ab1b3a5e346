------------------------------- MODULE Leases -------------------------------
(***************************************************************************)
(* What the queue promises the executor, without clocks and rows: a task   *)
(* is leased by one process at a time, and nobody takes a lease from its   *)
(* holder; it is given up, or it lapses.                                   *)
(***************************************************************************)
CONSTANTS Tasks, Procs, NoProc

VARIABLE lease      \* lease[t]: the process that has t, or NoProc

Init == lease = [t \in Tasks |-> NoProc]

Take(p, S) ==
    /\ \A t \in S : lease[t] = NoProc
    /\ lease' = [t \in Tasks |-> IF t \in S THEN p ELSE lease[t]]

\* Given up by its holder, ended with the task, or lapsed.
Free(S) == lease' = [t \in Tasks |-> IF t \in S THEN NoProc ELSE lease[t]]

Next == \E S \in SUBSET Tasks : Free(S) \/ \E p \in Procs : Take(p, S)

Spec == Init /\ [][Next]_lease
=============================================================================
