----------------------------- MODULE MCTaskExec -----------------------------
(* Finite instances of TaskExec: two processes, up to two submit workers and   *)
(* pollers, one callback and one cancellation.                                 *)
EXTENDS TaskExec, TLC

CONSTANTS t1, t2, p1, p2, s1, s2, q1, q2, h1, c1

\* Two processes; the callback arrives at the second one.
MCProc == [g \in Goroutines |-> IF g \in {s1, q1, c1} THEN p1 ELSE p2]
=============================================================================
