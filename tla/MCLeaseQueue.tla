---------------------------- MODULE MCLeaseQueue ----------------------------
(* Finite instances of LeaseQueue: two processes, the first with two submit    *)
(* workers when there are three.                                               *)
EXTENDS LeaseQueue, TLC

CONSTANTS t1, t2, p1, p2, s1, s2, s3

MCProc == [g \in Submitters |-> IF g \in {s1, s3} THEN p1 ELSE p2]

MCAge == t1 :> 1 @@ t2 :> 2
=============================================================================
