------------------------------- MODULE MCHub -------------------------------
(* A finite instance of Hub: one tab, which connects to one of two          *)
(* processes at a time; two publishers, one in each process.                *)
EXTENDS Hub, TLC

CONSTANTS u1, u2, t1, p1, p2, w1, w2, c1, c2

MCOwner == [t \in Tabs |-> u1]
MCHome == [w \in Publishers |-> IF w = w1 THEN p1 ELSE p2]

\* Connections are alike.
MCSymmetry == Permutations(Conns)
=============================================================================
