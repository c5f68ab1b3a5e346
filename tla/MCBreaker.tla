----------------------------- MODULE MCBreaker -----------------------------
(* Finite instances of Breaker: up to two providers and three workers.      *)
EXTENDS Breaker

CONSTANTS a, b, w1, w2, w3, q1
=============================================================================
