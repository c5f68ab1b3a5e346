--------------------------- MODULE MCCreditLedger ---------------------------
(* A finite instance of CreditLedger: two tasks of one user race for his      *)
(* balance, a second user shares the administrator's idempotency keys.        *)
EXTENDS CreditLedger, TLC

CONSTANTS u1, u2, t1, t2, s1, s2, k1, k2

MCOwner == t1 :> u1 @@ t2 :> u1

MCSymmetry == Permutations(Sessions) \cup Permutations(TopupKeys)
=============================================================================
