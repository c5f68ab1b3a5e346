----------------------------- MODULE MCStorage -----------------------------
(* A finite instance of Storage: two workers, one upload, two assets.      *)
EXTENDS Storage, TLC

CONSTANTS a1, a2, u1, w1, w2

MCUploadSize == [u \in Uploads |-> 1]

\* Assets are alike, and so are workers.
MCSymmetry == Permutations(Assets) \cup Permutations(Workers)
=============================================================================
