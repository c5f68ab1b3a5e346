------------------------------ MODULE MCCanvas ------------------------------
(* A finite instance of CanvasChat: one script, one shot, one tab, one call. *)
EXTENDS CanvasChat

CONSTANTS s, h, t1, q1, p1, p2

MCKindOf == [c \in Cards |-> IF c = s THEN "script" ELSE "shot"]
=============================================================================
