------------------------------ MODULE MCRecall ------------------------------
(* Small instances of Recall for TLC: the first message and the last are   *)
(* in conversations of their own.                                          *)
EXTENDS Recall

CONSTANTS m1, m2, m3, s1, s2, nomic, bge

MCHome == [m \in Messages |-> IF m = m1 THEN s1 ELSE s2]
MCWidth == [e \in Models |-> 768]
=============================================================================
