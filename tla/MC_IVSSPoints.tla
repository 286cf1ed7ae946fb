--------------------------- MODULE MC_IVSSPoints ---------------------------
(* Model-checking instance of IVSSPoints: n = 4, t = 1, process 4         *)
(* Byzantine, the polynomial of MC_IVSS over the field of 5 elements.     *)
EXTENDS IVSSPoints, TLC

\* F(x, y) = 3 + 2x + 2y + xy.  Shares f_1 = 3y, f_2 = 2 + 4y, f_3 = 4.
MCPoly == [i \in 0..1 |-> [j \in 0..1 |->
              IF i = 0 /\ j = 0 THEN 3 ELSE IF i = 1 /\ j = 1 THEN 1 ELSE 2]]

\* Process 4 sends process 2 the right point f_2(4) = 3 and the wrong
\* point 0, which is f_2(2).
MCByzPoints == {[from |-> 4, to |-> 2, val |-> 3], [from |-> 4, to |-> 2, val |-> 0]}

=============================================================================
