------------------------------ MODULE MC_IVSS ------------------------------
(* Model-checking instance of IVSS: n = 4, t = 1, dealer 1, process 4     *)
(* Byzantine, over the field of 5 elements.                               *)
EXTENDS IVSS, TLC

\* F(x, y) = 3 + 2x + 2y + xy: secret 3.  Shares f_1 = 3y,
\* f_2 = 2 + 4y, f_3 = 4, f_4 = 1 + y (mod 5).
MCPoly == [i \in 0..1 |-> [j \in 0..1 |->
              IF i = 0 /\ j = 0 THEN 3 ELSE IF i = 1 /\ j = 1 THEN 1 ELSE 2]]

\* Process 4 reveals 2 + 2y, which agrees with no correct share at the
\* correct process's point.
MCByzReveals == {[sender |-> 4, poly |-> [i \in 0..1 |-> 2]]}

\* Process 4 reveals 4y: it agrees with f_2 at the pair (2, 4) only.
MCCraftedReveal == {[sender |-> 4, poly |-> (0 :> 0) @@ (1 :> 4)]}

=============================================================================
