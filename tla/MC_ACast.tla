------------------------------ MODULE MC_ACast ------------------------------
(* Model-checking instance of ACast: n = 4, t = 1, process b Byzantine.   *)
EXTENDS ACast, TLC

CONSTANTS p1, p2, p3, b, v1, v2

MCProc == {p1, p2, p3, b}
MCByz  == {b}

\* Both values, for an equivocating Byzantine sender.
MCTwoValues == {v1, v2}

\* One value: enough for totality, where only who hears what matters.
MCOneValue == {v1}

\* A correct sender broadcasts v1.
MCSenderValue == {v1}

\* The correct processes are interchangeable, and so are the two values
\* when the sender is Byzantine (safety runs only).
MCSymmetry == Permutations({p1, p2, p3}) \cup Permutations(MCTwoValues)
=============================================================================
