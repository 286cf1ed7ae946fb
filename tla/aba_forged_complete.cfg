\* The COMPLETE gadget in full, every correct input 1, one round; the
\* Byzantine process A-Casts COMPLETE(0) under its own id and under p1's.
CONSTANTS
    p1 = p1  p2 = p2  p3 = p3  b = b
    Proc <- MCProc
    T = 1
    Byz <- MCByz
    MaxRound = 1
    ByzComplete <- MCByzForged
    Inputs <- MCInputOnes
SPECIFICATION Spec
INVARIANT ABAValidity
CHECK_DEADLOCK FALSE
