\* One Vote round, n = 4, t = 1, every correct input 1.  The Byzantine
\* process A-Casts an INPUT with either bit, so the correct processes'
\* A sets differ.
CONSTANTS
    p1 = p1  p2 = p2  p3 = p3  b = b
    Proc <- MCProc
    T = 1
    Byz <- MCByz
    Inputs <- MCInputOnes
    ByzPayloads <- MCByzInput
    ByzCasts = 1
SPECIFICATION Spec
SYMMETRY MCSymmetry
INVARIANTS TypeOK VoteValidity VoteTermination
CHECK_DEADLOCK FALSE
