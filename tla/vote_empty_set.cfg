\* One Vote round, n = 4, t = 1, every correct input 1.  The Byzantine
\* process A-Casts VOTE1 and REVOTE for 0 with an empty set.
CONSTANTS
    p1 = p1  p2 = p2  p3 = p3  b = b
    Proc <- MCProc
    T = 1
    Byz <- MCByz
    Inputs <- MCInputOnes
    ByzPayloads <- MCByzEmptyVotes
    ByzCasts = 1
SPECIFICATION Spec
SYMMETRY MCSymmetry
INVARIANT VoteValidity
CHECK_DEADLOCK FALSE
