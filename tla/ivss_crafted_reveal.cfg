\* Correct dealer 1, M = {1, 2, 4}: Byzantine process 4 reveals 4y, which
\* agrees with the share of process 2 at their cross point and with no other.
CONSTANTS
    N = 4
    T = 1
    Byz = {4}
    Prime = 5
    C <- MCPoly
    MSet = {1, 2, 4}
    ByzReveals <- MCCraftedReveal
    ByzReadies = {}
    CliqueSearch = FALSE
SPECIFICATION Spec
INVARIANT ReconstructionCorrect
CHECK_DEADLOCK FALSE
