\* The services/ivss.go code (findClique).  Correct dealer 1, M = {1, 2, 4}: Byzantine process 4 is in M, A-Casts
\* a REVEAL of 2 + 2y (consistent with no correct share), and no READY.
CONSTANTS
    N = 4
    T = 1
    Byz = {4}
    Prime = 5
    C <- MCPoly
    MSet = {1, 2, 4}
    ByzReveals <- MCByzReveals
    ByzReadies = {}
    CliqueSearch = TRUE
SPECIFICATION Spec
INVARIANTS TypeOK ReconstructionCorrect FlagSoundness
PROPERTY InterpolationComplete 
CHECK_DEADLOCK FALSE
