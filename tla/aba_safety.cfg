\* ABA safety, n = 4, t = 1, every input vector, three rounds; the Byzantine
\* process A-Casts COMPLETE for both bits under its own id.
CONSTANTS
    p1 = p1  p2 = p2  p3 = p3  b = b
    Proc <- MCProc
    T = 1
    Byz <- MCByz
    MaxRound = 3
    ByzComplete <- MCByzOwn
    Inputs <- MCAllInputs
SPECIFICATION SpecRounds
SYMMETRY MCSymmetry
INVARIANTS TypeOK   
CHECK_DEADLOCK FALSE
