\* The point exchange with correct dealer 1 and Byzantine process 4, which
\* sends process 2 one right and one wrong point, or either, or none.  The
\* exchange is finite: once every message is handled nothing is enabled.
CONSTANTS
    N = 4
    T = 1
    Byz = {4}
    Prime = 5
    C <- MCPoly
    ByzPoints <- MCByzPoints
SPECIFICATION Spec
INVARIANTS TypeOK EqualSound
PROPERTY EqualComplete
CHECK_DEADLOCK FALSE
