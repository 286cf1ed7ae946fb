\* Byzantine sender equivocating between two values; the Byzantine process
\* sends every kind of message.  Safety only, so symmetry is sound.
CONSTANTS
    p1 = p1
    p2 = p2
    p3 = p3
    b = b
    v1 = v1
    v2 = v2
    NoVal = NoVal
    T = 1
    Proc <- MCProc
    Byz <- MCByz
    Sender = b
    Values <- MCTwoValues
    SenderValues <- MCTwoValues
    ByzTypes = {"MSG", "ECHO", "READY"}
SPECIFICATION Spec
SYMMETRY MCSymmetry
INVARIANTS TypeOK HonestReadyUnique Agreement
CHECK_DEADLOCK FALSE
