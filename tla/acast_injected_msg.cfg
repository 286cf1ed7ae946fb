\* Correct sender broadcasting v1; the Byzantine process also sends a MSG
\* under the same uuid, which OnMessage accepts from anyone.
CONSTANTS
    p1 = p1
    p2 = p2
    p3 = p3
    b = b
    v1 = v1
    v2 = v2
    NoVal = NoVal
    T = 1
    Proc <- MCProc
    Byz <- MCByz
    Sender = p1
    Values <- MCTwoValues
    SenderValues <- MCSenderValue
    ByzTypes = {"MSG", "ECHO", "READY"}
SPECIFICATION Spec
INVARIANTS SenderValidity
CHECK_DEADLOCK FALSE
