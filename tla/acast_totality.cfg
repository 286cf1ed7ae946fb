\* Byzantine sender that may reach only some correct processes, and a
\* Byzantine process that may send its ECHO and READY to anyone: once one
\* correct process delivers, all must.  One value suffices: totality is
\* about who hears what, and agreement is checked by acast_agreement.
CONSTANTS
    p1 = p1
    p2 = p2
    p3 = p3
    b = b
    v1 = v1
    v2 = v2
    NoVal = NoVal
    T = 1
    Proc <- MCProc
    Byz <- MCByz
    Sender = b
    Values <- MCOneValue
    SenderValues <- MCOneValue
    ByzTypes = {"MSG", "ECHO", "READY"}
SPECIFICATION Spec
PROPERTIES ACastRefinement
CHECK_DEADLOCK FALSE
