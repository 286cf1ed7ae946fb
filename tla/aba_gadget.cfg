\* The COMPLETE gadget in full (handleCompleteDelivery over A-Cast), n = 4,
\* t = 1, one round, inputs 1, 1, 0 or all 1; the Byzantine process A-Casts
\* COMPLETE for both bits under its own id.  No symmetry: the run checks a
\* liveness property.  Rounds end at MaxRound, so the system may stop.
CONSTANTS
    p1 = p1  p2 = p2  p3 = p3  b = b
    Proc <- MCProc
    T = 1
    Byz <- MCByz
    MaxRound = 1
    ByzComplete <- MCByzOwn
    Inputs <- MCInputSplitOrOnes
SPECIFICATION Spec
 
PROPERTY UnanimousTermination
CHECK_DEADLOCK FALSE
