---------------------------- MODULE MC_IVSSShare ----------------------------
(* Model-checking instance of IVSSShare: n = 4, t = 1, dealer 1.          *)
EXTENDS IVSSShare, TLC

MCAllPairs == {e \in SUBSET (1..4) : Cardinality(e) = 2}

\* No registry entries from earlier instances.
MCNoFlags == [p \in 1..4 |-> {}]
=============================================================================
