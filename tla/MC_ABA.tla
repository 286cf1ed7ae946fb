------------------------------- MODULE MC_ABA -------------------------------
(* ABA with four processes, one of them Byzantine (n = 4, t = 1).          *)
EXTENDS ABA, TLC

CONSTANTS p1, p2, p3, b

MCProc == {p1, p2, p3, b}
MCByz  == {b}

\* The Byzantine process A-Casts COMPLETE for either bit under its own id.
MCByzOwn == {[sender |-> b, value |-> v] : v \in Bits}

\* It also A-Casts COMPLETE(0) naming the correct process p1 as Sender.
MCByzForged == MCByzOwn \cup {[sender |-> p1, value |-> 0]}

\* Every input vector, and one with inputs split 1, 1, 0 (the Vote may
\* then end with confidence 2 for either bit).
MCAllInputs  == [{p1, p2, p3} -> Bits]
MCInputSplit == {(p1 :> 1) @@ (p2 :> 1) @@ (p3 :> 0)}
MCInputOnes  == {[i \in {p1, p2, p3} |-> 1]}
MCInputSplitOrOnes == MCInputSplit \cup MCInputOnes

\* The correct processes are interchangeable: every input vector is an
\* initial state and the Byzantine payloads name only b.
MCSymmetry == Permutations({p1, p2, p3})
=============================================================================
