------------------------------- MODULE MC_Vote -------------------------------
(* Vote with four processes, one of them Byzantine (n = 4, t = 1).         *)
EXTENDS Vote, TLC

CONSTANTS p1, p2, p3, b

MCProc == {p1, p2, p3, b}
MCByz  == {b}

Pl(ty, s, x, S) == [type |-> ty, sender |-> s, bit |-> x, set |-> S]

\* The Byzantine process votes 0 with an empty set in VOTE1 and REVOTE:
\* the empty set passes the subset check at every process.
MCByzEmptyVotes == {Pl(ty, b, 0, {}) : ty \in {"VOTE1", "REVOTE"}}

\* The Byzantine process's INPUT only, with either bit.
MCByzInput == {Pl("INPUT", b, x, {}) : x \in Bits}

\* The Byzantine process's INPUT 0 only.
MCByzInputZero == {Pl("INPUT", b, 0, {})}

\* inputs: all correct processes start with 1
MCInputOnes == {[i \in {p1, p2, p3} |-> 1]}
MCSymmetry == Permutations({p1, p2, p3})
=============================================================================
