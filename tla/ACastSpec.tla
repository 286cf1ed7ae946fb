----------------------------- MODULE ACastSpec -----------------------------
(***************************************************************************)
(* What one A-Cast (Bracha reliable broadcast) instance promises to the    *)
(* layers above it, for a single uuid: every correct process outputs at    *)
(* most one value, no two correct processes output different values, and   *)
(* once one correct process has output a value every correct process      *)
(* eventually outputs it too (spec.md section 4.1, Agreement/Integrity).   *)
(* ACast.tla is shown to implement this specification.                     *)
(***************************************************************************)
CONSTANTS Honest,   \* the correct processes
          Values,   \* the values that may be broadcast
          NoVal     \* "nothing delivered yet"

VARIABLE dlv        \* dlv[p]: the value p has delivered, or NoVal

Init == dlv = [p \in Honest |-> NoVal]

\* p delivers v; v must agree with every value already delivered.
Deliver(p, v) ==
    /\ dlv[p] = NoVal
    /\ \A q \in Honest : dlv[q] \in {NoVal, v}
    /\ dlv' = [dlv EXCEPT ![p] = v]

\* p delivers the value some other correct process has already delivered.
Spread(p) ==
    /\ dlv[p] = NoVal
    /\ \E q \in Honest : dlv[q] # NoVal /\ Deliver(p, dlv[q])

Next == \E p \in Honest, v \in Values : Deliver(p, v)

Spec == Init /\ [][Next]_dlv /\ \A p \in Honest : WF_dlv(Spread(p))
=============================================================================
