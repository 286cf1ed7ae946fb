----------------------------- MODULE IVSSPoints -----------------------------
(***************************************************************************)
(* The point exchange of the sharing phase of one IVSS instance of        *)
(* src/services/ivss.go with a correct dealer: StartSharing sends each    *)
(* process k its slice f_k (Direct_Share); on the share, k sends the      *)
(* point f_k(j) to every j (Direct_Point) and replays the points it had   *)
(* buffered in earlyPoints; processPoint A-Casts EQUAL(k, j) when j's     *)
(* point equals f_k(j).  The EQUAL A-Casts are the start of module        *)
(* IVSSShare, which takes them as given.                                  *)
(*                                                                         *)
(* Every direct message goes to everyone (Network.Broadcast) and only the *)
(* process named in To handles it; a message is a record with its To.     *)
(* Each message is handled at most once, in any order.  Points a correct  *)
(* process sends to a Byzantine one are left out: nothing it does with   *)
(* them is constrained.  Byzantine processes send the points ByzPoints,   *)
(* at any time or never.                                                  *)
(***************************************************************************)
EXTENDS Integers, FiniteSets, Field

CONSTANTS N,          \* number of processes, named 1..N
          T,          \* fault bound
          Byz,        \* Byzantine processes
          C,          \* the dealer's symmetric polynomial
          ByzPoints   \* Direct_Point messages Byzantine processes send

Proc   == 1..N
Honest == Proc \ Byz
Polys  == [0..T -> Elems]
NoPoly == [i \in 0..T |-> -1]
NoPoint == -1
Points == [from : Proc, to : Honest, val : Elems]

ASSUME /\ N > 3 * T /\ Prime > N
       /\ Byz \subseteq Proc /\ Cardinality(Byz) <= T
       /\ C \in SymmetricPolynomials(T, C[0][0])
       /\ ByzPoints \subseteq [from : Byz, to : Honest, val : Elems]

\* Direct_Share: the slice the dealer sends to process k.
Share(k) == GetUnivariatePolynomial(C, k)

VARIABLES poly,    \* receivedPoly, NoPoly while nil
          early,   \* earlyPoints: early[k][j] is j's buffered point or NoPoint
          sent,    \* Direct_Point messages correct processes have sent
          got,     \* the Direct_Point messages k has handled
          equal    \* <<k, j>>: correct k has A-Cast EQUAL(k, j)

vars == <<poly, early, sent, got, equal>>

\* StartSharing has sent every share; no process has handled anything.
Init ==
    /\ poly  = [k \in Honest |-> NoPoly]
    /\ early = [k \in Honest |-> [j \in Proc |-> NoPoint]]
    /\ sent  = {}
    /\ got   = [k \in Honest |-> {}]
    /\ equal = {}

\* Faulty variant: evaluates the slice at the process's own id.
ProcessPointAtSelf(k, f, from, point) ==
    IF Evaluate(f, k) = point THEN {<<k, from>>} ELSE {}

\* Faulty variant: the pair is A-Cast as (from, k).
ProcessPointSwapped(k, f, from, point) ==
    IF Evaluate(f, from) = point THEN {<<from, k>>} ELSE {}

\* processPoint(inst, from, point): the EQUAL pair k A-Casts for j's point
\* under its slice f, if any.
ProcessPoint(k, f, from, point) ==
    IF Evaluate(f, from) = point THEN {<<k, from>>} ELSE {}

\* The points in flight to k.
Pending(k) == {m \in sent \cup ByzPoints : m.to = k /\ m \notin got[k]}

\* Faulty variant: the buffer is cleared without replaying it.
ReceiveShareNoReplay(k) ==
    /\ poly[k] = NoPoly
    /\ poly'  = [poly EXCEPT ![k] = Share(k)]
    /\ sent'  = sent \cup {[from |-> k, to |-> j, val |-> Evaluate(Share(k), j)] :
                           j \in Honest}
    /\ early' = [early EXCEPT ![k] = [j \in Proc |-> NoPoint]]
    /\ UNCHANGED <<got, equal>>

\* OnMessage, Direct_Share at k: store the slice, send f_k(j) to each j,
\* process every buffered point, then clear the buffer.
ReceiveShare(k) ==
    /\ poly[k] = NoPoly
    /\ poly'  = [poly EXCEPT ![k] = Share(k)]
    /\ sent'  = sent \cup {[from |-> k, to |-> j, val |-> Evaluate(Share(k), j)] :
                           j \in Honest}
    /\ equal' = equal \cup UNION {ProcessPoint(k, Share(k), j, early[k][j]) :
                                  j \in {i \in Proc : early[k][i] # NoPoint}}
    /\ early' = [early EXCEPT ![k] = [j \in Proc |-> NoPoint]]
    /\ UNCHANGED got

\* OnMessage, Direct_Point at k: buffered under its sender while k has no
\* slice (a later point of the sender overwrites it), else processed.
ReceivePoint(k, m) ==
    /\ got' = [got EXCEPT ![k] = @ \cup {m}]
    /\ \/ /\ poly[k] = NoPoly
          /\ early' = [early EXCEPT ![k][m.from] = m.val]
          /\ UNCHANGED equal
       \/ /\ poly[k] # NoPoly
          /\ equal' = equal \cup ProcessPoint(k, poly[k], m.from, m.val)
          /\ UNCHANGED early
    /\ UNCHANGED <<poly, sent>>

Next ==
    \/ \E k \in Honest : ReceiveShare(k)
    \/ \E k \in Honest : \E m \in Pending(k) : ReceivePoint(k, m)

\* Network.Broadcast delivers every message a correct process sends, and
\* each process's inbox is read in a loop; Byzantine points may never come.
Fairness ==
    /\ \A k \in Honest : WF_vars(ReceiveShare(k))
    /\ \A k, j \in Honest :
           WF_vars(\E m \in Pending(k) : m.from = j /\ ReceivePoint(k, m))

Spec == Init /\ [][Next]_vars /\ Fairness

-----------------------------------------------------------------------------

TypeOK ==
    /\ poly \in [Honest -> Polys \cup {NoPoly}]
    /\ early \in [Honest -> [Proc -> Elems \cup {NoPoint}]]
    /\ sent \subseteq Points
    /\ DOMAIN got = Honest /\ \A k \in Honest : got[k] \subseteq Points
    /\ equal \subseteq Honest \times Proc

(* A correct process k A-Casts EQUAL(k, j) only after handling a point  *)
(* from j that equals its own slice at j, f_k(j) = F(k, j), whether the *)
(* point was processed on arrival or buffered in earlyPoints and         *)
(* replayed when the Direct_Share came (OnMessage, processPoint).        *)
EqualSound ==
    \A k \in Honest, j \in Proc :
        <<k, j>> \in equal =>
            \E m \in got[k] : m.from = j /\ m.val = Evaluate(Share(k), j)

(* Every pair of correct processes (k, j) eventually has EQUAL(k, j)    *)
(* A-Cast by k, whichever of j's point and k's own Direct_Share reaches *)
(* k first: a point that arrives early must be kept and replayed.  (No  *)
(* pair is ever removed, so all pairs are eventually there together.)   *)
EqualComplete == <>(Honest \X Honest \subseteq equal)

=============================================================================
