----------------------------- MODULE IVSSShare -----------------------------
(***************************************************************************)
(* The end of the sharing phase of one IVSS instance of                    *)
(* src/unnamed/part_002 (IVSSService) with a correct dealer, at every      *)
(* correct process: EQUAL records, the dealer's candidate set M, the MSET  *)
(* A-Cast and its verification, up to sharingCompleted.                    *)
(*                                                                         *)
(* The dealer's M is built by findClique in src/services/ivss.go and     *)
(* greedily in part_002 (CliqueSearch); the rest of the two is the same.   *)
(*                                                                         *)
(* Abstractions.                                                           *)
(*  - Share and Point messages (module IVSSPoints) are summarised by     *)
(*    EqPairs: the unordered pairs {k, j} for which both EQUAL(k,j) and    *)
(*    EQUAL(j,k) are A-Cast.                                               *)
(*    checkCandidateSet and verifyMSet read the two directions only in     *)
(*    conjunction, so only the delivery completing a pair changes what    *)
(*    they compute.  Correct pairs are always in EqPairs; pairs with a     *)
(*    Byzantine member are there when it plays along.                      *)
(*  - The MSET A-Cast is the ACast module itself: the dealer is the sender *)
(*    of every MSET value it has cast under the one "-MSET" uuid.           *)
(*  - At a process other than the dealer, an MSET is held pending and      *)
(*    verified by a later EQUAL delivery: every pair of it was delivered   *)
(*    at the dealer, so A-Cast totality brings it to every process.        *)
(*  - Flags is each process's certification registry as earlier instances *)
(*    left it; within this instance nothing is flagged before sharing     *)
(*    completes (checkInterpolationSet needs the mSet).                    *)
(***************************************************************************)
EXTENDS Integers, FiniteSets, SequencesExt, Clique

CONSTANTS N,            \* number of processes, named 1..N
          T,            \* fault bound
          Byz,          \* Byzantine processes
          Dealer,       \* the (correct) dealer
          EqPairs,      \* pairs {k, j} whose EQUALs are both A-Cast
          Flags,        \* Flags[p]: faulty pairs in p's registry
          ByzMsetTypes, \* what Byzantine processes send under the MSET uuid
          CliqueSearch  \* TRUE: src/services/ivss.go; FALSE: part_002

Proc   == 1..N
Honest == Proc \ Byz
NoM    == {}
\* the sets the dealer's checkCandidateSet can produce
MsetValues == {M \in SUBSET Proc : Cardinality(M) >= N - T}
Pairs == {e \in SUBSET Proc : Cardinality(e) = 2}

ASSUME /\ N > 3 * T
       /\ Byz \subseteq Proc /\ Cardinality(Byz) <= T /\ Dealer \in Honest
       /\ EqPairs \subseteq Pairs
       /\ \A k, j \in Honest : k # j => {k, j} \in EqPairs
       /\ Flags \in [Proc -> SUBSET Pairs]
       /\ CliqueSearch \in BOOLEAN

VARIABLES dealerEq,   \* pairs whose EQUALs are both delivered at the dealer
          msetCast,   \* the MSET values the dealer has A-Cast
          echoed, readied, echoCount, readyCount, delivered,  \* MSET A-Cast
          pending,    \* pendingMSet
          mset        \* mSet; sharingCompleted is mset[p] # NoM

mcast == <<echoed, readied, echoCount, readyCount, delivered>>
vars == <<dealerEq, msetCast, mcast, pending, mset>>

MCast == INSTANCE ACast WITH Proc <- Proc, Sender <- Dealer,
             SenderValues <- MsetValues, Values <- MsetValues,
             ByzTypes <- ByzMsetTypes, NoVal <- NoM

Completed(p) == mset[p] # NoM

\* CertificationProtocol.IsFaultyPair, pairs stored unordered.
IsFaultyPair(p, i, j) == {i, j} \in Flags[p]

\* part_002 checkCandidateSet: greedy over 1..n; k joins when it is
\* EQUAL-paired with every member so far and no such pair is flagged.
GreedyCandidateSet(eq) ==
    FoldLeft(LAMBDA M, k :
                IF \A m \in M : {k, m} \in eq /\ ~IsFaultyPair(Dealer, k, m)
                THEN M \cup {k} ELSE M,
             {}, [i \in 1..N |-> i])

\* services/ivss.go checkCandidateSet: the adjacency of 1..n is the
\* EQUAL-paired, unflagged pairs; M is the first (n-t)-clique findClique
\* meets taking the nodes in order, or none (the empty set here).
CliqueCandidateSet(eq) ==
    LET adj == {q \in Proc \X Proc :
                  q[1] # q[2] /\ {q[1], q[2]} \in eq /\ ~IsFaultyPair(Dealer, q[1], q[2])}
    IN  Range(FindClique([i \in 1..N |-> i], N - T, adj))

CandidateSet(eq) == IF CliqueSearch THEN CliqueCandidateSet(eq) ELSE GreedyCandidateSet(eq)

\* verifyMSet at p against the EQUALs eq delivered there.
VerifyMSet(p, eq, M) ==
    /\ Cardinality(M) >= N - T
    /\ \A u, v \in M : u # v => {u, v} \in eq /\ ~IsFaultyPair(p, u, v)

Init ==
    /\ dealerEq = {}
    /\ msetCast = {}
    /\ MCast!Init
    /\ pending = [p \in Honest |-> NoM]
    /\ mset = [p \in Honest |-> NoM]

\* case Payload_Equal at the dealer: record the pair, re-run
\* checkCandidateSet (A-Cast MSET when |M| >= n-t, on every EQUAL until
\* sharing completes), then re-check a pending MSET.  Once sharing has
\* completed, completedEquals is read no more.
DealerEqual(e) ==
    LET eq == dealerEq \cup {e}
        M  == CandidateSet(eq)
    IN  /\ ~Completed(Dealer)
        /\ e \in EqPairs \ dealerEq
        /\ dealerEq' = eq
        /\ msetCast' = IF Cardinality(M) >= N - T THEN msetCast \cup {M}
                                                  ELSE msetCast
        /\ IF pending[Dealer] # NoM /\ VerifyMSet(Dealer, eq, pending[Dealer])
           THEN /\ mset' = [mset EXCEPT ![Dealer] = pending[Dealer]]
                /\ pending' = [pending EXCEPT ![Dealer] = NoM]
           ELSE UNCHANGED <<mset, pending>>
        /\ UNCHANGED mcast

\* The EQUAL delivery at a process other than the dealer after which its
\* pending MSET verifies (checkCandidateSet returns at once there).
PendingVerified(p) ==
    /\ p # Dealer
    /\ pending[p] # NoM
    /\ VerifyMSet(p, EqPairs, pending[p])
    /\ mset' = [mset EXCEPT ![p] = pending[p]]
    /\ pending' = [pending EXCEPT ![p] = NoM]
    /\ UNCHANGED <<dealerEq, msetCast, mcast>>

\* case Payload_MSet: hold M pending and complete sharing if it verifies.
\* Elsewhere than at the dealer the verification waits for PendingVerified.
OnMsetDelivered(p, M) ==
    IF p = Dealer /\ VerifyMSet(p, dealerEq, M)
    THEN /\ mset' = [mset EXCEPT ![p] = M]
         /\ UNCHANGED pending
    ELSE /\ pending' = [pending EXCEPT ![p] = M]
         /\ UNCHANGED mset

\* The A-Cast handler under the "-MSET" uuid: MSG, ECHO and READY.  Each
\* MSET value the dealer has cast is a MSG under that uuid.
MsetMsg(p, M) ==
    /\ M \in msetCast \/ "MSG" \in ByzMsetTypes
    /\ MCast!OnMsg(p, M)
    /\ UNCHANGED <<dealerEq, msetCast, pending, mset>>

MsetEcho(p, M, src) ==
    /\ MCast!OnEcho(p, M, src)
    /\ UNCHANGED <<dealerEq, msetCast, pending, mset>>

MsetReady(p, M, src) ==
    /\ MCast!OnReady(p, M, src)
    /\ IF delivered'[p] # NoM THEN OnMsetDelivered(p, M)
                             ELSE UNCHANGED <<pending, mset>>
    /\ UNCHANGED <<dealerEq, msetCast>>

Next ==
    \/ \E e \in EqPairs : DealerEqual(e)
    \/ \E p \in Honest : PendingVerified(p)
    \/ \E p \in Honest, M \in MsetValues :
          \/ MsetMsg(p, M)
          \/ \E src \in MCast!Sources : MsetEcho(p, M, src) \/ MsetReady(p, M, src)

\* Every message a correct process sends is eventually handled
\* (ServiceManager.loop drains its inbox and Network.Broadcast loses
\* nothing); Byzantine messages get no fairness.
Fairness ==
    /\ \A e \in EqPairs : WF_vars(DealerEqual(e))
    /\ \A p \in Honest : WF_vars(PendingVerified(p))
    /\ \A p \in Honest, M \in MsetValues :
          /\ WF_vars(M \in msetCast /\ MsetMsg(p, M))
          /\ WF_vars(MsetEcho(p, M, "honest"))
          /\ WF_vars(MsetReady(p, M, "honest"))

Spec == Init /\ [][Next]_vars /\ Fairness

-----------------------------------------------------------------------------
TypeOK ==
    /\ dealerEq \subseteq EqPairs
    /\ msetCast \subseteq MsetValues
    /\ MCast!TypeOK
    /\ pending \in [Honest -> MsetValues \cup {NoM}]
    /\ mset \in [Honest -> MsetValues \cup {NoM}]

\* Spec property 4 (IVSS completeness): with a correct dealer every correct
\* process eventually completes sharing, i.e. A-Cast-delivers the dealer's
\* MSET and verifies it.
SharingTermination ==
    <>(\A p \in Honest : Completed(p))
=============================================================================
