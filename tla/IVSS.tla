-------------------------------- MODULE IVSS --------------------------------
(***************************************************************************)
(* The reconstruction phase of one IVSS instance of src/unnamed/part_002  *)
(* (IVSSService) with a correct dealer, at every correct process: REVEAL, *)
(* the interpolation set with faulty-pair flagging (checkInterpolationSet),*)
(* READY and the RECONSTRUCTED output.                                     *)
(*                                                                         *)
(* Two versions of the code are modelled, chosen by CliqueSearch: the one *)
(* of src/services/ivss.go builds the interpolation set with findClique,   *)
(* the one of part_002 greedily; the rest of the two files is the same.    *)
(*                                                                         *)
(* Processes are the integers 1..n, as in the code, since ids are the      *)
(* interpolation points.  The dealer's polynomial is the constant C, and   *)
(* process k's share is the slice f_k = F(k, .) (Direct_Share).            *)
(*                                                                         *)
(* Sharing (module IVSSShare) enters as the event CompleteSharing(p), at   *)
(* each process in any order, with the one MSET value MSet that the MSET   *)
(* A-Cast delivers everywhere (A-Cast agreement).  REVEAL and READY        *)
(* A-Casts reach every correct process once each, in any order, and may    *)
(* arrive before sharing has completed there.                              *)
(***************************************************************************)
EXTENDS Integers, FiniteSets, Sequences, SequencesExt, Field, Clique

CONSTANTS N,            \* number of processes, named 1..N
          T,            \* fault bound
          Byz,          \* Byzantine processes
          C,            \* the dealer's symmetric polynomial, C[0][0] = s
          MSet,         \* the M the MSET A-Cast delivers
          ByzReveals,   \* REVEAL payloads Byzantine processes A-Cast
          ByzReadies,   \* RevealSender fields of Byzantine READY payloads
          CliqueSearch  \* TRUE: src/services/ivss.go; FALSE: part_002

Proc   == 1..N
Honest == Proc \ Byz
Polys  == [0..T -> Elems]
NoPoly == [i \in 0..T |-> -1]
NoM    == {}
NoSecret == -1
Secret == C[0][0]

ASSUME /\ N > 3 * T /\ Prime > N
       /\ Byz \subseteq Proc /\ Cardinality(Byz) <= T
       /\ C \in SymmetricPolynomials(T, C[0][0])
       /\ MSet \subseteq Proc /\ Cardinality(MSet) >= N - T
       /\ ByzReveals \subseteq [sender : Proc, poly : Polys]
       /\ ByzReadies \subseteq Proc
       /\ CliqueSearch \in BOOLEAN

\* Direct_Share: the slices f_k = F(k, .) the dealer sends, and process
\* k's slice.
Shares == [k \in Proc |-> GetUnivariatePolynomial(C, k)]
Share(k) == Shares[k]

VARIABLES mset,       \* mSet; sharingCompleted is mset[p] # NoM
          started,    \* StartReconstruction has been called
          revGot,     \* REVEAL payloads delivered
          recPolys,   \* reconstructedPolys
          fp,         \* the certification registry's faulty pairs
          secret,     \* inst.secret
          readyCast,  \* this process has A-Cast its READY
          readyGot,   \* readyToComplete, by payload
          output,     \* the RECONSTRUCTED result, or NoSecret
          earlyRev    \* history: a correct process got a REVEAL before sharing completed

vars == <<mset, started, revGot, recPolys, fp, secret, readyCast, readyGot, output, earlyRev>>

Completed(p) == mset[p] # NoM

Init ==
    /\ mset = [p \in Honest |-> NoM]
    /\ started = [p \in Honest |-> FALSE]
    /\ revGot = [p \in Honest |-> {}]
    /\ recPolys = [p \in Honest |-> [k \in Proc |-> NoPoly]]
    /\ fp = [p \in Honest |-> {}]
    /\ secret = [p \in Honest |-> NoSecret]
    /\ readyCast = [p \in Honest |-> FALSE]
    /\ readyGot = [p \in Honest |-> {}]
    /\ output = [p \in Honest |-> NoSecret]
    /\ earlyRev = FALSE

\* The MSET delivery (or later EQUAL) at which verifyMSet passes: mSet is
\* set and SHARING_COMPLETE sent.
CompleteSharing(p) ==
    /\ ~Completed(p)
    /\ mset' = [mset EXCEPT ![p] = MSet]
    /\ UNCHANGED <<started, revGot, recPolys, fp, secret, readyCast, readyGot, output, earlyRev>>

-----------------------------------------------------------------------------
(* Reconstruction: REVEAL, the interpolation set, READY.                   *)

\* StartReconstruction: refused until sharing has completed; a member of M
\* A-Casts REVEAL of its share (uuid "-REVEAL-<id>"); at anyone else it
\* does nothing, and the model leaves that call out.
StartReconstruction(p) ==
    /\ Completed(p)
    /\ p \in mset[p]
    /\ ~started[p]
    /\ started' = [started EXCEPT ![p] = TRUE]
    /\ UNCHANGED <<mset, revGot, recPolys, fp, secret, readyCast, readyGot, output, earlyRev>>

\* The REVEAL payloads A-Cast so far.
Reveals ==
    {[sender |-> q, poly |-> Share(q)] : q \in {q \in Honest : started[q] /\ q \in mset[q]}}
    \cup ByzReveals

\* Faulty variant: evaluates each polynomial at its own sender's point.
ConsistentAtOwnPoint(polys, u, v) == Evaluate(polys[u], u) = Evaluate(polys[v], v)

\* isConsistent: P_u(v) == P_v(u).
Consistent(polys, u, v) == Evaluate(polys[u], v) = Evaluate(polys[v], u)

\* One iteration of the validSet loop: candidate c joins when consistent
\* with every member so far; at the first member it is not consistent
\* with, the pair is flagged (AddFaultyPair) and c skipped.
GreedyStep(polys, acc, c) ==
    LET bad == SelectInSeq(acc.valid, LAMBDA w : ~Consistent(polys, c, w))
    IN  IF bad = 0 THEN [acc EXCEPT !.valid = Append(@, c)]
                   ELSE [acc EXCEPT !.flags = @ \cup {{c, acc.valid[bad]}}]

ValidSet(polys, order) ==
    FoldLeft(LAMBDA acc, c : GreedyStep(polys, acc, c),
             [valid |-> <<>>, flags |-> {}], order)

\* services/ivss.go: every inconsistent pair of candidates is flagged, and
\* the set is the first (n-2t)-clique of the consistency graph that
\* findClique meets in candidate order, or none.
CliqueInterpolation(polys, order, target) ==
    LET cs  == Range(order)
        bad == {q \in cs \X cs : q[1] # q[2] /\ ~Consistent(polys, q[1], q[2])}
        adj == {q \in cs \X cs : q[1] # q[2]} \ bad
    IN  [valid |-> FindClique(order, target, adj), flags |-> {{q[1], q[2]} : q \in bad}]

\* target := max(1, n-2t)
InterpolationTarget == IF N - 2 * T <= 0 THEN 1 ELSE N - 2 * T

\* F(0,0) interpolated from the constant terms f_id(0), id in validSet.
SecretFrom(polys, valid) ==
    InterpolateAtZero(valid, [i \in 1..Len(valid) |-> Evaluate(polys[valid[i]], 0)])

\* checkInterpolationSet at p over the polynomials polys.  It returns while
\* sharing has not completed (mSet nil) and while fewer than n-2t members of
\* M have revealed.  The candidates come in Go map order, any order.
CheckInterpolationSet(p, polys) ==
    LET cands == {k \in mset[p] : polys[k] # NoPoly}
    IN  IF ~Completed(p) \/ Cardinality(cands) < N - 2 * T
        THEN UNCHANGED <<fp, secret, readyCast>>
        ELSE \E order \in SetToSeqs(cands) :
               LET g == IF CliqueSearch
                        THEN CliqueInterpolation(polys, order, InterpolationTarget)
                        ELSE ValidSet(polys, order)
               IN  /\ fp' = [fp EXCEPT ![p] = @ \cup g.flags]
                   /\ IF Len(g.valid) >= InterpolationTarget
                      THEN /\ secret' = [secret EXCEPT ![p] = SecretFrom(polys, g.valid)]
                           /\ readyCast' = [readyCast EXCEPT ![p] = TRUE]
                      ELSE UNCHANGED <<secret, readyCast>>

\* case Payload_Reveal: reconstructedPolys[RevealSender] = RevealPoly (the
\* field is not checked against the A-Cast sender), then
\* checkInterpolationSet.
DeliverReveal(p, r) ==
    LET polys == [recPolys[p] EXCEPT ![r.sender] = r.poly]
    IN  /\ r \in Reveals \ revGot[p]
        /\ revGot' = [revGot EXCEPT ![p] = @ \cup {r}]
        /\ recPolys' = [recPolys EXCEPT ![p] = polys]
        /\ CheckInterpolationSet(p, polys)
        /\ earlyRev' = (earlyRev \/ ~Completed(p))
        /\ UNCHANGED <<mset, started, readyGot, output>>

\* READY payloads, one per A-Cast uuid: a correct process's own, and those
\* of Byzantine processes with any RevealSender.
Readies ==
    {[from |-> q, sender |-> q] : q \in {q \in Honest : readyCast[q]}}
    \cup {[from |-> z, sender |-> s] : z \in Byz, s \in ByzReadies}

DeliverReady(p, r) ==
    LET got == readyGot[p] \cup {r}
    IN  /\ output[p] = NoSecret
        /\ r \in Readies \ readyGot[p]
        /\ readyGot' = [readyGot EXCEPT ![p] = got]
        /\ output' = IF /\ Cardinality({x.sender : x \in got}) >= N - T
                        /\ output[p] = NoSecret
                        /\ secret[p] # NoSecret
                     THEN [output EXCEPT ![p] = secret[p]]
                     ELSE output
        /\ UNCHANGED <<mset, started, revGot, recPolys, fp, secret, readyCast, earlyRev>>

-----------------------------------------------------------------------------
Next ==
    \/ \E p \in Honest : CompleteSharing(p) \/ StartReconstruction(p)
    \/ \E p \in Honest, r \in Reveals : DeliverReveal(p, r)
    \/ \E p \in Honest, r \in Readies : DeliverReady(p, r)

\* The delivery of a correct process's REVEAL or READY at p: the part of
\* DeliverReveal / DeliverReady that marks it delivered.  Only those
\* actions take such a step, and each is enabled exactly when its part
\* is, so fairness on the part is fairness on the delivery.
RevealArrives(p) ==
    \E q \in Honest :
        LET r == [sender |-> q, poly |-> Share(q)]
        IN  r \in Reveals \ revGot[p] /\ revGot' = [revGot EXCEPT ![p] = @ \cup {r}]
ReadyArrives(p) ==
    \E q \in Honest :
        LET r == [from |-> q, sender |-> q]
        IN  /\ output[p] = NoSecret /\ r \in Readies \ readyGot[p]
            /\ readyGot' = [readyGot EXCEPT ![p] = @ \cup {r}]

\* The MSET A-Cast of a correct dealer reaches every correct process and
\* verifies there; the caller (ICC) starts reconstruction at every correct
\* member of M; the REVEAL and READY A-Casts of correct processes are
\* delivered everywhere (A-Cast validity).  Byzantine payloads get none.
Fairness ==
    \A p \in Honest :
        /\ WF_vars(CompleteSharing(p))
        /\ WF_vars(StartReconstruction(p))
        /\ WF_revGot(RevealArrives(p))
        /\ WF_readyGot(ReadyArrives(p))

Spec == Init /\ [][Next]_vars /\ Fairness

-----------------------------------------------------------------------------
(* Properties.                                                             *)

TypeOK ==
    /\ mset \in [Honest -> {MSet, NoM}]
    /\ started \in [Honest -> BOOLEAN]
    /\ \A p \in Honest : revGot[p] \subseteq Reveals
    /\ recPolys \in [Honest -> [Proc -> Polys \cup {NoPoly}]]
    /\ \A p \in Honest : \A e \in fp[p] : e \subseteq Proc /\ Cardinality(e) = 2
    /\ secret \in [Honest -> Elems \cup {NoSecret}]
    /\ readyCast \in [Honest -> BOOLEAN]
    /\ \A p \in Honest : readyGot[p] \subseteq Readies
    /\ output \in [Honest -> Elems \cup {NoSecret}]
    /\ earlyRev \in BOOLEAN

\* Spec property 5: whatever REVEAL polynomials the Byzantine processes
\* A-Cast, the secret a correct process outputs (RECONSTRUCTED, from the
\* interpolation set built in map order) is the dealer's F(0,0).
ReconstructionCorrect ==
    \A p \in Honest : output[p] \in {NoSecret, Secret}

\* Registry soundness (spec 4.3): checkInterpolationSet flags a pair only
\* when one of its members is Byzantine, so two correct shares, slices of
\* the one symmetric polynomial, are never found inconsistent.
FlagSoundness ==
    \A p \in Honest : \A e \in fp[p] : e \cap Byz # {}

\* The M members whose genuine share p holds (Direct_Share slices, never
\* overwritten by a forged RevealSender).
GoodShares(p) == {k \in mset[p] \cap Honest : recPolys[p][k] = Share(k)}

\* Completeness of the interpolation set search (checkInterpolationSet):
\* a REVEAL delivery, at a process whose sharing has completed, after which
\* it holds n-2t genuine shares of M, sets the secret, whatever the
\* Byzantine polynomials and the Go map order of the candidates.
InterpolationComplete ==
    [][\A p \in Honest :
          (Completed(p) /\ revGot'[p] # revGot[p]
                        /\ Cardinality(GoodShares(p)') >= InterpolationTarget)
          => secret'[p] # NoSecret]_vars

=============================================================================
