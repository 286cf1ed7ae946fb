-------------------------------- MODULE Vote --------------------------------
(***************************************************************************)
(* One round of the Vote protocol, VoteService in src/unnamed/part_004,    *)
(* at every correct process.  Every payload (INPUT, VOTE1, REVOTE) travels *)
(* over its own A-Cast instance; the model uses what ACast.tla shows of    *)
(* such an instance: a payload a correct process A-Casts is delivered once *)
(* to each correct process, in any order, and a payload a Byzantine        *)
(* process A-Casts and some correct process delivers is eventually         *)
(* delivered to every correct process.  Byzantine processes may A-Cast any *)
(* number of payloads (each under a fresh uuid), so one of them may reach  *)
(* a correct process any number of times.  The model delivers each one at *)
(* most once per process: an entry is read at most twice (when the set     *)
(* that uses it is fixed and at the decision), so two payloads per entry   *)
(* already give every pair of values those reads can see.                  *)

(*                                                                         *)
(* The payload's Sender field is not tied to the A-Cast sender, and        *)
(* nothing stops a process from A-Casting two payloads of one type: the    *)
(* constant ByzPayloads lists what the Byzantine processes may A-Cast, and *)
(* ByzCasts bounds how many distinct payloads of one type and Sender they  *)
(* get delivered.                                                          *)
(***************************************************************************)
EXTENDS Integers, FiniteSets

CONSTANTS Proc,        \* process ids
          T,           \* fault bound
          Byz,         \* Byzantine processes
          Inputs,      \* the input vectors the round may start with
          ByzPayloads, \* the payloads Byzantine processes may A-Cast
          ByzCasts     \* bound: A-Casts a Byzantine process makes per payload type and Sender

N      == Cardinality(Proc)
Honest == Proc \ Byz
Bits   == {0, 1}
\* -1 stands for "no entry" in the receivedX maps and for the null value.
NoBit  == -1
Types  == {"INPUT", "VOTE1", "REVOTE"}
Payload == [type : Types, sender : Proc, bit : Bits, set : SUBSET Proc]

ASSUME /\ N > 3 * T
       /\ Inputs \subseteq [Proc \ Byz -> {0, 1}]
       /\ Byz \subseteq Proc /\ Cardinality(Byz) <= T
       /\ ByzPayloads \subseteq Payload

VARIABLES input,     \* input[i]: the bit correct process i starts the round with
          inputs,    \* receivedInputs: inputs[i][j] is j's INPUT bit or NoBit
          vote1,     \* receivedVote1: vote1[i][j] is j's VOTE1 [set, bit] or NoEntry
          revote,    \* receivedRevote, likewise
          myA,       \* A_i, {} until VOTE1 is sent (sentVote1 = myA # {})
          myB,       \* B_i, {} until REVOTE is sent (sentRevote = myB # {})
          result,    \* the VoteResult i emitted, or NoResult (finished = result # NoResult)
          sent,      \* payloads A-Cast by correct processes
          byzSent,   \* Byzantine payloads some correct process has delivered
          got        \* got[i]: payloads delivered at i

vars == <<input, inputs, vote1, revote, myA, myB, result, sent, byzSent, got>>

\* Faulty variant: waits for a payload from every process.
ThresholdAll == N


\* the n-t that every phase of checkProgress waits for
Threshold == N - T

NoEntry  == [set |-> {}, bit |-> NoBit]
NoResult == [value |-> NoBit, conf |-> NoBit]

\* Faulty variant: carries the number of ones instead of the bit.
MajorityCount(m, S) ==
    LET ones == Cardinality({j \in S : m[j] = 1})
    IN  IF ones > Cardinality({j \in S : m[j] = 0}) THEN ones ELSE 0

\* Faulty variant: needs one vote more than a tie to pick 1.
MajorityBitOffByOne(m, S) ==
    IF Cardinality({j \in S : m[j] = 1}) > Cardinality({j \in S : m[j] = 0}) + 1
    THEN 1 ELSE 0

\* majority bit over the senders S of map m, ties to 0: "if ones > zeros".
MajorityBit(m, S) ==
    IF Cardinality({j \in S : m[j] = 1}) > Cardinality({j \in S : m[j] = 0})
    THEN 1 ELSE 0

BitsOf(m) == [j \in Proc |-> m[j].bit]

\* the one bit all senders in S carry in m, or NoBit if they disagree
Unanimous(m, S) == IF \E b \in Bits : \A j \in S : m[j] = b
                   THEN CHOOSE b \in Bits : \A j \in S : m[j] = b
                   ELSE NoBit

(***************************************************************************)
(* The round as ABA.startRound leaves it: every correct process has run    *)
(* StartRound, which A-Casts INPUT(i, x_i) and runs checkProgress on still *)
(* empty maps (a no-op).  Deliveries at i follow StartRound(i); a process  *)
(* that starts late is one whose INPUT and deliveries are delayed.         *)
(***************************************************************************)
InputMsg(i) == [type |-> "INPUT", sender |-> i, bit |-> input[i], set |-> {}]

Init ==
    /\ input \in Inputs
    /\ inputs = [i \in Honest |-> [j \in Proc |-> NoBit]]
    /\ vote1 = [i \in Honest |-> [j \in Proc |-> NoEntry]]
    /\ revote = [i \in Honest |-> [j \in Proc |-> NoEntry]]
    /\ myA = [i \in Honest |-> {}]
    /\ myB = [i \in Honest |-> {}]
    /\ result = [i \in Honest |-> NoResult]
    /\ sent = {InputMsg(i) : i \in Honest}
    /\ byzSent = {}
    /\ got = [i \in Honest |-> {}]

\* my_vote_2: the majority of the VOTE1 bits of the senders in B_i
RevoteBit(inp, v1, B) == MajorityBit(BitsOf(v1), B)

(***************************************************************************)
(* checkProgress(state) run on i's maps inp, v1, rv (already updated by    *)
(* the caller): the three phase checks in one call, each seeing what the   *)
(* previous one fixed, and the payloads it A-Casts added to "out".         *)
(***************************************************************************)
CheckProgress(i, inp, v1, rv, out) ==
    LET allInputs == {j \in Proc : inp[j] # NoBit}
        doA == myA[i] = {} /\ Cardinality(allInputs) >= Threshold
        A   == IF doA THEN allInputs ELSE myA[i]
        \* valid VOTE1s: A_j a subset of allInputs (the current key set)
        validVote1s == {j \in Proc : v1[j] # NoEntry /\ v1[j].set \subseteq allInputs}
        doB == A # {} /\ myB[i] = {} /\ Cardinality(validVote1s) >= Threshold
        B   == IF doB THEN validVote1s ELSE myB[i]
        \* valid REVOTEs: B_j a subset of validVote1s
        validRevotes == {j \in Proc : rv[j] # NoEntry /\ rv[j].set \subseteq validVote1s}
        doC == B # {} /\ Cardinality(validRevotes) >= Threshold
        sigmaB == Unanimous(BitsOf(v1), B)
        sigmaC == Unanimous(BitsOf(rv), validRevotes)
        decision == IF sigmaB # NoBit THEN [value |-> sigmaB, conf |-> 2]
                    ELSE IF sigmaC # NoBit THEN [value |-> sigmaC, conf |-> 1]
                    ELSE [value |-> NoBit, conf |-> 0]
        vote1Msg  == [type |-> "VOTE1", sender |-> i, bit |-> MajorityBit(inp, A), set |-> A]
        revoteMsg == [type |-> "REVOTE", sender |-> i,
                      bit |-> RevoteBit(inp, v1, B), set |-> B]
    IN  /\ inputs' = [inputs EXCEPT ![i] = inp]
        /\ vote1' = [vote1 EXCEPT ![i] = v1]
        /\ revote' = [revote EXCEPT ![i] = rv]
        /\ myA' = [myA EXCEPT ![i] = A]
        /\ myB' = [myB EXCEPT ![i] = B]
        /\ result' = [result EXCEPT ![i] = IF doC THEN decision ELSE @]
        /\ sent' = out \cup (IF doA THEN {vote1Msg} ELSE {})
                       \cup (IF doB THEN {revoteMsg} ELSE {})

(***************************************************************************)
(* processDeliveredPayload: i delivers payload m; unless the round is      *)
(* finished, the entry of m.sender is overwritten and checkProgress runs.  *)
(***************************************************************************)
ProcessDeliveredPayload(i, m) ==
    /\ m \notin got[i]
    /\ result[i] = NoResult
    /\ got' = [got EXCEPT ![i] = @ \cup {m}]
    /\ CheckProgress(i,
         IF m.type = "INPUT" THEN [inputs[i] EXCEPT ![m.sender] = m.bit] ELSE inputs[i],
         IF m.type = "VOTE1" THEN [vote1[i] EXCEPT ![m.sender] = [set |-> m.set, bit |-> m.bit]]
                             ELSE vote1[i],
         IF m.type = "REVOTE" THEN [revote[i] EXCEPT ![m.sender] = [set |-> m.set, bit |-> m.bit]]
                              ELSE revote[i],
         sent)

\* The A-Cast of a correct process's payload completes at i.
DeliverHonest(i, m) ==
    /\ m \in sent
    /\ ProcessDeliveredPayload(i, m)
    /\ UNCHANGED <<input, byzSent>>

\* An A-Cast of a Byzantine payload completes at i.
DeliverByz(i, m) ==
    /\ \/ m \in byzSent
       \/ Cardinality({x \in byzSent : x.type = m.type /\ x.sender = m.sender}) < ByzCasts
    /\ ProcessDeliveredPayload(i, m)
    /\ byzSent' = byzSent \cup {m}
    /\ UNCHANGED input

Next ==
    \E i \in Honest :
        \/ \E m \in sent : DeliverHonest(i, m)
        \/ \E m \in ByzPayloads : DeliverByz(i, m)

\* A-Cast totality: every payload a correct
\* process sent, or a correct process delivered, reaches every correct
\* process that has not finished.  Deliveries consume, so weak fairness on
\* "some owed payload" delivers them all.
Fairness ==
    \A i \in Honest :
        /\ WF_vars(\E m \in sent : DeliverHonest(i, m))
        /\ WF_vars(\E m \in byzSent \ got[i] : DeliverByz(i, m))

Spec == Init /\ [][Next]_vars /\ Fairness
-----------------------------------------------------------------------------
Finished(i) == result[i] # NoResult

TypeOK ==
    /\ input \in [Honest -> Bits]
    /\ inputs \in [Honest -> [Proc -> Bits \cup {NoBit}]]
    /\ vote1 \in [Honest -> [Proc -> [set : SUBSET Proc, bit : Bits \cup {NoBit}]]]
    /\ revote \in [Honest -> [Proc -> [set : SUBSET Proc, bit : Bits \cup {NoBit}]]]
    /\ myA \in [Honest -> SUBSET Proc]
    /\ myB \in [Honest -> SUBSET Proc]
    /\ result \in [Honest -> [value : Bits \cup {NoBit}, conf : {NoBit, 0, 1, 2}]]
    /\ sent \subseteq Payload /\ byzSent \subseteq ByzPayloads
    /\ got \in [Honest -> SUBSET Payload]

\* Vote validity (spec 8.7): when every correct process enters the round
\* with the same bit b, every correct process that finishes outputs (b, 2),
\* whatever the Byzantine payloads do to the receivedX maps.
VoteValidity ==
    (\E b \in Bits : \A i \in Honest : input[i] = b) =>
        \A i \in Honest : Finished(i) =>
            result[i] = [value |-> input[i], conf |-> 2]

\* Graded agreement, what ABA.checkRoundProgress relies on: two correct
\* outputs with confidence >= 1 carry the same bit, and a confidence-2
\* output at one correct process leaves no correct process at confidence 0.
\* No run checks it: with only Byzantine INPUTs every B set is the three
\* correct VOTE1s, and with Byzantine VOTE1/REVOTEs the state space is
\* beyond TLC at n = 4 (see README).
GradedAgreement ==
    \A i, j \in Honest : Finished(i) /\ Finished(j) =>
        /\ (result[i].conf >= 1 /\ result[j].conf >= 1) => result[i].value = result[j].value
        /\ result[i].conf = 2 => result[j].conf >= 1

\* Payloads owed to i: A-Cast by a correct process, or delivered to some
\* correct process, and not yet delivered to i.
Owed(i) == (sent \cup byzSent) \ got[i]

\* Termination: once no correct process has an owed payload left (or has
\* finished), every correct process has finished: checkProgress never
\* waits for a payload only a Byzantine process could send.  Each step adds
\* a payload to some got[i], so every behaviour of Spec ends in such a
\* state and this is the state form of <>(\A i : Finished(i)).
VoteTermination ==
    (\A i \in Honest : Finished(i) \/ Owed(i) = {}) => \A i \in Honest : Finished(i)
=============================================================================
