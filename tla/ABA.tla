--------------------------------- MODULE ABA ---------------------------------
(***************************************************************************)
(* The ABA main loop and its COMPLETE termination gadget, ABAService in    *)
(* src/unnamed/part_005, at every correct process.                         *)
(*                                                                         *)
(* Each round runs a Vote and an ICC; the model takes their results at the *)
(* level of their contracts: the Vote outputs of a round satisfy spec      *)
(* section 4.5 (validity and graded agreement, operator VoteAllowed) and   *)
(* the coins of a round agree (spec 8.6).  Vote.tla checks the Vote side   *)
(* and records where the code falls short of it.  A result for round r     *)
(* reaches ABA only while the process is in round r: the messages of later *)
(* rounds wait in futureMsgs until startRound, and a result of an earlier  *)
(* round is dropped by the adapters' round check (Vote and ICC each emit   *)
(* one result per round, so none is pending when the round ends).          *)
(*                                                                         *)
(* COMPLETE payloads travel over A-Cast (acastComplete): a correct         *)
(* process's payload reaches every correct process once; Byzantine ones    *)
(* are drawn from the constant ByzComplete, whose Sender field the code    *)
(* does not check against the A-Cast sender.                               *)
(***************************************************************************)
EXTENDS Integers, FiniteSets

CONSTANTS Proc,        \* process ids
          T,           \* fault bound
          Byz,         \* Byzantine processes
          MaxRound,    \* bound: rounds a process may complete
          ByzComplete, \* COMPLETE payloads the Byzantine processes may A-Cast
          Inputs       \* the input vectors (initial estimates) to start from

N      == Cardinality(Proc)
Honest == Proc \ Byz
Bits   == {0, 1}
NoBit  == -1
Rounds == 1..MaxRound
\* a VoteResult; Value is NoBit (the null value) exactly when Conf = 0
VoteResults == [value : Bits, conf : {1, 2}] \cup {[value |-> NoBit, conf |-> 0]}
Complete == [sender : Proc, value : Bits]

ASSUME /\ N > 3 * T
       /\ Byz \subseteq Proc /\ Cardinality(Byz) <= T
       /\ MaxRound \in Nat \ {0}
       /\ ByzComplete \subseteq Complete
       /\ Inputs \subseteq [Honest -> Bits]

NoVote == [value |-> NoBit, conf |-> NoBit]

VARIABLES round,          \* s.round
          estimate,       \* s.estimate
          voteResult,     \* s.voteResult, or NoVote
          iccResult,      \* s.iccResult (the coin), or NoBit
          decided,        \* s.decided
          decision,       \* s.decision (NoBit until decided)
          hasBroadcastComplete,
          completeCounts, \* completeCounts[i][v]: Sender fields of COMPLETE(v) delivered
          vin,            \* vin[r][i]: the estimate i started Vote(r) with, or NoBit
          vout,           \* vout[r]: the Vote(r) results emitted at correct processes
          coin,           \* coin[r]: the ICC(r) coin, or NoBit
          completeSent,   \* COMPLETE payloads A-Cast by correct processes
          byzSent,        \* Byzantine COMPLETE payloads some correct process delivered
          got             \* got[i]: COMPLETE payloads delivered at i

vars == <<round, estimate, voteResult, iccResult, decided, decision,
          hasBroadcastComplete, completeCounts, vin, vout, coin,
          completeSent, byzSent, got>>

(***************************************************************************)
(* Contract of Vote(r), spec section 4.5: two results with confidence >= 1 *)
(* carry the same value, a confidence-2 result leaves every other result   *)
(* at that value with confidence >= 1, and when every correct process has  *)
(* started the round with one bit b the result is (b, 2).  A result may    *)
(* come before every correct process has started the round; when all that  *)
(* have started hold b, the run is indistinguishable so far from one in    *)
(* which the others start with b too, so the result is already (b, 2).     *)
(***************************************************************************)
Graded(x, y) ==
    /\ x.conf = 2 => (y.conf >= 1 /\ y.value = x.value)
    /\ (x.conf >= 1 /\ y.conf >= 1) => x.value = y.value

VoteAllowed(r, res) ==
    /\ \A o \in vout[r] : Graded(o, res) /\ Graded(res, o)
    /\ \A b \in Bits :
          (\A j \in Honest : vin[r][j] \in {b, NoBit}) => res = [value |-> b, conf |-> 2]

\* ABA.Start: startRound(1) with the input bit as estimate.
Init ==
    /\ round = [i \in Honest |-> 1]
    /\ estimate \in Inputs
    /\ voteResult = [i \in Honest |-> NoVote]
    /\ iccResult = [i \in Honest |-> NoBit]
    /\ decided = [i \in Honest |-> FALSE]
    /\ decision = [i \in Honest |-> NoBit]
    /\ hasBroadcastComplete = [i \in Honest |-> FALSE]
    /\ completeCounts = [i \in Honest |-> [v \in Bits |-> {}]]
    /\ vin = [r \in Rounds |-> [i \in Honest |-> IF r = 1 THEN estimate[i] ELSE NoBit]]
    /\ vout = [r \in Rounds |-> {}]
    /\ coin = [r \in Rounds |-> NoBit]
    /\ completeSent = {}
    /\ byzSent = {}
    /\ got = [i \in Honest |-> {}]

\* Faulty variant: the new estimate is the Vote value even at confidence 0.
NewEstimateNoCoin(i, vr, cr) ==
    IF decided[i] THEN decision[i] ELSE vr.value

NewEstimate(i, vr, cr) ==
    IF decided[i] THEN decision[i] ELSE IF vr.conf \in {1, 2} THEN vr.value ELSE cr

CompleteOnRoundLatchFirst(i, vr) ==
    ~decided[i] /\ vr.conf = 2 /\ ~TRUE

\* An undecided process A-Casts COMPLETE(voteVal) on a confidence-2 Vote,
\* once.
CompleteOnRound(i, vr) ==
    ~decided[i] /\ vr.conf = 2 /\ ~hasBroadcastComplete[i]

(***************************************************************************)
(* checkRoundProgress with i's round results vr and cr: once both are in,  *)
(* the new estimate, the COMPLETE A-Cast (broadcastComplete), and          *)
(* startRound(r+1): round advanced, results cleared, Vote(r+1) started     *)
(* with the new estimate.                                                  *)
(***************************************************************************)
CheckRoundProgress(i, vr, cr) ==
    IF vr # NoVote /\ cr # NoBit
    THEN LET est == NewEstimate(i, vr, cr)
             bc  == CompleteOnRound(i, vr)
             r   == round[i]
         IN  /\ estimate' = [estimate EXCEPT ![i] = est]
             /\ hasBroadcastComplete' = [hasBroadcastComplete EXCEPT ![i] = @ \/ bc]
             /\ completeSent' = IF bc THEN completeSent \cup {[sender |-> i, value |-> vr.value]}
                                ELSE completeSent
             /\ round' = [round EXCEPT ![i] = r + 1]
             /\ voteResult' = [voteResult EXCEPT ![i] = NoVote]
             /\ iccResult' = [iccResult EXCEPT ![i] = NoBit]
             /\ vin' = IF r + 1 \in Rounds THEN [vin EXCEPT ![r + 1][i] = est] ELSE vin
    ELSE /\ voteResult' = [voteResult EXCEPT ![i] = vr]
         /\ iccResult' = [iccResult EXCEPT ![i] = cr]
         /\ UNCHANGED <<estimate, hasBroadcastComplete, completeSent, round, vin>>

\* abaVoteAdapter.SendResult: Vote(round) finishes at i with res.
VoteDone(i, res) ==
    /\ round[i] \in Rounds
    /\ voteResult[i] = NoVote
    /\ VoteAllowed(round[i], res)
    /\ vout' = [vout EXCEPT ![round[i]] = @ \cup {res}]
    /\ CheckRoundProgress(i, res, iccResult[i])
    /\ UNCHANGED <<decided, decision, completeCounts, coin, byzSent, got>>

\* abaICCAdapter.SendResult: ICC(round) finishes at i with coin c.
CoinDone(i, c) ==
    /\ round[i] \in Rounds
    /\ iccResult[i] = NoBit
    /\ coin[round[i]] \in {NoBit, c}
    /\ coin' = [coin EXCEPT ![round[i]] = c]
    /\ CheckRoundProgress(i, voteResult[i], c)
    /\ UNCHANGED <<decided, decision, completeCounts, vout, byzSent, got>>

DecideThreshold == T + 1

(***************************************************************************)
(* handleCompleteDelivery: record the payload's Sender under its value; at *)
(* t+1 senders decide (once) and, unless done before, A-Cast our own       *)
(* COMPLETE for the decision.                                              *)
(***************************************************************************)
HandleCompleteDelivery(i, m) ==
    LET senders == completeCounts[i][m.value] \cup {m.sender}
        decide  == Cardinality(senders) >= DecideThreshold /\ ~decided[i]
        relay   == decide /\ ~hasBroadcastComplete[i]
    IN  /\ completeCounts' = [completeCounts EXCEPT ![i][m.value] = senders]
        /\ decided' = [decided EXCEPT ![i] = @ \/ decide]
        /\ decision' = [decision EXCEPT ![i] = IF decide THEN m.value ELSE @]
        /\ hasBroadcastComplete' = [hasBroadcastComplete EXCEPT ![i] = @ \/ relay]
        /\ completeSent' = IF relay THEN completeSent \cup {[sender |-> i, value |-> m.value]}
                           ELSE completeSent
        /\ got' = [got EXCEPT ![i] = @ \cup {m}]
        /\ UNCHANGED <<round, estimate, voteResult, iccResult, vin, vout, coin>>

(***************************************************************************)
(* Once i has decided, handleCompleteDelivery only adds to completeCounts, *)
(* which nothing reads again (its count is compared only when undecided):  *)
(* the model, as ACast does with dead ECHO counts, stops recording         *)
(* deliveries at a decided process.                                        *)
(***************************************************************************)
\* The A-Cast of a correct process's COMPLETE delivers at i.
DeliverComplete(i, m) ==
    /\ ~decided[i]
    /\ m \in completeSent /\ m \notin got[i]
    /\ HandleCompleteDelivery(i, m)
    /\ UNCHANGED byzSent

\* The A-Cast of a Byzantine COMPLETE delivers at i.
DeliverByzComplete(i, m) ==
    /\ ~decided[i]
    /\ m \notin got[i]
    /\ HandleCompleteDelivery(i, m)
    /\ byzSent' = byzSent \cup {m}

DecideByGadget(i, v) ==
    /\ ~decided[i]
    /\ \E m \in completeSent : m.value = v
    /\ decided' = [decided EXCEPT ![i] = TRUE]
    /\ decision' = [decision EXCEPT ![i] = v]
    /\ hasBroadcastComplete' = [hasBroadcastComplete EXCEPT ![i] = TRUE]
    /\ completeSent' = IF hasBroadcastComplete[i] THEN completeSent
                       ELSE completeSent \cup {[sender |-> i, value |-> v]}
    /\ UNCHANGED <<round, estimate, voteResult, iccResult, vin, vout, coin,
                   completeCounts, byzSent, got>>

\* The rounds with the gadget at its contract.
NextRounds ==
    \E i \in Honest :
        \/ \E res \in VoteResults : VoteDone(i, res)
        \/ \E c \in Bits : CoinDone(i, c)
        \/ \E v \in Bits : DecideByGadget(i, v)

SpecRounds == Init /\ [][NextRounds]_vars

Next ==
    \E i \in Honest :
        \/ \E res \in VoteResults : VoteDone(i, res)
        \/ \E c \in Bits : CoinDone(i, c)
        \/ \E m \in completeSent : DeliverComplete(i, m)
        \/ \E m \in ByzComplete : DeliverByzComplete(i, m)

(***************************************************************************)
(* A-Cast totality for COMPLETE: a correct process's payload, and a        *)
(* Byzantine one some correct process delivered, reach every correct       *)
(* process (ServiceManager.loop drains the inbox).  Vote and ICC of the    *)
(* current round terminate at every correct process: Vote's termination is *)
(* checked by vote_validity, ICC's is its contract (spec 8.6).             *)
(***************************************************************************)
Fairness ==
    \A i \in Honest :
        /\ WF_vars(\E m \in completeSent : DeliverComplete(i, m))
        /\ WF_vars(\E m \in byzSent : DeliverByzComplete(i, m))
        /\ WF_vars(\E res \in VoteResults : VoteDone(i, res))
        /\ WF_vars(\E c \in Bits : CoinDone(i, c))

Spec == Init /\ [][Next]_vars /\ Fairness

-----------------------------------------------------------------------------
TypeOK ==
    /\ round \in [Honest -> 1..MaxRound + 1]
    /\ estimate \in [Honest -> Bits]
    /\ voteResult \in [Honest -> VoteResults \cup {NoVote}]
    /\ iccResult \in [Honest -> Bits \cup {NoBit}]
    /\ decided \in [Honest -> BOOLEAN]
    /\ decision \in [Honest -> Bits \cup {NoBit}]
    /\ hasBroadcastComplete \in [Honest -> BOOLEAN]
    /\ completeCounts \in [Honest -> [Bits -> SUBSET Proc]]
    /\ vin \in [Rounds -> [Honest -> Bits \cup {NoBit}]]
    /\ vout \in [Rounds -> SUBSET VoteResults]
    /\ coin \in [Rounds -> Bits \cup {NoBit}]
    /\ completeSent \subseteq Complete /\ byzSent \subseteq ByzComplete
    /\ got \in [Honest -> SUBSET Complete]

ABAValidity ==
    \A b \in Bits :
        (\A j \in Honest : vin[1][j] = b) =>
            \A i \in Honest : decided[i] => decision[i] = b

UnanimousTermination ==
    (\E b \in Bits : \A j \in Honest : vin[1][j] = b)
        => <>(\A i \in Honest : decided[i])

=============================================================================
