------------------------------- MODULE ACast -------------------------------
(***************************************************************************)
(* One instance (one uuid) of the A-Cast engine of src/services/acast.go,  *)
(* AcastService.OnMessage, running at every correct process, under an      *)
(* asynchronous network that reorders messages arbitrarily and a set Byz   *)
(* of Byzantine processes that may send any MSG, ECHO or READY.            *)
(*                                                                         *)
(* Abstraction.  The handlers read the voter sets receivedEcho[v] and      *)
(* receivedReady[v] only through len(): the model keeps, per value, how   *)
(* many ECHOes (READYs) p has counted from correct processes and from     *)
(* Byzantine ones.  The network (Network.Broadcast) hands every message to *)
(* every inbox exactly once, so p can count one more correct ECHO(v) while *)
(* fewer than the number of correct processes that sent ECHO(v) are       *)
(* counted.  A Byzantine process may send each kind of message for every   *)
(* value, and a repeat from it lands in the same set slot, so at most      *)
(* |Byz| Byzantine votes per (type, value) are ever counted.  Channels are *)
(* authenticated: a process cannot vote in another's name.                 *)
(***************************************************************************)
EXTENDS Naturals, FiniteSets

CONSTANTS Proc,         \* the processes
          T,            \* fault bound, N > 3T
          Byz,          \* the Byzantine processes
          Sender,       \* the process that starts the broadcast
          SenderValues, \* values the sender's MSG carries (one for a correct sender)
          ByzTypes,     \* the message types Byzantine processes emit
          Values,       \* the values that can be broadcast
          NoVal         \* "nothing delivered"

N      == Cardinality(Proc)
Honest == Proc \ Byz
Types  == {"MSG", "ECHO", "READY"}
\* where a counted vote came from
Sources == {"honest", "byz"}

ASSUME /\ N > 3 * T
       /\ Byz \subseteq Proc /\ Cardinality(Byz) <= T
       /\ Sender \in Proc
       /\ SenderValues \subseteq Values /\ SenderValues # {}
       /\ ByzTypes \subseteq Types
       /\ NoVal \notin Values

VARIABLES echoed,      \* values p has broadcast ECHO for (sentEcho = echoed # {})
          readied,     \* values p has broadcast READY for (sentReady = readied # {})
          echoCount,   \* echoCount[p][v][src] = len(receivedEcho[v]) split by source
          readyCount,  \* readyCount[p][v][src] = len(receivedReady[v]) split by source
          delivered    \* the value p delivered (ctx.SendResult), or NoVal

vars == <<echoed, readied, echoCount, readyCount, delivered>>

NoVoters == [v \in Values |-> [src \in Sources |-> 0]]

\* MSG values that can reach a correct process: the sender's, and any value
\* when Byzantine processes inject MSGs under this uuid.
MsgValues == SenderValues \cup (IF "MSG" \in ByzTypes THEN Values ELSE {})

\* How many messages of type ty with value v have been sent by correct
\* processes, or can be sent by Byzantine ones.
Sent(ty, v, src) ==
    IF src = "honest"
    THEN Cardinality({q \in Honest :
                        v \in (IF ty = "ECHO" THEN echoed[q] ELSE readied[q])})
    ELSE IF ty \in ByzTypes THEN Cardinality(Byz) ELSE 0

Total(count, p, v) == count[p][v]["honest"] + count[p][v]["byz"]

Init ==
    /\ echoed = [p \in Honest |-> {}]
    /\ readied = [p \in Honest |-> {}]
    /\ echoCount = [p \in Honest |-> NoVoters]
    /\ readyCount = [p \in Honest |-> NoVoters]
    /\ delivered = [p \in Honest |-> NoVal]

\* The READY broadcast shared by the ECHO and READY handlers: when the count
\* has reached its threshold and no READY was sent yet, send READY(v).
SendReadyIf(p, v, reached) ==
    IF reached /\ readied[p] = {}
    THEN readied' = [readied EXCEPT ![p] = {v}]
    ELSE UNCHANGED readied

\* Faulty variant: echoes every MSG it receives, not just the first.
OnMsgEchoAll(p, v) ==
    /\ delivered[p] = NoVal
    /\ v \in MsgValues
    /\ echoed' = [echoed EXCEPT ![p] = @ \cup {v}]
    /\ UNCHANGED <<readied, echoCount, readyCount, delivered>>

\* case MSG: the first MSG (from anyone: its From is not checked) is echoed.
OnMsg(p, v) ==
    /\ delivered[p] = NoVal
    /\ v \in MsgValues
    /\ echoed[p] = {}
    /\ echoed' = [echoed EXCEPT ![p] = {v}]
    /\ UNCHANGED <<readied, echoCount, readyCount, delivered>>

\* case ECHO: count the voter; at n-t ECHOes for v, send READY(v).  The
\* ECHO counts are read only for that READY, so once it is sent they are
\* dead state and the model stops counting them.
OnEcho(p, v, src) ==
    /\ delivered[p] = NoVal
    /\ readied[p] = {}
    /\ echoCount[p][v][src] < Sent("ECHO", v, src)
    /\ echoCount' = [echoCount EXCEPT ![p][v][src] = @ + 1]
    /\ SendReadyIf(p, v, Total(echoCount, p, v) + 1 >= N - T)
    /\ UNCHANGED <<echoed, readyCount, delivered>>

\* Faulty variant: delivers the source tag instead of the value.
OnReadyResultSource(p, v, src) ==
    LET readies == Total(readyCount, p, v) + 1
    IN  /\ delivered[p] = NoVal
        /\ readyCount[p][v][src] < Sent("READY", v, src)
        /\ SendReadyIf(p, v, readies >= T + 1)
        /\ IF readies >= 2 * T + 1
           THEN /\ delivered' = [delivered EXCEPT ![p] = src]
                /\ echoCount' = [echoCount EXCEPT ![p] = NoVoters]
                /\ readyCount' = [readyCount EXCEPT ![p] = NoVoters]
           ELSE /\ readyCount' = [readyCount EXCEPT ![p][v][src] = @ + 1]
                /\ UNCHANGED <<delivered, echoCount>>
        /\ UNCHANGED echoed

\* Faulty variant: no early READY at t+1 READYs (no amplification).
OnReadyNoAmplify(p, v, src) ==
    LET readies == Total(readyCount, p, v) + 1
    IN  /\ delivered[p] = NoVal
        /\ readyCount[p][v][src] < Sent("READY", v, src)
        /\ UNCHANGED readied
        /\ IF readies >= 2 * T + 1
           THEN /\ delivered' = [delivered EXCEPT ![p] = v]
                /\ echoCount' = [echoCount EXCEPT ![p] = NoVoters]
                /\ readyCount' = [readyCount EXCEPT ![p] = NoVoters]
           ELSE /\ readyCount' = [readyCount EXCEPT ![p][v][src] = @ + 1]
                /\ UNCHANGED <<delivered, echoCount>>
        /\ UNCHANGED echoed

\* Faulty variant: one READY count for all values (the map not keyed by
\* value), compared against the thresholds for the value just received.
OnReadyAnyValue(p, v, src) ==
    LET readies == 1 + Total(readyCount, p, v)
                     + Cardinality({w \in Values \ {v} : Total(readyCount, p, w) > 0})
    IN  /\ delivered[p] = NoVal
        /\ readyCount[p][v][src] < Sent("READY", v, src)
        /\ SendReadyIf(p, v, readies >= T + 1)
        /\ IF readies >= 2 * T + 1
           THEN /\ delivered' = [delivered EXCEPT ![p] = v]
                /\ echoCount' = [echoCount EXCEPT ![p] = NoVoters]
                /\ readyCount' = [readyCount EXCEPT ![p] = NoVoters]
           ELSE /\ readyCount' = [readyCount EXCEPT ![p][v][src] = @ + 1]
                /\ UNCHANGED <<delivered, echoCount>>
        /\ UNCHANGED echoed

\* case READY: count the voter; at t+1 READYs send READY(v) if not done; at
\* 2t+1 READYs deliver v and release both voter maps.
OnReady(p, v, src) ==
    LET readies == Total(readyCount, p, v) + 1
    IN  /\ delivered[p] = NoVal
        /\ readyCount[p][v][src] < Sent("READY", v, src)
        /\ SendReadyIf(p, v, readies >= T + 1)
        /\ IF readies >= 2 * T + 1
           THEN /\ delivered' = [delivered EXCEPT ![p] = v]
                /\ echoCount' = [echoCount EXCEPT ![p] = NoVoters]
                /\ readyCount' = [readyCount EXCEPT ![p] = NoVoters]
           ELSE /\ readyCount' = [readyCount EXCEPT ![p][v][src] = @ + 1]
                /\ UNCHANGED <<delivered, echoCount>>
        /\ UNCHANGED echoed

Next ==
    \E p \in Honest, v \in Values :
        \/ OnMsg(p, v)
        \/ \E src \in Sources : OnEcho(p, v, src) \/ OnReady(p, v, src)

\* Every message a correct process sends reaches every correct process:
\* Network.Broadcast hands it to every registered inbox and the service
\* loop drains its inbox.  Byzantine messages may never arrive.
Fairness ==
    \A p \in Honest, v \in Values :
        /\ (Sender \in Honest /\ v \in SenderValues) => WF_vars(OnMsg(p, v))
        /\ WF_vars(OnEcho(p, v, "honest"))
        /\ WF_vars(OnReady(p, v, "honest"))

Spec == Init /\ [][Next]_vars /\ Fairness

-----------------------------------------------------------------------------
TypeOK ==
    /\ echoed \in [Honest -> SUBSET Values]
    /\ readied \in [Honest -> SUBSET Values]
    /\ echoCount \in [Honest -> [Values -> [Sources -> 0..N]]]
    /\ readyCount \in [Honest -> [Values -> [Sources -> 0..N]]]
    /\ delivered \in [Honest -> Values \cup {NoVal}]

\* Agreement: no two correct processes deliver different values.
Agreement ==
    \A p, q \in Honest :
        delivered[p] # NoVal /\ delivered[q] # NoVal => delivered[p] = delivered[q]

\* Bracha's key lemma, about the ECHO and READY handlers together: all
\* READY messages sent by correct processes carry one and the same value,
\* whatever MSG, ECHO and READY values Byzantine processes inject.
HonestReadyUnique ==
    \A p, q \in Honest : \A v \in readied[p], w \in readied[q] : v = w

\* The A-Cast engine implements the reliable-broadcast contract of
\* ACastSpec: correct processes never deliver different values, and once
\* one has delivered, all eventually deliver (agreement and totality).
Abs == INSTANCE ACastSpec WITH dlv <- delivered

ACastRefinement == Abs!Spec

\* Sender validity: when the sender is correct, no correct process
\* delivers a value the sender did not broadcast.
SenderValidity ==
    Sender \in Honest =>
        \A p \in Honest : delivered[p] \in SenderValues \cup {NoVal}
=============================================================================
