-------------------------- MODULE Heartbeat_proofs --------------------------
(***************************************************************************)
(* Proofs about Heartbeat, for every interval, ping-out, delay and length  *)
(* of a login that meet its assumptions.                                   *)
(***************************************************************************)
EXTENDS Heartbeat, TLAPS

-----------------------------------------------------------------------------
(* The inductive invariant *)

\* What is on its way, and who is in a transfer, on a working connection.
Shape ==
  /\ \A m \in {"welcome", "ping", "answer"} : flying[m] # Absent => Through
  /\ flying["ping"] # Absent => waiting /\ flying["answer"] = Absent
  /\ flying["answer"] # Absent => waiting
  /\ Through /\ waiting =>
       flying["ping"] # Absent \/ flying["answer"] # Absent
  /\ Through => (nodeBusy = "none" <=> clientBusy = "none")
  /\ Through /\ node = "awaiting" => flying["welcome"] # Absent
  /\ node = "stopping" => ~Through
  /\ node \in {"asleep", "connecting", "awaiting"} => nodeBusy = "none"
  /\ waiting => client
  /\ node = "connecting" => attempt <= Handshake /\ pinged <= attempt
  /\ node = "asleep" => attempt <= 1

\* While an answer is due, the server has heard of the node since.
AnswerInTime ==
  Through /\ waiting =>
    /\ flying["ping"] # Absent => clientIdle <= flying["ping"]
    /\ flying["answer"] # Absent => clientIdle <= Delay + flying["answer"]

\* How long ago the node was pinged, seen from the server's SentTime.  When
\* that is an interval old, transfers have kept the node from being idle.
PingInTime ==
  Through =>
    /\ ~waiting => \/ pinged <= Handshake + sent
                   \/ sent = Interval /\ nodeIdle <= Delay
    /\ flying["ping"] # Absent =>
         \/ pinged <= Handshake + Interval + flying["ping"]
         \/ nodeIdle <= Delay + flying["ping"]
    /\ flying["answer"] # Absent =>
         /\ nodeIdle <= flying["answer"]
         /\ pinged <= sent \/ sent = Interval

\* The server's clocks run while it keeps a dead client.
QuietCounted ==
  /\ Through \/ ~client => quiet = 0
  /\ waiting => clientIdle <= sent /\ quiet <= Interval + clientIdle
  /\ ~waiting => quiet <= sent

\* So do the node's, in each of the places it can be.
AwayCounted ==
  /\ client /\ ~Through =>
       away <= IF waiting THEN Interval + clientIdle ELSE sent
  /\ node = "up" /\ ~Through => /\ away <= pinged \/ pinged = Oldest
                                /\ away <= nodeIdle \/ nodeIdle = Pingout
                                /\ away <= Oldest
  /\ node = "stopping" => away <= Oldest
  /\ node = "awaiting" => IF Through
                          THEN away <= Oldest + Handshake + flying["welcome"]
                          ELSE away = 0
  /\ node = "asleep" => away <= Interval + Pingout + attempt
  /\ node = "connecting" => away <= Oldest + attempt
  /\ away <= AwayBound

\* The inductive invariant: no part holds up without the others.
Inv ==
  TypeOK /\ Shape /\ AnswerInTime /\ PingInTime /\ QuietCounted /\ AwayCounted

\* The Boolean variables, of which Zenon knows more than SMT.
Flags ==
  /\ client \in BOOLEAN /\ waiting \in BOOLEAN
  /\ joined \in BOOLEAN /\ cut \in BOOLEAN

Ages == {Absent} \cup 0..Delay

USE DEF Absent, Ages, Messages, Oldest, QuietBound, AwayBound, Through
USE DEF nodeVars, clientVars, linkVars, history

-----------------------------------------------------------------------------
\* Closing a connection leaves only closings on their way.
LEMMA ClosingEffect ==
  ASSUME Inv, NEW m \in {"nodeClosing", "clientClosing"}
  PROVE  /\ Closing(flying, m) \in [Messages -> Ages]
         /\ \A k \in {"welcome", "ping", "answer"} :
              Closing(flying, m)[k] = Absent
  BY ConstantsAssumption DEF Inv, TypeOK, Closing

\* The invariant holds when the node first connects.
LEMMA InvInit == Init => Inv
<1> SUFFICES ASSUME Init PROVE Inv
  OBVIOUS
<1>b. Flags
  BY Zenon DEF Init, Flags
<1>1. TypeOK
  BY <1>b, ConstantsAssumption, TimelyAssumption DEF Init, TypeOK, Flags
<1> QED BY <1>1, ConstantsAssumption, TimelyAssumption
        DEF Init, Inv, Shape, AnswerInTime, PingInTime, QuietCounted,
            AwayCounted

\* Every action keeps every part of it.
LEMMA InvStep == Inv /\ [Next]_vars => Inv'
<1> SUFFICES ASSUME Inv, [Next]_vars PROVE Inv'
  OBVIOUS
<1> USE ConstantsAssumption, TimelyAssumption
<1>1. CASE NodeWakes
  <2>1. TypeOK'
    BY <1>1 DEF Inv, TypeOK, NodeWakes, Establish
  <2>2. Shape'
    BY <1>1 DEF Inv, TypeOK, Shape, NodeWakes, Establish
  <2>3. AnswerInTime'
    BY <1>1 DEF Inv, TypeOK, AnswerInTime, NodeWakes, Establish
  <2>4. PingInTime'
    BY <1>1 DEF Inv, TypeOK, PingInTime, NodeWakes, Establish
  <2>5. QuietCounted'
    BY <1>1 DEF Inv, TypeOK, QuietCounted, NodeWakes, Establish
  <2>6. AwayCounted'
    BY <1>1 DEF Inv, TypeOK, Shape, AwayCounted, NodeWakes, Establish
  <2> QED BY <2>1, <2>2, <2>3, <2>4, <2>5, <2>6 DEF Inv
<1>2. CASE NodeRefused
  <2>1. TypeOK'
    BY <1>2 DEF Inv, TypeOK, NodeRefused
  <2>2. Shape'
    BY <1>2 DEF Inv, TypeOK, Shape, NodeRefused
  <2>3. AnswerInTime'
    BY <1>2 DEF Inv, TypeOK, AnswerInTime, NodeRefused
  <2>4. PingInTime'
    BY <1>2 DEF Inv, TypeOK, PingInTime, NodeRefused
  <2>5. QuietCounted'
    BY <1>2 DEF Inv, TypeOK, QuietCounted, NodeRefused
  <2>6. AwayCounted'
    BY <1>2 DEF Inv, TypeOK, AwayCounted, NodeRefused
  <2> QED BY <2>1, <2>2, <2>3, <2>4, <2>5, <2>6 DEF Inv
<1>3. CASE NodeAccepted
  <2>c. ~joined /\ node = "connecting"
    BY <1>3 DEF NodeAccepted, Inv, TypeOK
  <2>s. PICK x \in 0..attempt : sent' = x
    BY <1>3 DEF NodeAccepted
  <2>d. flying["ping"] = Absent /\ flying["answer"] = Absent
    BY <2>c DEF Inv, Shape
  <2>e. attempt \in 0..Handshake /\ pinged \in 0..attempt
    BY <2>c DEF Inv, TypeOK, Shape
  <2>0. /\ flying' \in [Messages -> Ages] /\ flying'["welcome"] = 0
        /\ flying'["ping"] = Absent /\ flying'["answer"] = Absent
    BY <1>3, <2>d DEF NodeAccepted, Inv, TypeOK
  <2>f. x \in 0..Handshake /\ pinged <= Handshake + x
    BY <2>e
  <2>b. Flags'
    BY <1>3, Zenon DEF NodeAccepted, Inv, TypeOK, Flags
  <2>1. TypeOK'
    BY <1>3, <2>0, <2>d, <2>e, <2>f, <2>s, <2>b DEF Inv, TypeOK,
        NodeAccepted, Flags
  <2>2. Shape'
    BY <1>3, <2>0, <2>d, <2>e, <2>f, <2>s, <2>b DEF Inv, TypeOK, Shape,
        NodeAccepted
  <2>3. AnswerInTime'
    BY <1>3, <2>0, <2>d, <2>e, <2>f, <2>s, <2>b DEF Inv, TypeOK,
        AnswerInTime, NodeAccepted
  <2>4. PingInTime'
    BY <1>3, <2>0, <2>d, <2>e, <2>f, <2>s, <2>b DEF Inv, TypeOK,
        PingInTime, NodeAccepted
  <2>5. QuietCounted'
    BY <1>3, <2>0, <2>d, <2>e, <2>f, <2>s, <2>b DEF Inv, TypeOK,
        QuietCounted, NodeAccepted
  <2>6. AwayCounted'
    BY <1>3, <2>0, <2>d, <2>e, <2>f, <2>s, <2>b DEF Inv, TypeOK,
        AwayCounted, NodeAccepted
  <2> QED BY <2>1, <2>2, <2>3, <2>4, <2>5, <2>6 DEF Inv
<1>4. CASE WelcomeArrives
  <2>1. TypeOK'
    BY <1>4 DEF Inv, TypeOK, WelcomeArrives
  <2>2. Shape'
    BY <1>4 DEF Inv, TypeOK, Shape, WelcomeArrives
  <2>3. AnswerInTime'
    BY <1>4 DEF Inv, TypeOK, AnswerInTime, WelcomeArrives
  <2>4. PingInTime'
    BY <1>4 DEF Inv, TypeOK, PingInTime, WelcomeArrives
  <2>5. QuietCounted'
    BY <1>4 DEF Inv, TypeOK, QuietCounted, WelcomeArrives
  <2>6. AwayCounted'
    BY <1>4 DEF Inv, TypeOK, AwayCounted, WelcomeArrives
  <2> QED BY <2>1, <2>2, <2>3, <2>4, <2>5, <2>6 DEF Inv
<1>5. CASE SendPing
  <2>1. TypeOK'
    BY <1>5 DEF Inv, TypeOK, SendPing, PingDue
  <2>2. Shape'
    BY <1>5 DEF Inv, TypeOK, Shape, SendPing, PingDue
  <2>3. AnswerInTime'
    BY <1>5 DEF Inv, TypeOK, AnswerInTime, SendPing, PingDue
  <2>4. PingInTime'
    BY <1>5 DEF Inv, TypeOK, Shape, PingInTime, SendPing, PingDue
  <2>5. QuietCounted'
    BY <1>5 DEF Inv, TypeOK, QuietCounted, SendPing, PingDue
  <2>6. AwayCounted'
    BY <1>5 DEF Inv, TypeOK, AwayCounted, SendPing, PingDue
  <2> QED BY <2>1, <2>2, <2>3, <2>4, <2>5, <2>6 DEF Inv
<1>6. CASE PingArrives
  <2>1. TypeOK'
    BY <1>6 DEF Inv, TypeOK, PingArrives
  <2>2. Shape'
    BY <1>6 DEF Inv, TypeOK, Shape, PingArrives
  <2>3. AnswerInTime'
    BY <1>6 DEF Inv, TypeOK, AnswerInTime, PingArrives
  <2>4. PingInTime'
    BY <1>6 DEF Inv, TypeOK, PingInTime, PingArrives
  <2>5. QuietCounted'
    BY <1>6 DEF Inv, TypeOK, QuietCounted, PingArrives
  <2>6. AwayCounted'
    BY <1>6 DEF Inv, TypeOK, Shape, AwayCounted, PingArrives
  <2> QED BY <2>1, <2>2, <2>3, <2>4, <2>5, <2>6 DEF Inv
<1>7. CASE AnswerArrives
  <2>0. /\ flying' \in [Messages -> Ages]
    /\ flying'["answer"] = Absent
    /\ flying'["ping"] = flying["ping"]
    /\ flying'["welcome"] = flying["welcome"]
    BY <1>7 DEF AnswerArrives, Inv, TypeOK
  <2>b. Flags'
    BY <1>7, Zenon DEF AnswerArrives, Inv, TypeOK, Flags
  <2>1. TypeOK'
    BY <1>7, <2>0, <2>b DEF Inv, TypeOK, AnswerArrives, Flags
  <2>2. Shape'
    BY <1>7, <2>0, <2>b DEF Inv, TypeOK, Shape, AnswerArrives
  <2>3. AnswerInTime'
    BY <1>7, <2>0, <2>b DEF Inv, TypeOK, AnswerInTime, AnswerArrives
  <2>4. PingInTime'
    BY <1>7, <2>0, <2>b DEF Inv, TypeOK, PingInTime, AnswerArrives
  <2>5. QuietCounted'
    BY <1>7, <2>0, <2>b DEF Inv, TypeOK, Shape, QuietCounted, AnswerArrives
  <2>6. AwayCounted'
    BY <1>7, <2>0, <2>b DEF Inv, TypeOK, Shape, AwayCounted, AnswerArrives
  <2> QED BY <2>1, <2>2, <2>3, <2>4, <2>5, <2>6 DEF Inv
<1>8. CASE ClientPingOut
  <2>0. /\ flying' \in [Messages -> Ages]
    /\ \A m \in {"welcome", "ping", "answer"} : flying'[m] = Absent
    BY <1>8, ClosingEffect DEF ClientPingOut, Drop
  <2>b. Flags'
    BY <1>8, Zenon DEF ClientPingOut, Drop, ClientPingedOut, Inv, TypeOK, Flags
  <2>1. TypeOK'
    BY <1>8, <2>0, <2>b DEF Inv, TypeOK, ClientPingOut, Drop,
        ClientPingedOut, Flags
  <2>2. Shape'
    BY <1>8, <2>0, <2>b DEF Inv, TypeOK, Shape, ClientPingOut, Drop,
        ClientPingedOut
  <2>3. AnswerInTime'
    BY <1>8, <2>0, <2>b DEF Inv, TypeOK, AnswerInTime, ClientPingOut, Drop,
        ClientPingedOut
  <2>4. PingInTime'
    BY <1>8, <2>0, <2>b DEF Inv, TypeOK, PingInTime, ClientPingOut, Drop,
        ClientPingedOut
  <2>5. QuietCounted'
    BY <1>8, <2>0, <2>b DEF Inv, TypeOK, QuietCounted, ClientPingOut, Drop,
        ClientPingedOut
  <2>6. AwayCounted'
    BY <1>8, <2>0, <2>b DEF Inv, TypeOK, Shape, AnswerInTime, PingInTime,
        QuietCounted, AwayCounted, ClientPingOut, Drop, ClientPingedOut
  <2> QED BY <2>1, <2>2, <2>3, <2>4, <2>5, <2>6 DEF Inv
<1>9. CASE NodePingOut
  <2>1. TypeOK'
    BY <1>9 DEF Inv, TypeOK, NodePingOut, NodePingedOut
  <2>2. Shape'
    BY <1>9 DEF Inv, TypeOK, Shape, AnswerInTime, PingInTime, QuietCounted,
        AwayCounted, NodePingOut, NodePingedOut
  <2>3. AnswerInTime'
    BY <1>9 DEF Inv, TypeOK, AnswerInTime, NodePingOut, NodePingedOut
  <2>4. PingInTime'
    BY <1>9 DEF Inv, TypeOK, PingInTime, NodePingOut, NodePingedOut
  <2>5. QuietCounted'
    BY <1>9 DEF Inv, TypeOK, QuietCounted, NodePingOut, NodePingedOut
  <2>6. AwayCounted'
    BY <1>9 DEF Inv, TypeOK, Shape, AnswerInTime, PingInTime, QuietCounted,
        AwayCounted, NodePingOut, NodePingedOut
  <2> QED BY <2>1, <2>2, <2>3, <2>4, <2>5, <2>6 DEF Inv
<1>10. CASE NodeStopped
  <2>0. /\ flying' \in [Messages -> Ages]
    /\ \A m \in {"welcome", "ping", "answer"} : flying'[m] = Absent
    BY <1>10, ClosingEffect DEF NodeStopped, Leave
  <2>b. Flags'
    BY <1>10, Zenon DEF NodeStopped, Leave, Establish, Inv, TypeOK, Flags
  <2>1. TypeOK'
    BY <1>10, <2>0, <2>b DEF Inv, TypeOK, NodeStopped, Leave, Establish,
        Flags
  <2>2. Shape'
    BY <1>10, <2>0, <2>b DEF Inv, TypeOK, Shape, NodeStopped, Leave,
        Establish
  <2>3. AnswerInTime'
    BY <1>10, <2>0, <2>b DEF Inv, TypeOK, AnswerInTime, NodeStopped, Leave,
        Establish
  <2>4. PingInTime'
    BY <1>10, <2>0, <2>b DEF Inv, TypeOK, PingInTime, NodeStopped, Leave,
        Establish
  <2>5. QuietCounted'
    BY <1>10, <2>0, <2>b DEF Inv, TypeOK, QuietCounted, NodeStopped, Leave,
        Establish
  <2>6. AwayCounted'
    BY <1>10, <2>0, <2>b DEF Inv, TypeOK, Shape, AwayCounted, NodeStopped,
        Leave, Establish
  <2> QED BY <2>1, <2>2, <2>3, <2>4, <2>5, <2>6 DEF Inv
<1>11. CASE ClientError
  <2>0. /\ flying' \in [Messages -> Ages]
    /\ \A m \in {"welcome", "ping", "answer"} : flying'[m] = Absent
    BY <1>11, ClosingEffect DEF ClientError, Drop
  <2>b. Flags'
    BY <1>11, Zenon DEF ClientError, Drop, Inv, TypeOK, Flags
  <2>1. TypeOK'
    BY <1>11, <2>0, <2>b DEF Inv, TypeOK, ClientError, Drop, Flags
  <2>2. Shape'
    BY <1>11, <2>0, <2>b DEF Inv, TypeOK, Shape, ClientError, Drop
  <2>3. AnswerInTime'
    BY <1>11, <2>0, <2>b DEF Inv, TypeOK, AnswerInTime, ClientError, Drop
  <2>4. PingInTime'
    BY <1>11, <2>0, <2>b DEF Inv, TypeOK, PingInTime, ClientError, Drop
  <2>5. QuietCounted'
    BY <1>11, <2>0, <2>b DEF Inv, TypeOK, QuietCounted, ClientError, Drop
  <2>6. AwayCounted'
    BY <1>11, <2>0, <2>b DEF Inv, TypeOK, AwayCounted, ClientError, Drop
  <2> QED BY <2>1, <2>2, <2>3, <2>4, <2>5, <2>6 DEF Inv
<1>12. CASE NodeError
  <2>0. /\ flying' \in [Messages -> Ages]
    /\ \A m \in {"welcome", "ping", "answer"} : flying'[m] = Absent
    BY <1>12, ClosingEffect DEF NodeError, Leave
  <2>b. Flags'
    BY <1>12, Zenon DEF NodeError, Leave, Establish, Inv, TypeOK, Flags
  <2>1. TypeOK'
    BY <1>12, <2>0, <2>b DEF Inv, TypeOK, NodeError, Leave, Establish,
        Flags
  <2>2. Shape'
    BY <1>12, <2>0, <2>b DEF Inv, TypeOK, Shape, NodeError, Leave,
        Establish
  <2>3. AnswerInTime'
    BY <1>12, <2>0, <2>b DEF Inv, TypeOK, AnswerInTime, NodeError, Leave,
        Establish
  <2>4. PingInTime'
    BY <1>12, <2>0, <2>b DEF Inv, TypeOK, PingInTime, NodeError, Leave,
        Establish
  <2>5. QuietCounted'
    BY <1>12, <2>0, <2>b DEF Inv, TypeOK, QuietCounted, NodeError, Leave,
        Establish
  <2>6. AwayCounted'
    BY <1>12, <2>0, <2>b DEF Inv, TypeOK, AwayCounted, NodeError, Leave,
        Establish
  <2> QED BY <2>1, <2>2, <2>3, <2>4, <2>5, <2>6 DEF Inv
<1>13. CASE NodeSends
  <2>1. TypeOK'
    BY <1>13 DEF Inv, TypeOK, NodeSends
  <2>2. Shape'
    BY <1>13 DEF Inv, TypeOK, Shape, NodeSends
  <2>3. AnswerInTime'
    BY <1>13 DEF Inv, TypeOK, AnswerInTime, NodeSends
  <2>4. PingInTime'
    BY <1>13 DEF Inv, TypeOK, PingInTime, NodeSends
  <2>5. QuietCounted'
    BY <1>13 DEF Inv, TypeOK, QuietCounted, NodeSends
  <2>6. AwayCounted'
    BY <1>13 DEF Inv, TypeOK, AwayCounted, NodeSends
  <2> QED BY <2>1, <2>2, <2>3, <2>4, <2>5, <2>6 DEF Inv
<1>14. CASE ServerSends
  <2>1. TypeOK'
    BY <1>14 DEF Inv, TypeOK, ServerSends, Live
  <2>2. Shape'
    BY <1>14 DEF Inv, TypeOK, Shape, ServerSends, Live
  <2>3. AnswerInTime'
    BY <1>14 DEF Inv, TypeOK, AnswerInTime, ServerSends, Live
  <2>4. PingInTime'
    BY <1>14 DEF Inv, TypeOK, PingInTime, ServerSends, Live
  <2>5. QuietCounted'
    BY <1>14 DEF Inv, TypeOK, QuietCounted, ServerSends, Live
  <2>6. AwayCounted'
    BY <1>14 DEF Inv, TypeOK, AwayCounted, ServerSends, Live
  <2> QED BY <2>1, <2>2, <2>3, <2>4, <2>5, <2>6 DEF Inv
<1>15. CASE TransferEnds
  <2>1. TypeOK'
    BY <1>15 DEF Inv, TypeOK, TransferEnds
  <2>2. Shape'
    BY <1>15 DEF Inv, TypeOK, Shape, TransferEnds
  <2>3. AnswerInTime'
    BY <1>15 DEF Inv, TypeOK, AnswerInTime, TransferEnds
  <2>4. PingInTime'
    BY <1>15 DEF Inv, TypeOK, PingInTime, TransferEnds
  <2>5. QuietCounted'
    BY <1>15 DEF Inv, TypeOK, QuietCounted, TransferEnds
  <2>6. AwayCounted'
    BY <1>15 DEF Inv, TypeOK, AwayCounted, TransferEnds
  <2> QED BY <2>1, <2>2, <2>3, <2>4, <2>5, <2>6 DEF Inv
<1>16. CASE NodeBuffers
  <2>1. TypeOK'
    BY <1>16 DEF Inv, TypeOK, NodeBuffers
  <2>2. Shape'
    BY <1>16 DEF Inv, TypeOK, Shape, NodeBuffers
  <2>3. AnswerInTime'
    BY <1>16 DEF Inv, TypeOK, AnswerInTime, NodeBuffers
  <2>4. PingInTime'
    BY <1>16 DEF Inv, TypeOK, PingInTime, NodeBuffers
  <2>5. QuietCounted'
    BY <1>16 DEF Inv, TypeOK, QuietCounted, NodeBuffers
  <2>6. AwayCounted'
    BY <1>16 DEF Inv, TypeOK, AwayCounted, NodeBuffers
  <2> QED BY <2>1, <2>2, <2>3, <2>4, <2>5, <2>6 DEF Inv
<1>17. CASE ServerBuffers
  <2>1. TypeOK'
    BY <1>17 DEF Inv, TypeOK, ServerBuffers
  <2>2. Shape'
    BY <1>17 DEF Inv, TypeOK, Shape, ServerBuffers
  <2>3. AnswerInTime'
    BY <1>17 DEF Inv, TypeOK, AnswerInTime, ServerBuffers
  <2>4. PingInTime'
    BY <1>17 DEF Inv, TypeOK, PingInTime, ServerBuffers
  <2>5. QuietCounted'
    BY <1>17 DEF Inv, TypeOK, QuietCounted, ServerBuffers
  <2>6. AwayCounted'
    BY <1>17 DEF Inv, TypeOK, AwayCounted, ServerBuffers
  <2> QED BY <2>1, <2>2, <2>3, <2>4, <2>5, <2>6 DEF Inv
<1>18. CASE Cut
  <2>1. TypeOK'
    BY <1>18 DEF Inv, TypeOK, Cut
  <2>2. Shape'
    BY <1>18 DEF Inv, TypeOK, Shape, Cut
  <2>3. AnswerInTime'
    BY <1>18 DEF Inv, TypeOK, AnswerInTime, Cut
  <2>4. PingInTime'
    BY <1>18 DEF Inv, TypeOK, PingInTime, Cut
  <2>5. QuietCounted'
    BY <1>18 DEF Inv, TypeOK, QuietCounted, Cut
  <2>6. AwayCounted'
    BY <1>18 DEF Inv, TypeOK, AwayCounted, Cut
  <2> QED BY <2>1, <2>2, <2>3, <2>4, <2>5, <2>6 DEF Inv
<1>19. CASE NodeRestarts
  <2>0. /\ flying' \in [Messages -> Ages]
    /\ \A m \in {"welcome", "ping", "answer"} : flying'[m] = Absent
    BY <1>19, ClosingEffect DEF NodeRestarts, Leave
  <2>b. Flags'
    BY <1>19, Zenon DEF NodeRestarts, Leave, Establish, Inv, TypeOK, Flags
  <2>1. TypeOK'
    BY <1>19, <2>0, <2>b DEF Inv, TypeOK, NodeRestarts, Leave, Establish,
        Flags
  <2>2. Shape'
    BY <1>19, <2>0, <2>b DEF Inv, TypeOK, Shape, NodeRestarts, Leave,
        Establish
  <2>3. AnswerInTime'
    BY <1>19, <2>0, <2>b DEF Inv, TypeOK, AnswerInTime, NodeRestarts,
        Leave, Establish
  <2>4. PingInTime'
    BY <1>19, <2>0, <2>b DEF Inv, TypeOK, PingInTime, NodeRestarts, Leave,
        Establish
  <2>5. QuietCounted'
    BY <1>19, <2>0, <2>b DEF Inv, TypeOK, QuietCounted, NodeRestarts,
        Leave, Establish
  <2>6. AwayCounted'
    BY <1>19, <2>0, <2>b DEF Inv, TypeOK, AwayCounted, NodeRestarts, Leave,
        Establish
  <2> QED BY <2>1, <2>2, <2>3, <2>4, <2>5, <2>6 DEF Inv
<1>20. CASE ServerRestarts
  <2>0. /\ flying' \in [Messages -> Ages]
    /\ \A m \in {"welcome", "ping", "answer"} : flying'[m] = Absent
    BY <1>20, ClosingEffect DEF ServerRestarts, Drop
  <2>b. Flags'
    BY <1>20, Zenon DEF ServerRestarts, Drop, Inv, TypeOK, Flags
  <2>1. TypeOK'
    BY <1>20, <2>0, <2>b DEF Inv, TypeOK, ServerRestarts, Drop, Flags
  <2>2. Shape'
    BY <1>20, <2>0, <2>b DEF Inv, TypeOK, Shape, ServerRestarts, Drop
  <2>3. AnswerInTime'
    BY <1>20, <2>0, <2>b DEF Inv, TypeOK, AnswerInTime, ServerRestarts,
        Drop
  <2>4. PingInTime'
    BY <1>20, <2>0, <2>b DEF Inv, TypeOK, PingInTime, ServerRestarts, Drop
  <2>5. QuietCounted'
    BY <1>20, <2>0, <2>b DEF Inv, TypeOK, QuietCounted, ServerRestarts,
        Drop
  <2>6. AwayCounted'
    BY <1>20, <2>0, <2>b DEF Inv, TypeOK, AwayCounted, ServerRestarts, Drop
  <2> QED BY <2>1, <2>2, <2>3, <2>4, <2>5, <2>6 DEF Inv
<1>21. CASE Tick
  <2>1. TypeOK'
    BY <1>21 DEF Inv, TypeOK, Shape, Tick, Due, Moves, Older,
        NodePingedOut, PingDue, ClientPingedOut, Live, Stuck
  <2>2. Shape'
    BY <1>21 DEF Inv, TypeOK, Shape, Tick, Due, Moves, Older,
        NodePingedOut, PingDue, ClientPingedOut, Live, Stuck
  <2>3. AnswerInTime'
    BY <1>21 DEF Inv, TypeOK, Shape, AnswerInTime, Tick, Due, Moves, Older,
        NodePingedOut, PingDue, ClientPingedOut, Live, Stuck
  <2>4. PingInTime'
    BY <1>21 DEF Inv, TypeOK, Shape, PingInTime, Tick, Due, Moves, Older,
        NodePingedOut, PingDue, ClientPingedOut, Live, Stuck
  <2>5. QuietCounted'
    BY <1>21 DEF Inv, TypeOK, QuietCounted, Tick, Due, Moves, Older,
        NodePingedOut, PingDue, ClientPingedOut, Live, Stuck
  <2>6. AwayCounted'
    BY <1>21 DEF Inv, TypeOK, Shape, AnswerInTime, PingInTime,
        QuietCounted, AwayCounted, Tick, Due, Moves, Older, NodePingedOut,
        PingDue, ClientPingedOut, Live, Stuck
  <2> QED BY <2>1, <2>2, <2>3, <2>4, <2>5, <2>6 DEF Inv
<1>22. CASE UNCHANGED vars
  BY <1>22 DEF Inv, TypeOK, Shape, AnswerInTime, PingInTime, QuietCounted,
      AwayCounted, vars
<1> QED BY <1>1, <1>2, <1>3, <1>4, <1>5, <1>6, <1>7, <1>8, <1>9, <1>10,
        <1>11, <1>12, <1>13, <1>14, <1>15, <1>16, <1>17, <1>18, <1>19,
        <1>20, <1>21, <1>22 DEF Next

\* So it holds throughout.
LEMMA InvAlways == Spec => []Inv
BY InvInit, InvStep, PTL DEF Spec

-----------------------------------------------------------------------------
(* What follows *)

\* Every age of the model stays within the bound the code compares it to.
THEOREM TypeCorrect == Spec => []TypeOK
<1>1. Inv => TypeOK
  BY DEF Inv
<1> QED BY <1>1, InvAlways, PTL

\* CheckPingsAndQueues never drops a client whose connection still works.
THEOREM ClientsPingOutDead == Spec => []OnlyDeadClientsPingOut
<1>1. Inv => OnlyDeadClientsPingOut
  <2> SUFFICES ASSUME Inv, ClientPingedOut, Through PROVE FALSE
    BY DEF OnlyDeadClientsPingOut
  <2>1. waiting /\ clientIdle >= Pingout
    BY DEF ClientPingedOut
  <2>2. flying["ping"] \in Ages /\ flying["answer"] \in Ages
    BY DEF Inv, TypeOK
  <2>3. \/ flying["ping"] # Absent /\ clientIdle <= flying["ping"]
        \/ flying["answer"] # Absent /\ clientIdle <= Delay + flying["answer"]
    BY <2>1 DEF Inv, Shape, AnswerInTime
  <2>4. clientIdle \in Nat
    BY ConstantsAssumption DEF Inv, TypeOK
  <2> QED BY <2>1, <2>2, <2>3, <2>4, ConstantsAssumption, TimelyAssumption
<1> QED BY <1>1, InvAlways, PTL

\* PingedOut() of the node never gives up a connection that still works.
THEOREM ServersPingOutDead == Spec => []OnlyDeadServersPingOut
<1>1. Inv => OnlyDeadServersPingOut
  <2> SUFFICES ASSUME Inv, NodePingedOut, Through PROVE FALSE
    BY DEF OnlyDeadServersPingOut
  <2>1. pinged > Interval + Pingout /\ nodeIdle >= Pingout
    BY DEF NodePingedOut
  <2>2. /\ pinged \in Nat /\ nodeIdle \in Nat /\ sent \in 0..Interval
        /\ flying["ping"] \in Ages /\ flying["answer"] \in Ages
    BY ConstantsAssumption DEF Inv, TypeOK
  <2>3. \/ flying["ping"] # Absent \/ flying["answer"] # Absent \/ ~waiting
    BY DEF Inv, Shape
  <2> QED BY <2>1, <2>2, <2>3, ConstantsAssumption, TimelyAssumption
          DEF Inv, PingInTime
<1> QED BY <1>1, InvAlways, PTL

\* ClientMap keeps no dead client longer than Interval + Pingout seconds,
\* transfers that never end excepted.
THEOREM DeadClientsDropped == Spec => []DeadClientDropped
<1>1. Inv => DeadClientDropped
  <2> SUFFICES ASSUME Inv PROVE quiet <= Interval + Pingout
    BY DEF DeadClientDropped
  <2>1. /\ quiet \in Nat /\ sent \in 0..Interval /\ clientIdle \in 0..Pingout
    BY ConstantsAssumption DEF Inv, TypeOK
  <2>2. quiet <= Interval + clientIdle \/ quiet <= sent
    BY DEF Inv, QuietCounted
  <2> QED BY <2>1, <2>2, ConstantsAssumption
<1> QED BY <1>1, InvAlways, PTL

\* A node that lost its session is back after Interval + Pingout + 1 seconds
\* and the time of one more login, stuck transfers excepted.
THEOREM NodesComeBack == Spec => []NodeComesBack
<1>1. Inv => NodeComesBack
  BY DEF Inv, AwayCounted, NodeComesBack
<1> QED BY <1>1, InvAlways, PTL

\* Neither side gives up a connection that works.
THEOREM Safety == Spec => []Safe
<1>1. TypeOK /\ OnlyDeadClientsPingOut /\ OnlyDeadServersPingOut => Safe
  BY DEF Safe
<1> QED
  BY <1>1, TypeCorrect, ClientsPingOutDead, ServersPingOutDead, PTL
=============================================================================
