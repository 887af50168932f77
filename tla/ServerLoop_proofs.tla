-------------------------- MODULE ServerLoop_proofs --------------------------
(***************************************************************************)
(* Proofs about ServerLoop, for any nodes, any order of their identities,  *)
(* and any number of connections and streams.                              *)
(***************************************************************************)
EXTENDS ServerLoop, WellFoundedInduction, TLAPS

-----------------------------------------------------------------------------
(* The inductive invariant *)

\* Where the main thread is: in ProcessNodeDisconnect, in a handler, in the
\* body of the loop, and with a client it is accepting.
Calling == pc \in {"disconnect", "delete"}
InHandler == pc \in {"handle", "kill", "after"} \/ (Calling /\ ret = "kill")
InBody == InHandler \/ pc \in {"acquire", "finish"}
Accepting == pc \in {"login", "register"}
             \/ (Calling /\ ret \in {"register", "refuse"})

\* Which of the main thread's variables mean something there.
Places ==
  /\ client # None <=> InBody
  /\ newcomer # None <=> Accepting
  /\ Calling => victim # None
  /\ inside <=> InHandler
  /\ inside => active = client
  /\ skipRelease => pc = "finish" \/ (inside /\ pc # "handle")

\* Clients are on the map under their identity, alive, and nobody else is
\* alive but a newcomer.
MapMatches ==
  /\ \A i \in IDs : clientMap[i] # None =>
       life[clientMap[i]] = "alive" /\ id[clientMap[i]] = i
  /\ \A c \in Clients : life[c] = "alive" => c = newcomer \/ c \in OnMap

\* There is room on the map for a newcomer that has logged in, or will be when
\* the administrator it replaces is gone.
Room ==
  newcomer # None =>
    /\ newcomer \notin OnMap
    /\ pc = "login" => life[newcomer] = "waiting"
    /\ pc # "login" =>
         /\ life[newcomer] = "alive" /\ id[newcomer] \in IDs
         /\ IF Calling /\ ret = "register"
            THEN id[newcomer] = Admin /\ victim = clientMap[Admin]
            ELSE clientMap[id[newcomer]] = None
         /\ Calling /\ ret = "refuse" =>
              victim = newcomer /\ newcomer # currentAdmin

\* Whom ProcessNodeDisconnect works on, and the administrator meanwhile.
VictimMatches ==
  /\ Calling /\ ret # "refuse" => victim \in OnMap
  /\ currentAdmin = IF pc = "delete" /\ clientMap[Admin] = victim
                    THEN None ELSE clientMap[Admin]

\* The clients that a handler has yet to disconnect are on the map, and its own
\* is not among others.
KillsMatch ==
  /\ kill # {} => pc = "kill" \/ (Calling /\ ret = "kill")
  /\ kill \subseteq OnMap
  /\ Calling => victim \notin kill
  /\ client \in kill => kill = {client}
  /\ Calling /\ victim = client => kill = {}
  /\ skipRelease => kill = {} /\ (Calling => pc = "delete")

\* The iterator stands on the client being handled until that is gone.
IterMatches ==
  /\ pc = "scan" => iter = None \/ iter \in Registered
  /\ InBody /\ ~skipRelease => iter \in IDs /\ clientMap[iter] = client
  /\ pc = "delete" /\ inside /\ victim = client => skipRelease

\* Whose mutex the main thread holds, and what the read threads rely on.
LocksMatch ==
  /\ \A c \in Clients : mutex[c] = "main" =>
       c = client /\ InBody /\ pc # "acquire" /\ ~skipRelease
  /\ \A c \in Clients : critical[c] =>
       mutex[c] = "thread" \/ (pc = "delete" /\ c = victim)
  /\ InBody /\ pc # "acquire" /\ ~skipRelease => mutex[client] = "main"
  /\ InHandler /\ ~skipRelease => inbox[client] > 0

\* What came in is no more than was sent.
Counts ==
  \A c \in Clients : /\ inbox[c] <= sent[c]
                     /\ critical[c] => sent[c] < MaxStreams

Inv ==
  /\ TypeOK /\ Places /\ MapMatches /\ Room /\ VictimMatches /\ KillsMatch
  /\ IterMatches /\ LocksMatch /\ Counts

USE DEF IDs, mapVars, loopVars, callVars, queueVars, OnMap, Registered
USE DEF Calling, InHandler, InBody, Accepting

\* The Boolean variables, of which Zenon knows more than SMT.
Flags == /\ skipRelease \in BOOLEAN /\ resetAfter \in BOOLEAN
         /\ inside \in BOOLEAN

-----------------------------------------------------------------------------
\* First() finds an identity in every set that has one: the order of ClientMap
\* is well-founded.
LEMMA FirstIn ==
  ASSUME NEW S \in SUBSET IDs
  PROVE  /\ S = {} => First(S) = None
         /\ S # {} => First(S) \in S
<1>1. CASE S = {}
  BY <1>1 DEF First
<1>2. CASE S # {}
  <2> DEFINE R == {Rank[i] : i \in S}
  <2>1. R \subseteq Nat /\ R # {}
    BY <1>2, ConstantsAssumption
  <2>2. PICK r \in R : \A q \in R : ~(<<q, r>> \in OpToRel(<, Nat))
    BY <2>1, NatLessThanWellFounded, WFMin
  <2>3. \A q \in R : r <= q
    <3> SUFFICES ASSUME NEW q \in R, q < r PROVE FALSE
      BY <2>1
    <3>1. <<q, r>> \in Nat \X Nat /\ <<q, r>>[1] < <<q, r>>[2]
      BY <2>1
    <3> QED BY <2>2, <3>1 DEF OpToRel
  <2>4. \E i \in S : \A j \in S : Rank[i] <= Rank[j]
    BY <2>3
  <2> QED BY <1>2, <2>4 DEF First
<1> QED BY <1>1, <1>2

\* The invariant holds when the server starts.
LEMMA InvInit == Init => Inv
<1> SUFFICES ASSUME Init PROVE Inv
  OBVIOUS
<1>1. Flags
  BY Zenon DEF Init, Flags
<1>2. TypeOK
  BY <1>1, ConstantsAssumption DEF Init, TypeOK, Flags
<1> QED BY <1>2, ConstantsAssumption
        DEF Init, Inv, Places, MapMatches, Room, VictimMatches, KillsMatch,
            IterMatches, LocksMatch, Counts

\* Every action keeps every part of it.
LEMMA InvStep == Inv /\ [Next]_vars => Inv'
<1> SUFFICES ASSUME Inv, [Next]_vars PROVE Inv'
  OBVIOUS
<1> USE ConstantsAssumption
<1>1. CASE NobodyWaits
  <2>1. TypeOK'
    BY <1>1, FirstIn DEF Inv, TypeOK, NobodyWaits, RestartLoop
  <2>2. Places'
    BY <1>1, FirstIn DEF Inv, TypeOK, Places, NobodyWaits, RestartLoop
  <2>3. MapMatches'
    BY <1>1, FirstIn DEF Inv, TypeOK, MapMatches, NobodyWaits, RestartLoop
  <2>4. Room'
    BY <1>1, FirstIn DEF Inv, TypeOK, Room, NobodyWaits, RestartLoop
  <2>5. VictimMatches'
    BY <1>1, FirstIn DEF Inv, TypeOK, VictimMatches, NobodyWaits,
        RestartLoop
  <2>6. KillsMatch'
    BY <1>1, FirstIn DEF Inv, TypeOK, KillsMatch, NobodyWaits, RestartLoop
  <2>7. IterMatches'
    BY <1>1, FirstIn DEF Inv, TypeOK, IterMatches, NobodyWaits, RestartLoop
  <2>8. LocksMatch'
    BY <1>1, FirstIn DEF Inv, TypeOK, LocksMatch, NobodyWaits, RestartLoop
  <2>9. Counts'
    BY <1>1, FirstIn DEF Inv, TypeOK, Counts, NobodyWaits, RestartLoop
  <2> QED BY <2>1, <2>2, <2>3, <2>4, <2>5, <2>6, <2>7, <2>8, <2>9 DEF Inv
<1>2. ASSUME NEW c \in Clients, AcceptFails(c)
      PROVE  Inv'
  <2>1. TypeOK'
    BY <1>2, FirstIn DEF Inv, TypeOK, AcceptFails, LoggingIn, RestartLoop
  <2>2. Places'
    BY <1>2, FirstIn DEF Inv, TypeOK, Places, AcceptFails, LoggingIn,
        RestartLoop
  <2>3. MapMatches'
    BY <1>2, FirstIn DEF Inv, TypeOK, MapMatches, Room, AcceptFails,
        LoggingIn, RestartLoop
  <2>4. Room'
    BY <1>2, FirstIn DEF Inv, TypeOK, Room, AcceptFails, LoggingIn, RestartLoop
  <2>5. VictimMatches'
    BY <1>2, FirstIn DEF Inv, TypeOK, VictimMatches, AcceptFails, LoggingIn,
        RestartLoop
  <2>6. KillsMatch'
    BY <1>2, FirstIn DEF Inv, TypeOK, KillsMatch, AcceptFails, LoggingIn,
        RestartLoop
  <2>7. IterMatches'
    BY <1>2, FirstIn DEF Inv, TypeOK, IterMatches, AcceptFails, LoggingIn,
        RestartLoop
  <2>8. LocksMatch'
    BY <1>2, FirstIn DEF Inv, TypeOK, LocksMatch, AcceptFails, LoggingIn,
        RestartLoop
  <2>9. Counts'
    BY <1>2, FirstIn DEF Inv, TypeOK, Counts, AcceptFails, LoggingIn,
        RestartLoop
  <2> QED BY <2>1, <2>2, <2>3, <2>4, <2>5, <2>6, <2>7, <2>8, <2>9 DEF Inv
<1>3. ASSUME NEW c \in Clients, AcceptBadToken(c)
      PROVE  Inv'
  <2>1. TypeOK'
    BY <1>3 DEF Inv, TypeOK, AcceptBadToken, LoggingIn, CallDisconnect
  <2>2. Places'
    BY <1>3 DEF Inv, TypeOK, Places, AcceptBadToken, LoggingIn, CallDisconnect
  <2>3. MapMatches'
    BY <1>3 DEF Inv, TypeOK, MapMatches, Places, AcceptBadToken, LoggingIn,
        CallDisconnect
  <2>4. Room'
    BY <1>3 DEF Inv, TypeOK, Places, MapMatches, Room, VictimMatches,
        KillsMatch, IterMatches, LocksMatch, Counts, AcceptBadToken, LoggingIn,
        CallDisconnect
  <2>5. VictimMatches'
    BY <1>3 DEF Inv, TypeOK, VictimMatches, AcceptBadToken, LoggingIn,
        CallDisconnect
  <2>6. KillsMatch'
    BY <1>3 DEF Inv, TypeOK, KillsMatch, Places, AcceptBadToken, LoggingIn,
        CallDisconnect
  <2>7. IterMatches'
    BY <1>3 DEF Inv, TypeOK, IterMatches, AcceptBadToken, LoggingIn,
        CallDisconnect
  <2>8. LocksMatch'
    BY <1>3 DEF Inv, TypeOK, LocksMatch, AcceptBadToken, LoggingIn,
        CallDisconnect
  <2>9. Counts'
    BY <1>3 DEF Inv, TypeOK, Counts, AcceptBadToken, LoggingIn, CallDisconnect
  <2> QED BY <2>1, <2>2, <2>3, <2>4, <2>5, <2>6, <2>7, <2>8, <2>9 DEF Inv
<1>4. ASSUME NEW c \in Clients, AcceptNode(c)
      PROVE  Inv'
  <2>1. TypeOK'
    BY <1>4 DEF Inv, TypeOK, AcceptNode, LoggingIn
  <2>2. Places'
    BY <1>4 DEF Inv, TypeOK, Places, AcceptNode, LoggingIn
  <2>3. MapMatches'
    BY <1>4 DEF Inv, TypeOK, MapMatches, Places, AcceptNode, LoggingIn
  <2>4. Room'
    BY <1>4 DEF Inv, TypeOK, Places, MapMatches, Room, VictimMatches,
        KillsMatch, IterMatches, LocksMatch, Counts, AcceptNode, LoggingIn
  <2>5. VictimMatches'
    BY <1>4 DEF Inv, TypeOK, VictimMatches, AcceptNode, LoggingIn
  <2>6. KillsMatch'
    BY <1>4 DEF Inv, TypeOK, KillsMatch, AcceptNode, LoggingIn
  <2>7. IterMatches'
    BY <1>4 DEF Inv, TypeOK, IterMatches, AcceptNode, LoggingIn
  <2>8. LocksMatch'
    BY <1>4 DEF Inv, TypeOK, LocksMatch, AcceptNode, LoggingIn
  <2>9. Counts'
    BY <1>4 DEF Inv, TypeOK, Counts, AcceptNode, LoggingIn
  <2> QED BY <2>1, <2>2, <2>3, <2>4, <2>5, <2>6, <2>7, <2>8, <2>9 DEF Inv
<1>5. ASSUME NEW c \in Clients, AcceptAdmin(c)
      PROVE  Inv'
  <2>1. TypeOK'
    BY <1>5 DEF Inv, TypeOK, AcceptAdmin, LoggingIn, CallDisconnect
  <2>2. Places'
    BY <1>5 DEF Inv, TypeOK, Places, AcceptAdmin, LoggingIn, CallDisconnect
  <2>3. MapMatches'
    BY <1>5 DEF Inv, TypeOK, MapMatches, Places, AcceptAdmin, LoggingIn,
        CallDisconnect
  <2>4. Room'
    BY <1>5 DEF Inv, TypeOK, Places, MapMatches, Room, VictimMatches,
        KillsMatch, IterMatches, LocksMatch, Counts, AcceptAdmin, LoggingIn,
        CallDisconnect
  <2>5. VictimMatches'
    BY <1>5 DEF Inv, TypeOK, VictimMatches, AcceptAdmin, LoggingIn,
        CallDisconnect
  <2>6. KillsMatch'
    BY <1>5 DEF Inv, TypeOK, KillsMatch, Places, AcceptAdmin, LoggingIn,
        CallDisconnect
  <2>7. IterMatches'
    BY <1>5 DEF Inv, TypeOK, IterMatches, AcceptAdmin, LoggingIn,
        CallDisconnect
  <2>8. LocksMatch'
    BY <1>5 DEF Inv, TypeOK, LocksMatch, AcceptAdmin, LoggingIn, CallDisconnect
  <2>9. Counts'
    BY <1>5 DEF Inv, TypeOK, Counts, AcceptAdmin, LoggingIn, CallDisconnect
  <2> QED BY <2>1, <2>2, <2>3, <2>4, <2>5, <2>6, <2>7, <2>8, <2>9 DEF Inv
<1>6. CASE Register
  <2>1. TypeOK'
    BY <1>6, FirstIn DEF Inv, TypeOK, Register, RestartLoop
  <2>2. Places'
    BY <1>6, FirstIn DEF Inv, TypeOK, Places, Register, RestartLoop
  <2>3. MapMatches'
    BY <1>6, FirstIn DEF Inv, TypeOK, Places, MapMatches, Room,
        VictimMatches, KillsMatch, IterMatches, LocksMatch, Counts,
        Register, RestartLoop
  <2>4. Room'
    BY <1>6, FirstIn DEF Inv, TypeOK, Room, Register, RestartLoop
  <2>5. VictimMatches'
    BY <1>6, FirstIn DEF Inv, TypeOK, VictimMatches, Register, RestartLoop
  <2>6. KillsMatch'
    BY <1>6, FirstIn DEF Inv, TypeOK, KillsMatch, Register, RestartLoop
  <2>7. IterMatches'
    BY <1>6, FirstIn DEF Inv, TypeOK, IterMatches, Register, RestartLoop
  <2>8. LocksMatch'
    BY <1>6, FirstIn DEF Inv, TypeOK, LocksMatch, Register, RestartLoop
  <2>9. Counts'
    BY <1>6, FirstIn DEF Inv, TypeOK, Counts, Register, RestartLoop
  <2> QED BY <2>1, <2>2, <2>3, <2>4, <2>5, <2>6, <2>7, <2>8, <2>9 DEF Inv
<1>7. CASE LoopEnds
  <2>1. TypeOK'
    BY <1>7 DEF Inv, TypeOK, LoopEnds
  <2>2. Places'
    BY <1>7 DEF Inv, TypeOK, Places, LoopEnds
  <2>3. MapMatches'
    BY <1>7 DEF Inv, TypeOK, MapMatches, LoopEnds
  <2>4. Room'
    BY <1>7 DEF Inv, TypeOK, Room, LoopEnds
  <2>5. VictimMatches'
    BY <1>7 DEF Inv, TypeOK, VictimMatches, LoopEnds
  <2>6. KillsMatch'
    BY <1>7 DEF Inv, TypeOK, KillsMatch, LoopEnds
  <2>7. IterMatches'
    BY <1>7 DEF Inv, TypeOK, IterMatches, LoopEnds
  <2>8. LocksMatch'
    BY <1>7 DEF Inv, TypeOK, LocksMatch, LoopEnds
  <2>9. Counts'
    BY <1>7 DEF Inv, TypeOK, Counts, LoopEnds
  <2> QED BY <2>1, <2>2, <2>3, <2>4, <2>5, <2>6, <2>7, <2>8, <2>9 DEF Inv
<1>8. CASE DropBroken
  <2>1. TypeOK'
    BY <1>8 DEF Inv, TypeOK, DropBroken, CallDisconnect
  <2>2. Places'
    BY <1>8 DEF Inv, TypeOK, Places, MapMatches, Room, VictimMatches,
        KillsMatch, IterMatches, LocksMatch, Counts, DropBroken,
        CallDisconnect
  <2>3. MapMatches'
    BY <1>8 DEF Inv, TypeOK, MapMatches, DropBroken, CallDisconnect
  <2>4. Room'
    BY <1>8 DEF Inv, TypeOK, Room, DropBroken, CallDisconnect
  <2>5. VictimMatches'
    BY <1>8 DEF Inv, TypeOK, Places, MapMatches, Room, VictimMatches,
        KillsMatch, IterMatches, LocksMatch, Counts, DropBroken,
        CallDisconnect
  <2>6. KillsMatch'
    BY <1>8 DEF Inv, TypeOK, KillsMatch, Places, DropBroken, CallDisconnect
  <2>7. IterMatches'
    BY <1>8 DEF Inv, TypeOK, IterMatches, DropBroken, CallDisconnect
  <2>8. LocksMatch'
    BY <1>8 DEF Inv, TypeOK, LocksMatch, DropBroken, CallDisconnect
  <2>9. Counts'
    BY <1>8 DEF Inv, TypeOK, Counts, DropBroken, CallDisconnect
  <2> QED BY <2>1, <2>2, <2>3, <2>4, <2>5, <2>6, <2>7, <2>8, <2>9 DEF Inv
<1>9. CASE LookAt
  <2>1. TypeOK'
    BY <1>9 DEF Inv, TypeOK, LookAt
  <2>2. Places'
    BY <1>9 DEF Inv, TypeOK, Places, MapMatches, Room, VictimMatches,
        KillsMatch, IterMatches, LocksMatch, Counts, LookAt
  <2>3. MapMatches'
    BY <1>9 DEF Inv, TypeOK, MapMatches, LookAt
  <2>4. Room'
    BY <1>9 DEF Inv, TypeOK, Room, LookAt
  <2>5. VictimMatches'
    BY <1>9 DEF Inv, TypeOK, VictimMatches, LookAt
  <2>6. KillsMatch'
    BY <1>9 DEF Inv, TypeOK, KillsMatch, LookAt
  <2>7. IterMatches'
    BY <1>9 DEF Inv, TypeOK, IterMatches, LookAt
  <2>8. LocksMatch'
    BY <1>9 DEF Inv, TypeOK, LocksMatch, LookAt
  <2>9. Counts'
    BY <1>9 DEF Inv, TypeOK, Counts, LookAt
  <2> QED BY <2>1, <2>2, <2>3, <2>4, <2>5, <2>6, <2>7, <2>8, <2>9 DEF Inv
<1>10. CASE KillNext
  <2>c. PICK k \in Registered :
          /\ k = First({i \in Registered : clientMap[i] \in kill})
          /\ clientMap[k] \in kill
    <3> DEFINE S == {i \in Registered : clientMap[i] \in kill}
    <3>1. S \in SUBSET IDs /\ S # {}
      BY <1>10 DEF KillNext, Inv, TypeOK, KillsMatch
    <3>2. First(S) \in S
      BY <3>1, FirstIn
    <3> QED BY <3>2
  <2>d. /\ kill' = kill \ {clientMap[k]} /\ victim' = clientMap[k]
        /\ ret' = "kill" /\ pc' = "disconnect" /\ pc = "kill"
    BY <1>10, <2>c DEF KillNext, CallDisconnect
  <2>1. TypeOK'
    BY <1>10, <2>c, <2>d DEF Inv, TypeOK, KillNext, CallDisconnect
  <2>2. Places'
    BY <1>10, <2>c, <2>d DEF Inv, TypeOK, Places, KillNext, CallDisconnect
  <2>3. MapMatches'
    BY <1>10, <2>c, <2>d DEF Inv, TypeOK, MapMatches, KillNext,
        CallDisconnect
  <2>4. Room'
    BY <1>10, <2>c, <2>d DEF Inv, TypeOK, Room, KillNext, CallDisconnect
  <2>5. VictimMatches'
    <3>1. victim' \in OnMap /\ clientMap' = clientMap
      BY <1>10, <2>c, <2>d DEF KillNext
    <3>2. currentAdmin' = clientMap[Admin]
      BY <1>10, <2>d DEF KillNext, Inv, VictimMatches
    <3> QED BY <2>d, <3>1, <3>2 DEF VictimMatches
  <2>6. KillsMatch'
    BY <1>10, <2>c, <2>d DEF Inv, TypeOK, KillsMatch, Places, KillNext,
        CallDisconnect
  <2>7. IterMatches'
    BY <1>10, <2>c, <2>d DEF Inv, TypeOK, IterMatches, KillNext,
        CallDisconnect
  <2>8. LocksMatch'
    BY <1>10, <2>c, <2>d DEF Inv, TypeOK, LocksMatch, KillNext,
        CallDisconnect
  <2>9. Counts'
    BY <1>10, <2>c, <2>d DEF Inv, TypeOK, Counts, KillNext, CallDisconnect
  <2> QED BY <2>1, <2>2, <2>3, <2>4, <2>5, <2>6, <2>7, <2>8, <2>9 DEF Inv
<1>11. CASE KillsDone
  <2>1. TypeOK'
    BY <1>11 DEF Inv, TypeOK, KillsDone
  <2>2. Places'
    BY <1>11 DEF Inv, TypeOK, Places, KillsDone
  <2>3. MapMatches'
    BY <1>11 DEF Inv, TypeOK, MapMatches, KillsDone
  <2>4. Room'
    BY <1>11 DEF Inv, TypeOK, Room, KillsDone
  <2>5. VictimMatches'
    BY <1>11 DEF Inv, TypeOK, VictimMatches, KillsDone
  <2>6. KillsMatch'
    BY <1>11 DEF Inv, TypeOK, KillsMatch, KillsDone
  <2>7. IterMatches'
    BY <1>11 DEF Inv, TypeOK, IterMatches, KillsDone
  <2>8. LocksMatch'
    BY <1>11 DEF Inv, TypeOK, LocksMatch, KillsDone
  <2>9. Counts'
    BY <1>11 DEF Inv, TypeOK, Counts, KillsDone
  <2> QED BY <2>1, <2>2, <2>3, <2>4, <2>5, <2>6, <2>7, <2>8, <2>9 DEF Inv
<1>12. CASE AfterHandler
  <2>b. Flags'
    BY <1>12, Zenon DEF AfterHandler, Inv, TypeOK, Flags
  <2>1. TypeOK'
    BY <1>12, <2>b DEF Inv, TypeOK, AfterHandler, Flags
  <2>2. Places'
    BY <1>12, <2>b DEF Inv, TypeOK, Places, AfterHandler
  <2>3. MapMatches'
    BY <1>12, <2>b DEF Inv, TypeOK, MapMatches, AfterHandler
  <2>4. Room'
    BY <1>12, <2>b DEF Inv, TypeOK, Room, AfterHandler
  <2>5. VictimMatches'
    BY <1>12, <2>b DEF Inv, TypeOK, VictimMatches, AfterHandler
  <2>6. KillsMatch'
    BY <1>12, <2>b DEF Inv, TypeOK, Places, MapMatches, Room,
        VictimMatches, KillsMatch, IterMatches, LocksMatch, Counts,
        AfterHandler
  <2>7. IterMatches'
    BY <1>12, <2>b DEF Inv, TypeOK, IterMatches, AfterHandler
  <2>8. LocksMatch'
    BY <1>12, <2>b DEF Inv, TypeOK, LocksMatch, AfterHandler
  <2>9. Counts'
    BY <1>12, <2>b DEF Inv, TypeOK, Counts, AfterHandler
  <2> QED BY <2>1, <2>2, <2>3, <2>4, <2>5, <2>6, <2>7, <2>8, <2>9 DEF Inv
<1>13. CASE FinishGone
  <2>b. Flags'
    BY <1>13, Zenon DEF FinishGone, RestartLoop, Inv, TypeOK, Flags
  <2>1. TypeOK'
    BY <1>13, FirstIn, <2>b DEF Inv, TypeOK, FinishGone, RestartLoop, Flags
  <2>2. Places'
    BY <1>13, FirstIn, <2>b DEF Inv, TypeOK, Places, FinishGone,
        RestartLoop
  <2>3. MapMatches'
    BY <1>13, FirstIn, <2>b DEF Inv, TypeOK, MapMatches, FinishGone,
        RestartLoop
  <2>4. Room'
    BY <1>13, FirstIn, <2>b DEF Inv, TypeOK, Room, FinishGone, RestartLoop
  <2>5. VictimMatches'
    BY <1>13, FirstIn, <2>b DEF Inv, TypeOK, VictimMatches, FinishGone,
        RestartLoop
  <2>6. KillsMatch'
    BY <1>13, FirstIn, <2>b DEF Inv, TypeOK, KillsMatch, FinishGone,
        RestartLoop
  <2>7. IterMatches'
    BY <1>13, FirstIn, <2>b DEF Inv, TypeOK, IterMatches, FinishGone,
        RestartLoop
  <2>8. LocksMatch'
    BY <1>13, FirstIn, <2>b DEF Inv, TypeOK, LocksMatch, FinishGone,
        RestartLoop
  <2>9. Counts'
    BY <1>13, FirstIn, <2>b DEF Inv, TypeOK, Counts, FinishGone,
        RestartLoop
  <2> QED BY <2>1, <2>2, <2>3, <2>4, <2>5, <2>6, <2>7, <2>8, <2>9 DEF Inv
<1>14. CASE Finish
  <2>b. Flags'
    BY <1>14, Zenon DEF Finish, Head_Release, Inv, TypeOK, Flags
  <2>c. iter' \in Registered \cup {None}
    <3>1. CASE resetAfter
      BY <1>14, <3>1, FirstIn DEF Finish
    <3>2. CASE ~resetAfter
      <4>1. After(iter) \in SUBSET Registered
        BY DEF After
      <4> QED BY <1>14, <3>2, <4>1, FirstIn DEF Finish
    <3> QED BY <3>1, <3>2
  <2>d. /\ pc = "finish" /\ pc' = "scan" /\ client' = None
        /\ client \in Clients
        /\ mutex' = [mutex EXCEPT ![client] = "free"]
        /\ inbox' \in [Clients -> 0 .. MaxStreams]
        /\ \A c \in Clients : inbox'[c] <= inbox[c]
    BY <1>14 DEF Finish, Head_Release, Inv, TypeOK, Places
  <2>1. TypeOK'
    BY <1>14, FirstIn, <2>b, <2>c, <2>d DEF Inv, TypeOK, Finish,
        Head_Release, Flags
  <2>2. Places'
    BY <1>14, FirstIn, <2>b, <2>c, <2>d DEF Inv, TypeOK, Places, Finish,
        Head_Release
  <2>3. MapMatches'
    BY <1>14, FirstIn, <2>b, <2>c, <2>d DEF Inv, TypeOK, MapMatches,
        Finish, Head_Release
  <2>4. Room'
    BY <1>14, FirstIn, <2>b, <2>c, <2>d DEF Inv, TypeOK, Room, Finish,
        Head_Release
  <2>5. VictimMatches'
    BY <1>14, FirstIn, <2>b, <2>c, <2>d DEF Inv, TypeOK, VictimMatches,
        Finish, Head_Release
  <2>6. KillsMatch'
    BY <1>14, FirstIn, <2>b, <2>c, <2>d DEF Inv, TypeOK, KillsMatch,
        Finish, Head_Release
  <2>7. IterMatches'
    BY <1>14, FirstIn, <2>b, <2>c, <2>d DEF Inv, TypeOK, IterMatches,
        Places, Finish, Head_Release
  <2>8. LocksMatch'
    BY <1>14, FirstIn, <2>b, <2>c, <2>d DEF Inv, TypeOK, Places,
        MapMatches, Room, VictimMatches, KillsMatch, IterMatches,
        LocksMatch, Counts, Finish, Head_Release
  <2>9. Counts'
    BY <1>14, FirstIn, <2>b, <2>c, <2>d DEF Inv, TypeOK, Counts, Finish,
        Head_Release
  <2> QED BY <2>1, <2>2, <2>3, <2>4, <2>5, <2>6, <2>7, <2>8, <2>9 DEF Inv
<1>15. CASE HandleStay
  <2>1. TypeOK'
    BY <1>15 DEF Inv, TypeOK, HandleStay
  <2>2. Places'
    BY <1>15 DEF Inv, TypeOK, Places, HandleStay
  <2>3. MapMatches'
    BY <1>15 DEF Inv, TypeOK, MapMatches, HandleStay
  <2>4. Room'
    BY <1>15 DEF Inv, TypeOK, Room, HandleStay
  <2>5. VictimMatches'
    BY <1>15 DEF Inv, TypeOK, VictimMatches, HandleStay
  <2>6. KillsMatch'
    BY <1>15 DEF Inv, TypeOK, KillsMatch, HandleStay
  <2>7. IterMatches'
    BY <1>15 DEF Inv, TypeOK, IterMatches, HandleStay
  <2>8. LocksMatch'
    BY <1>15 DEF Inv, TypeOK, LocksMatch, HandleStay
  <2>9. Counts'
    BY <1>15 DEF Inv, TypeOK, Counts, HandleStay
  <2> QED BY <2>1, <2>2, <2>3, <2>4, <2>5, <2>6, <2>7, <2>8, <2>9 DEF Inv
<1>16. CASE HandleLeave
  <2>1. TypeOK'
    BY <1>16 DEF Inv, TypeOK, Places, MapMatches, Room, VictimMatches,
        KillsMatch, IterMatches, LocksMatch, Counts, HandleLeave
  <2>2. Places'
    BY <1>16 DEF Inv, TypeOK, Places, HandleLeave
  <2>3. MapMatches'
    BY <1>16 DEF Inv, TypeOK, MapMatches, HandleLeave
  <2>4. Room'
    BY <1>16 DEF Inv, TypeOK, Room, HandleLeave
  <2>5. VictimMatches'
    BY <1>16 DEF Inv, TypeOK, VictimMatches, HandleLeave
  <2>6. KillsMatch'
    BY <1>16 DEF Inv, TypeOK, Places, MapMatches, Room, VictimMatches,
        KillsMatch, IterMatches, LocksMatch, Counts, HandleLeave
  <2>7. IterMatches'
    BY <1>16 DEF Inv, TypeOK, IterMatches, HandleLeave
  <2>8. LocksMatch'
    BY <1>16 DEF Inv, TypeOK, LocksMatch, HandleLeave
  <2>9. Counts'
    BY <1>16 DEF Inv, TypeOK, Counts, HandleLeave
  <2> QED BY <2>1, <2>2, <2>3, <2>4, <2>5, <2>6, <2>7, <2>8, <2>9 DEF Inv
<1>17. ASSUME NEW n \in Nodes, HandleForget(n)
      PROVE  Inv'
  <2>1. TypeOK'
    BY <1>17 DEF Inv, TypeOK, HandleForget
  <2>2. Places'
    BY <1>17 DEF Inv, TypeOK, Places, HandleForget
  <2>3. MapMatches'
    BY <1>17 DEF Inv, TypeOK, MapMatches, HandleForget
  <2>4. Room'
    BY <1>17 DEF Inv, TypeOK, Room, HandleForget
  <2>5. VictimMatches'
    BY <1>17 DEF Inv, TypeOK, VictimMatches, HandleForget
  <2>6. KillsMatch'
    BY <1>17 DEF Inv, TypeOK, Places, MapMatches, Room, VictimMatches,
        KillsMatch, IterMatches, LocksMatch, Counts, HandleForget
  <2>7. IterMatches'
    BY <1>17 DEF Inv, TypeOK, IterMatches, HandleForget
  <2>8. LocksMatch'
    BY <1>17 DEF Inv, TypeOK, LocksMatch, HandleForget
  <2>9. Counts'
    BY <1>17 DEF Inv, TypeOK, Counts, HandleForget
  <2> QED BY <2>1, <2>2, <2>3, <2>4, <2>5, <2>6, <2>7, <2>8, <2>9 DEF Inv
<1>18. ASSUME NEW N \in SUBSET Nodes, HandleRevoke(N)
      PROVE  Inv'
  <2>1. TypeOK'
    BY <1>18 DEF Inv, TypeOK, HandleRevoke
  <2>2. Places'
    BY <1>18 DEF Inv, TypeOK, Places, HandleRevoke
  <2>3. MapMatches'
    BY <1>18 DEF Inv, TypeOK, MapMatches, HandleRevoke
  <2>4. Room'
    BY <1>18 DEF Inv, TypeOK, Room, HandleRevoke
  <2>5. VictimMatches'
    BY <1>18 DEF Inv, TypeOK, VictimMatches, HandleRevoke
  <2>6. KillsMatch'
    BY <1>18 DEF Inv, TypeOK, Places, MapMatches, Room, VictimMatches,
        KillsMatch, IterMatches, LocksMatch, Counts, HandleRevoke
  <2>7. IterMatches'
    BY <1>18 DEF Inv, TypeOK, IterMatches, HandleRevoke
  <2>8. LocksMatch'
    BY <1>18 DEF Inv, TypeOK, LocksMatch, HandleRevoke
  <2>9. Counts'
    BY <1>18 DEF Inv, TypeOK, Counts, HandleRevoke
  <2> QED BY <2>1, <2>2, <2>3, <2>4, <2>5, <2>6, <2>7, <2>8, <2>9 DEF Inv
<1>19. CASE Disconnect
  <2>b. Flags'
    BY <1>19, Zenon DEF Disconnect, Head_Release, Inv, TypeOK, Flags
  <2>1. TypeOK'
    BY <1>19, <2>b DEF Inv, TypeOK, Disconnect, Head_Release, Flags
  <2>2. Places'
    BY <1>19, <2>b DEF Inv, TypeOK, Places, Disconnect, Head_Release
  <2>3. MapMatches'
    BY <1>19, <2>b DEF Inv, TypeOK, MapMatches, Disconnect, Head_Release
  <2>4. Room'
    BY <1>19, <2>b DEF Inv, TypeOK, Room, Disconnect, Head_Release
  <2>5. VictimMatches'
    BY <1>19, <2>b DEF Inv, TypeOK, VictimMatches, Disconnect, Head_Release
  <2>6. KillsMatch'
    BY <1>19, <2>b DEF Inv, TypeOK, KillsMatch, Places, Disconnect,
        Head_Release
  <2>7. IterMatches'
    BY <1>19, <2>b DEF Inv, TypeOK, IterMatches, Places, Disconnect,
        Head_Release
  <2>8. LocksMatch'
    BY <1>19, <2>b DEF Inv, TypeOK, LocksMatch, Places, Disconnect,
        Head_Release
  <2>9. Counts'
    BY <1>19, <2>b DEF Inv, TypeOK, Counts, Disconnect, Head_Release
  <2> QED BY <2>1, <2>2, <2>3, <2>4, <2>5, <2>6, <2>7, <2>8, <2>9 DEF Inv
<1>20. CASE Delete
  <2>c. ({clientMap[id[victim]]} \ {None})
          \cup (IF ret = "refuse" THEN {newcomer} ELSE {}) = {victim}
    <3>1. CASE ret = "refuse"
      <4>1. victim = newcomer /\ clientMap[id[victim]] = None
        BY <1>20, <3>1 DEF Delete, Inv, TypeOK, Places, Room
      <4>2. {clientMap[id[victim]]} \ {None} = {}
        BY <4>1
      <4>3. (IF ret = "refuse" THEN {newcomer} ELSE {}) = {victim}
        BY <3>1, <4>1
      <4> QED BY <4>2, <4>3
    <3>2. CASE ret # "refuse"
      BY <1>20, <3>2 DEF Delete, Inv, TypeOK, VictimMatches, MapMatches
    <3> QED BY <3>1, <3>2
  <2>d. /\ victim \in Clients /\ id[victim] \in IDs
        /\ clientMap[id[victim]] \in {victim, None}
        /\ clientMap' = [clientMap EXCEPT ![id[victim]] = None]
        /\ life' = [c \in Clients |->
                      IF c = victim THEN "deleted" ELSE life[c]]
        /\ mutex' = [c \in Clients |->
                       IF c = victim THEN "free" ELSE mutex[c]]
        /\ critical' = [c \in Clients |-> c # victim /\ critical[c]]
        /\ inbox' = [c \in Clients |-> IF c = victim THEN 0 ELSE inbox[c]]
    BY <1>20, <2>c DEF Delete, Inv, TypeOK, Places, Room, VictimMatches,
        MapMatches
  <2>1. TypeOK'
    BY <1>20, FirstIn, <2>c, <2>d DEF Inv, TypeOK, Delete, RestartLoop
  <2>2. Places'
    BY <1>20, FirstIn, <2>c, <2>d DEF Inv, TypeOK, Places, Delete,
        RestartLoop
  <2>3. MapMatches'
    BY <1>20, FirstIn, <2>c, <2>d DEF Inv, TypeOK, MapMatches, Places,
        Delete, RestartLoop
  <2>4. Room'
    BY <1>20, FirstIn, <2>c, <2>d DEF Inv, TypeOK, Places, MapMatches,
        Room, VictimMatches, KillsMatch, IterMatches, LocksMatch, Counts,
        Delete, RestartLoop
  <2>5. VictimMatches'
    BY <1>20, FirstIn, <2>c, <2>d DEF Inv, TypeOK, VictimMatches, Places,
        MapMatches, Delete, RestartLoop
  <2>6. KillsMatch'
    BY <1>20, FirstIn, <2>c, <2>d DEF Inv, TypeOK, KillsMatch, Places,
        Delete, RestartLoop
  <2>7. IterMatches'
    BY <1>20, FirstIn, <2>c, <2>d DEF Inv, TypeOK, IterMatches, Places,
        Delete, RestartLoop
  <2>8. LocksMatch'
    <3>0. /\ pc = "delete" /\ client' = client /\ skipRelease' = skipRelease
          /\ inside' = inside /\ ret' = ret
          /\ pc' = IF ret \in {"scan", "refuse"} THEN "scan" ELSE ret
      BY <1>20 DEF Delete, RestartLoop
    <3>1. InBody => ret = "kill" /\ pc' = "kill"
      BY <3>0
    <3>2. \A c \in Clients : mutex'[c] = "main" =>
            c = client' /\ InBody' /\ pc' # "acquire" /\ ~skipRelease'
      BY <2>d, <3>0, <3>1 DEF Inv, LocksMatch
    <3>3. \A c \in Clients : critical'[c] => mutex'[c] = "thread"
      BY <2>d, <3>0 DEF Inv, LocksMatch
    <3>4. ASSUME InBody', ~skipRelease'
          PROVE  mutex'[client'] = "main" /\ inbox'[client'] > 0
      <4>1. ret \in {"scan", "kill", "register", "refuse", "pings"}
        BY DEF Inv, TypeOK
      <4>2. ret = "kill" /\ InBody
        BY <3>0, <3>4, <4>1
      <4>3. client \in Clients /\ client # victim
        BY <3>0, <3>4, <4>2 DEF Inv, TypeOK, Places, IterMatches
      <4> QED BY <2>d, <3>0, <3>4, <4>2, <4>3 DEF Inv, LocksMatch
    <3> QED BY <3>2, <3>3, <3>4 DEF LocksMatch
  <2>9. Counts'
    BY <1>20, FirstIn, <2>c, <2>d DEF Inv, TypeOK, Counts, Delete,
        RestartLoop
  <2> QED BY <2>1, <2>2, <2>3, <2>4, <2>5, <2>6, <2>7, <2>8, <2>9 DEF Inv
<1>21. ASSUME NEW c \in Clients, PingOut(c)
      PROVE  Inv'
  <2>1. TypeOK'
    BY <1>21 DEF Inv, TypeOK, PingOut, CallDisconnect
  <2>2. Places'
    BY <1>21 DEF Inv, TypeOK, Places, PingOut, CallDisconnect
  <2>3. MapMatches'
    BY <1>21 DEF Inv, TypeOK, MapMatches, PingOut, CallDisconnect
  <2>4. Room'
    BY <1>21 DEF Inv, TypeOK, Room, PingOut, CallDisconnect
  <2>5. VictimMatches'
    BY <1>21 DEF Inv, TypeOK, VictimMatches, PingOut, CallDisconnect
  <2>6. KillsMatch'
    BY <1>21 DEF Inv, TypeOK, KillsMatch, Places, PingOut, CallDisconnect
  <2>7. IterMatches'
    BY <1>21 DEF Inv, TypeOK, IterMatches, PingOut, CallDisconnect
  <2>8. LocksMatch'
    BY <1>21 DEF Inv, TypeOK, LocksMatch, PingOut, CallDisconnect
  <2>9. Counts'
    BY <1>21 DEF Inv, TypeOK, Counts, PingOut, CallDisconnect
  <2> QED BY <2>1, <2>2, <2>3, <2>4, <2>5, <2>6, <2>7, <2>8, <2>9 DEF Inv
<1>22. CASE PingsDone
  <2>1. TypeOK'
    BY <1>22 DEF Inv, TypeOK, PingsDone
  <2>2. Places'
    BY <1>22 DEF Inv, TypeOK, Places, PingsDone
  <2>3. MapMatches'
    BY <1>22 DEF Inv, TypeOK, MapMatches, PingsDone
  <2>4. Room'
    BY <1>22 DEF Inv, TypeOK, Room, PingsDone
  <2>5. VictimMatches'
    BY <1>22 DEF Inv, TypeOK, VictimMatches, PingsDone
  <2>6. KillsMatch'
    BY <1>22 DEF Inv, TypeOK, KillsMatch, PingsDone
  <2>7. IterMatches'
    BY <1>22 DEF Inv, TypeOK, IterMatches, PingsDone
  <2>8. LocksMatch'
    BY <1>22 DEF Inv, TypeOK, LocksMatch, PingsDone
  <2>9. Counts'
    BY <1>22 DEF Inv, TypeOK, Counts, PingsDone
  <2> QED BY <2>1, <2>2, <2>3, <2>4, <2>5, <2>6, <2>7, <2>8, <2>9 DEF Inv
<1>23. CASE Acquire
  <2>b. Flags'
    BY <1>23, Zenon DEF Acquire, Inv, TypeOK, Flags
  <2>1. TypeOK'
    BY <1>23, <2>b DEF Inv, TypeOK, Acquire, Flags
  <2>2. Places'
    BY <1>23, <2>b DEF Inv, TypeOK, Places, Acquire
  <2>3. MapMatches'
    BY <1>23, <2>b DEF Inv, TypeOK, MapMatches, Acquire
  <2>4. Room'
    BY <1>23, <2>b DEF Inv, TypeOK, Room, Acquire
  <2>5. VictimMatches'
    BY <1>23, <2>b DEF Inv, TypeOK, VictimMatches, Acquire
  <2>6. KillsMatch'
    BY <1>23, <2>b DEF Inv, TypeOK, KillsMatch, Acquire
  <2>7. IterMatches'
    BY <1>23, <2>b DEF Inv, TypeOK, IterMatches, Acquire
  <2>8. LocksMatch'
    BY <1>23, <2>b DEF Inv, TypeOK, LocksMatch, Places, Acquire
  <2>9. Counts'
    BY <1>23, <2>b DEF Inv, TypeOK, Counts, Acquire
  <2> QED BY <2>1, <2>2, <2>3, <2>4, <2>5, <2>6, <2>7, <2>8, <2>9 DEF Inv
<1>24. ASSUME NEW c \in Clients, NEW i \in IDs, Connect(c, i)
      PROVE  Inv'
  <2>1. TypeOK'
    BY <1>24 DEF Inv, TypeOK, Connect
  <2>2. Places'
    BY <1>24 DEF Inv, TypeOK, Places, Connect
  <2>3. MapMatches'
    BY <1>24 DEF Inv, TypeOK, MapMatches, Connect
  <2>4. Room'
    BY <1>24 DEF Inv, TypeOK, Room, Connect
  <2>5. VictimMatches'
    BY <1>24 DEF Inv, TypeOK, VictimMatches, Connect
  <2>6. KillsMatch'
    BY <1>24 DEF Inv, TypeOK, KillsMatch, Connect
  <2>7. IterMatches'
    BY <1>24 DEF Inv, TypeOK, IterMatches, Connect
  <2>8. LocksMatch'
    BY <1>24 DEF Inv, TypeOK, LocksMatch, Connect
  <2>9. Counts'
    BY <1>24 DEF Inv, TypeOK, Counts, Connect
  <2> QED BY <2>1, <2>2, <2>3, <2>4, <2>5, <2>6, <2>7, <2>8, <2>9 DEF Inv
<1>25. ASSUME NEW c \in Clients, LinkBreaks(c)
      PROVE  Inv'
  <2>1. TypeOK'
    BY <1>25 DEF Inv, TypeOK, LinkBreaks
  <2>2. Places'
    BY <1>25 DEF Inv, TypeOK, Places, LinkBreaks
  <2>3. MapMatches'
    BY <1>25 DEF Inv, TypeOK, MapMatches, LinkBreaks
  <2>4. Room'
    BY <1>25 DEF Inv, TypeOK, Room, LinkBreaks
  <2>5. VictimMatches'
    BY <1>25 DEF Inv, TypeOK, VictimMatches, LinkBreaks
  <2>6. KillsMatch'
    BY <1>25 DEF Inv, TypeOK, KillsMatch, LinkBreaks
  <2>7. IterMatches'
    BY <1>25 DEF Inv, TypeOK, IterMatches, LinkBreaks
  <2>8. LocksMatch'
    BY <1>25 DEF Inv, TypeOK, LocksMatch, LinkBreaks
  <2>9. Counts'
    BY <1>25 DEF Inv, TypeOK, Counts, LinkBreaks
  <2> QED BY <2>1, <2>2, <2>3, <2>4, <2>5, <2>6, <2>7, <2>8, <2>9 DEF Inv
<1>26. ASSUME NEW c \in Clients, ThreadLock(c)
      PROVE  Inv'
  <2>1. TypeOK'
    BY <1>26 DEF Inv, TypeOK, ThreadLock
  <2>2. Places'
    BY <1>26 DEF Inv, TypeOK, Places, ThreadLock
  <2>3. MapMatches'
    BY <1>26 DEF Inv, TypeOK, MapMatches, ThreadLock
  <2>4. Room'
    BY <1>26 DEF Inv, TypeOK, Room, ThreadLock
  <2>5. VictimMatches'
    BY <1>26 DEF Inv, TypeOK, VictimMatches, ThreadLock
  <2>6. KillsMatch'
    BY <1>26 DEF Inv, TypeOK, KillsMatch, ThreadLock
  <2>7. IterMatches'
    BY <1>26 DEF Inv, TypeOK, IterMatches, ThreadLock
  <2>8. LocksMatch'
    BY <1>26 DEF Inv, TypeOK, LocksMatch, ThreadLock
  <2>9. Counts'
    BY <1>26 DEF Inv, TypeOK, Counts, ThreadLock
  <2> QED BY <2>1, <2>2, <2>3, <2>4, <2>5, <2>6, <2>7, <2>8, <2>9 DEF Inv
<1>27. ASSUME NEW c \in Clients, ThreadPush(c)
      PROVE  Inv'
  <2>1. TypeOK'
    BY <1>27 DEF Inv, TypeOK, Places, MapMatches, Room, VictimMatches,
        KillsMatch, IterMatches, LocksMatch, Counts, ThreadPush
  <2>2. Places'
    BY <1>27 DEF Inv, TypeOK, Places, ThreadPush
  <2>3. MapMatches'
    BY <1>27 DEF Inv, TypeOK, MapMatches, ThreadPush
  <2>4. Room'
    BY <1>27 DEF Inv, TypeOK, Room, ThreadPush
  <2>5. VictimMatches'
    BY <1>27 DEF Inv, TypeOK, VictimMatches, ThreadPush
  <2>6. KillsMatch'
    BY <1>27 DEF Inv, TypeOK, KillsMatch, ThreadPush
  <2>7. IterMatches'
    BY <1>27 DEF Inv, TypeOK, IterMatches, ThreadPush
  <2>8. LocksMatch'
    BY <1>27 DEF Inv, TypeOK, Places, MapMatches, Room, VictimMatches,
        KillsMatch, IterMatches, LocksMatch, Counts, ThreadPush
  <2>9. Counts'
    BY <1>27 DEF Inv, TypeOK, Counts, ThreadPush
  <2> QED BY <2>1, <2>2, <2>3, <2>4, <2>5, <2>6, <2>7, <2>8, <2>9 DEF Inv
<1>28. ASSUME NEW c \in Clients, AcceptClient(c)
      PROVE  Inv'
  <2>1. TypeOK'
    BY <1>28 DEF Inv, TypeOK, AcceptClient
  <2>2. Places'
    BY <1>28 DEF Inv, TypeOK, Places, AcceptClient
  <2>3. MapMatches'
    BY <1>28 DEF Inv, TypeOK, MapMatches, Places, AcceptClient
  <2>4. Room'
    BY <1>28 DEF Inv, TypeOK, MapMatches, Places, Room, AcceptClient
  <2>5. VictimMatches'
    BY <1>28 DEF Inv, TypeOK, VictimMatches, AcceptClient
  <2>6. KillsMatch'
    BY <1>28 DEF Inv, TypeOK, KillsMatch, AcceptClient
  <2>7. IterMatches'
    BY <1>28 DEF Inv, TypeOK, IterMatches, AcceptClient
  <2>8. LocksMatch'
    BY <1>28 DEF Inv, TypeOK, LocksMatch, AcceptClient
  <2>9. Counts'
    BY <1>28 DEF Inv, TypeOK, Counts, AcceptClient
  <2> QED BY <2>1, <2>2, <2>3, <2>4, <2>5, <2>6, <2>7, <2>8, <2>9 DEF Inv
<1>29. CASE UNCHANGED vars
  BY <1>29 DEF Inv, TypeOK, Places, MapMatches, Room, VictimMatches,
      KillsMatch, IterMatches, LocksMatch, Counts, vars
<1> QED BY <1>1, <1>2, <1>3, <1>4, <1>5, <1>6, <1>7, <1>8, <1>9, <1>10,
        <1>11, <1>12, <1>13, <1>14, <1>15, <1>16, <1>17, <1>18, <1>19,
        <1>20, <1>21, <1>22, <1>23, <1>24, <1>25, <1>26, <1>27, <1>28, <1>29
     DEF Next, MainStep, Accept, Loop, Handle, Peer

\* So it holds throughout.
LEMMA InvAlways == Spec => []Inv
BY InvInit, InvStep, PTL DEF Spec

-----------------------------------------------------------------------------
(* What follows *)

\* No queue holds more than its connection carried, and the flags and pointers
\* of the main thread have the values they are meant to have.
THEOREM TypeCorrect == Spec => []TypeOK
<1>1. Inv => TypeOK
  BY DEF Inv
<1> QED BY <1>1, InvAlways, PTL

\* CurrentAdmin follows ClientMap through every connection, replacement and
\* loss of an administrator.
THEOREM AdminPointerCorrect == Spec => []AdminPointer
<1>1. Inv => AdminPointer
  BY DEF Inv, VictimMatches, AdminPointer
<1> QED BY <1>1, InvAlways, PTL

\* The main thread dereferences no client that has been deleted, whomever a
\* handler disconnects while the loop is at work on another.
THEOREM NothingDangles == Spec => []NoDangling
<1>1. Inv => NoDangling
  <2> SUFFICES ASSUME Inv PROVE NoDangling
    OBVIOUS
  <2>1. \A c \in OnMap : life[c] = "alive"
    BY DEF Inv, MapMatches
  <2>2. pc = "scan" => iter = None \/ iter \in Registered
    BY DEF Inv, IterMatches
  <2>3. pc \in {"acquire", "handle"} \/ (pc = "finish" /\ ~skipRelease)
          => iter \in Registered /\ clientMap[iter] = client
    BY DEF Inv, Places, IterMatches
  <2>4. Calling => life[victim] = "alive"
    BY <2>1 DEF Inv, Places, Room, VictimMatches
  <2> QED BY <2>1, <2>2, <2>3, <2>4 DEF NoDangling
<1> QED BY <1>1, InvAlways, PTL

\* The main thread holds the mutex of one read queue at most, so that it never
\* waits for one while a read thread waits for it.
THEOREM OneLockOnly == Spec => []OneLock
<1>1. Inv => OneLock
  BY DEF Inv, TypeOK, LocksMatch, OneLock
<1> QED BY <1>1, InvAlways, PTL

\* The stream a handler reads stays locked on its queue while it is read.
THEOREM StreamIsHeld == Spec => []StreamHeld
<1>1. Inv => StreamHeld
  BY DEF Inv, LocksMatch, StreamHeld
<1> QED BY <1>1, InvAlways, PTL

\* Every client object is reachable until it is deleted.
THEOREM NothingLeaks == Spec => []NoLeak
<1>1. Inv => NoLeak
  BY DEF Inv, MapMatches, NoLeak
<1> QED BY <1>1, InvAlways, PTL

\* Everything the main thread relies on, together.
THEOREM Safety == Spec => []Safe
<1>1. TypeOK /\ AdminPointer /\ NoDangling /\ OneLock /\ StreamHeld /\ NoLeak
        => Safe
  BY DEF Safe
<1> QED
  BY <1>1, TypeCorrect, AdminPointerCorrect, NothingDangles, OneLockOnly,
     StreamIsHeld, NothingLeaks, PTL
=============================================================================
