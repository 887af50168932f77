-------------------------- MODULE ReadQueue_proofs --------------------------
(***************************************************************************)
(* Proofs about ReadQueue, for any streams and any number of connections.  *)
(***************************************************************************)
EXTENDS ReadQueue, SequenceTheorems, TLAPS

USE DEF ThreadStates, Running, threadVars, netVars, ownerVars

-----------------------------------------------------------------------------
\* Every step keeps the types, given that a thread that is about to add a
\* stream has one.
LEMMA TypeStep == TypeOK /\ Owned /\ [Next]_vars => TypeOK'
<1> SUFFICES ASSUME TypeOK, Owned, [Next]_vars PROVE TypeOK'
  OBVIOUS
<1> USE DEF TypeOK
<1>1. CASE ThreadTop
  BY <1>1 DEF ThreadTop
<1>2. CASE ThreadSelectNothing
  BY <1>2 DEF ThreadSelectNothing
<1>3. CASE ThreadSelectError
  BY <1>3 DEF ThreadSelectError
<1>4. CASE ThreadSelectData
  BY <1>4 DEF ThreadSelectData
<1>5. CASE ThreadReceive
  <2>1. /\ Head(wire) \in Streams /\ Tail(wire) \in Seq(Streams)
    BY <1>5, HeadTailProperties DEF ThreadReceive
  <2>2. Append(downloaded, Head(wire)) \in Seq(Streams)
    BY <2>1, AppendProperties
  <2> QED
    BY <1>5, <2>1, <2>2 DEF ThreadReceive
<1>6. CASE ThreadReceiveThrew
  BY <1>6 DEF ThreadReceiveThrew
<1>7. CASE ThreadLock
  BY <1>7 DEF ThreadLock
<1>8. CASE ThreadPush
  <2>1. Append(queue, incoming) \in Seq(Streams)
    BY <1>8, AppendProperties DEF ThreadPush, Owned
  <2> QED
    BY <1>8, <2>1 DEF ThreadPush
<1>9. CASE ThreadCancelled
  BY <1>9 DEF ThreadCancelled
<1>10. CASE Acquire
  <2>1. queue # <<>> => Head(queue) \in Streams
    BY HeadTailProperties
  <2> QED
    BY <1>10, <2>1 DEF Acquire, Head_Acquire
<1>11. CASE Release
  <2>1. queue # <<>> =>
          /\ Tail(queue) \in Seq(Streams)
          /\ Append(handled, Head(queue)) \in Seq(Streams)
    BY HeadTailProperties, AppendProperties
  <2> QED
    BY <1>11, <2>1 DEF Release, Head_Release
<1>12. ASSUME NEW new \in BOOLEAN, Begin(new)
      PROVE  TypeOK'
  <2>1. <<>> \in Seq(Streams)
    BY EmptySeq
  <2>2. conn < MaxConn => conn + 1 \in 0 .. MaxConn
    BY ConstantsAssumption
  <2> QED
    BY <1>12, <2>1, <2>2 DEF Begin
<1>13. ASSUME NEW forever \in BOOLEAN, StopThread(forever)
      PROVE  TypeOK'
  BY <1>13 DEF StopThread
<1>14. CASE StopJoin
  BY <1>14 DEF StopJoin, Alive
<1>15. CASE StopPreCheck
  BY <1>15 DEF StopPreCheck
<1>16. CASE StopKillJoin
  BY <1>16 DEF StopKillJoin
<1>17. CASE ClearError
  BY <1>17 DEF ClearError
<1>18. CASE Destroy
  <2>1. <<>> \in Seq(Streams)
    BY EmptySeq
  <2> QED
    BY <1>18, <2>1 DEF Destroy
<1>19. ASSUME NEW s \in Streams, PeerSends(s)
      PROVE  TypeOK'
  <2>1. Append(wire, s) \in Seq(Streams)
    BY AppendProperties
  <2> QED
    BY <1>19, <2>1 DEF PeerSends
<1>20. CASE LinkFails
  <2>1. \A n \in 0 .. Len(wire) : SubSeq(wire, 1, n) \in Seq(Streams)
    BY SubSeqProperties
  <2> QED
    BY <1>20, <2>1 DEF LinkFails
<1>21. CASE UNCHANGED vars
  BY <1>21 DEF vars
<1> QED
  BY <1>1, <1>2, <1>3, <1>4, <1>5, <1>6, <1>7, <1>8, <1>9, <1>10,
     <1>11, <1>12, <1>13, <1>14, <1>15, <1>16, <1>17, <1>18, <1>19,
     <1>20, <1>21
    DEF Next, ThreadStep, StopStep

\* The mutex is held by whoever is between its lock and its unlock.
LEMMA MutexStep ==
  TypeOK /\ MutexHeld /\ [Next]_vars => MutexHeld'
<1> SUFFICES ASSUME TypeOK, MutexHeld, [Next]_vars PROVE MutexHeld'
  OBVIOUS
<1> USE DEF MutexHeld, TypeOK
<1>1. CASE ThreadTop
  BY <1>1 DEF ThreadTop
<1>2. CASE ThreadSelectNothing
  BY <1>2 DEF ThreadSelectNothing
<1>3. CASE ThreadSelectError
  BY <1>3 DEF ThreadSelectError
<1>4. CASE ThreadSelectData
  BY <1>4 DEF ThreadSelectData
<1>5. CASE ThreadReceive
  BY <1>5 DEF ThreadReceive
<1>6. CASE ThreadReceiveThrew
  BY <1>6 DEF ThreadReceiveThrew
<1>7. CASE ThreadLock
  BY <1>7 DEF ThreadLock
<1>8. CASE ThreadPush
  BY <1>8 DEF ThreadPush
<1>9. CASE ThreadCancelled
  BY <1>9 DEF ThreadCancelled
<1>10. CASE Acquire
  BY <1>10 DEF Acquire, Head_Acquire
<1>11. CASE Release
  BY <1>11 DEF Release, Head_Release
<1>12. ASSUME NEW new \in BOOLEAN, Begin(new)
      PROVE  MutexHeld'
  BY <1>12 DEF Begin
<1>13. ASSUME NEW forever \in BOOLEAN, StopThread(forever)
      PROVE  MutexHeld'
  BY <1>13 DEF StopThread
<1>14. CASE StopJoin
  BY <1>14 DEF StopJoin, Alive
<1>15. CASE StopPreCheck
  BY <1>15 DEF StopPreCheck
<1>16. CASE StopKillJoin
  BY <1>16 DEF StopKillJoin
<1>17. CASE ClearError
  BY <1>17 DEF ClearError
<1>18. CASE Destroy
  BY <1>18 DEF Destroy
<1>19. ASSUME NEW s \in Streams, PeerSends(s)
      PROVE  MutexHeld'
  BY <1>19 DEF PeerSends
<1>20. CASE LinkFails
  BY <1>20 DEF LinkFails
<1>21. CASE UNCHANGED vars
  BY <1>21 DEF vars
<1> QED
  BY <1>1, <1>2, <1>3, <1>4, <1>5, <1>6, <1>7, <1>8, <1>9, <1>10,
     <1>11, <1>12, <1>13, <1>14, <1>15, <1>16, <1>17, <1>18, <1>19,
     <1>20, <1>21
    DEF Next, ThreadStep, StopStep

\* While the owner holds the mutex, nobody touches the list.
LEMMA HeldStep ==
  TypeOK /\ MutexHeld /\ HeldStill /\ [Next]_vars => HeldStill'
<1> SUFFICES ASSUME TypeOK, MutexHeld, HeldStill, [Next]_vars
             PROVE  HeldStill'
  OBVIOUS
<1> USE DEF MutexHeld, HeldStill
<1>1. CASE ThreadTop
  BY <1>1 DEF ThreadTop
<1>2. CASE ThreadSelectNothing
  BY <1>2 DEF ThreadSelectNothing
<1>3. CASE ThreadSelectError
  BY <1>3 DEF ThreadSelectError
<1>4. CASE ThreadSelectData
  BY <1>4 DEF ThreadSelectData
<1>5. CASE ThreadReceive
  BY <1>5 DEF ThreadReceive
<1>6. CASE ThreadReceiveThrew
  BY <1>6 DEF ThreadReceiveThrew
<1>7. CASE ThreadLock
  BY <1>7 DEF ThreadLock
<1>8. CASE ThreadPush
  BY <1>8 DEF ThreadPush
<1>9. CASE ThreadCancelled
  BY <1>9 DEF ThreadCancelled
<1>10. CASE Acquire
  BY <1>10 DEF Acquire, Head_Acquire
<1>11. CASE Release
  BY <1>11 DEF Release, Head_Release
<1>12. ASSUME NEW new \in BOOLEAN, Begin(new)
      PROVE  HeldStill'
  BY <1>12 DEF Begin
<1>13. ASSUME NEW forever \in BOOLEAN, StopThread(forever)
      PROVE  HeldStill'
  BY <1>13 DEF StopThread
<1>14. CASE StopJoin
  BY <1>14 DEF StopJoin, Alive
<1>15. CASE StopPreCheck
  BY <1>15 DEF StopPreCheck
<1>16. CASE StopKillJoin
  BY <1>16 DEF StopKillJoin
<1>17. CASE ClearError
  BY <1>17 DEF ClearError
<1>18. CASE Destroy
  BY <1>18 DEF Destroy
<1>19. ASSUME NEW s \in Streams, PeerSends(s)
      PROVE  HeldStill'
  BY <1>19 DEF PeerSends
<1>20. CASE LinkFails
  BY <1>20 DEF LinkFails
<1>21. CASE UNCHANGED vars
  BY <1>21 DEF vars
<1> QED
  BY <1>1, <1>2, <1>3, <1>4, <1>5, <1>6, <1>7, <1>8, <1>9, <1>10,
     <1>11, <1>12, <1>13, <1>14, <1>15, <1>16, <1>17, <1>18, <1>19,
     <1>20, <1>21
    DEF Next, ThreadStep, StopStep

LEMMA OwnedStep ==
  TypeOK /\ Owned /\ [Next]_vars => Owned'
<1> SUFFICES ASSUME TypeOK, Owned, [Next]_vars PROVE Owned'
  OBVIOUS
<1> USE DEF Owned
<1>1. CASE ThreadTop
  BY <1>1 DEF ThreadTop
<1>2. CASE ThreadSelectNothing
  BY <1>2 DEF ThreadSelectNothing
<1>3. CASE ThreadSelectError
  BY <1>3 DEF ThreadSelectError
<1>4. CASE ThreadSelectData
  BY <1>4 DEF ThreadSelectData
<1>5. CASE ThreadReceive
  <2>1. Head(wire) \in Streams
    BY <1>5, HeadTailProperties DEF ThreadReceive, TypeOK
  <2> QED
    BY <1>5, <2>1 DEF ThreadReceive
<1>6. CASE ThreadReceiveThrew
  BY <1>6 DEF ThreadReceiveThrew
<1>7. CASE ThreadLock
  BY <1>7 DEF ThreadLock
<1>8. CASE ThreadPush
  BY <1>8 DEF ThreadPush
<1>9. CASE ThreadCancelled
  BY <1>9 DEF ThreadCancelled
<1>10. CASE Acquire
  BY <1>10 DEF Acquire, Head_Acquire
<1>11. CASE Release
  BY <1>11 DEF Release, Head_Release
<1>12. ASSUME NEW new \in BOOLEAN, Begin(new)
      PROVE  Owned'
  BY <1>12 DEF Begin
<1>13. ASSUME NEW forever \in BOOLEAN, StopThread(forever)
      PROVE  Owned'
  BY <1>13 DEF StopThread
<1>14. CASE StopJoin
  BY <1>14 DEF StopJoin, Alive
<1>15. CASE StopPreCheck
  BY <1>15 DEF StopPreCheck
<1>16. CASE StopKillJoin
  BY <1>16 DEF StopKillJoin
<1>17. CASE ClearError
  BY <1>17 DEF ClearError
<1>18. CASE Destroy
  BY <1>18 DEF Destroy
<1>19. ASSUME NEW s \in Streams, PeerSends(s)
      PROVE  Owned'
  BY <1>19 DEF PeerSends
<1>20. CASE LinkFails
  BY <1>20 DEF LinkFails
<1>21. CASE UNCHANGED vars
  BY <1>21 DEF vars
<1> QED
  BY <1>1, <1>2, <1>3, <1>4, <1>5, <1>6, <1>7, <1>8, <1>9, <1>10,
     <1>11, <1>12, <1>13, <1>14, <1>15, <1>16, <1>17, <1>18, <1>19,
     <1>20, <1>21
    DEF Next, ThreadStep, StopStep

-----------------------------------------------------------------------------
(* What each step does to the streams.                                     *)

Download ==
  /\ wire # <<>>
  /\ wire' = Tail(wire)
  /\ Kept' = Append(Kept, Head(wire))
  /\ downloaded' = Append(downloaded, Head(wire))
  /\ UNCHANGED <<handled, opc>>

HandOut ==
  /\ Kept # <<>>
  /\ Kept' = Tail(Kept)
  /\ handled' = Append(handled, Head(Kept))
  /\ opc = "holding" /\ opc' = "idle"
  /\ UNCHANGED <<wire, downloaded>>

GiveUp ==
  /\ opc' = "destroyed"
  /\ Kept' = <<>>
  /\ UNCHANGED <<wire, downloaded, handled>>

\* Steps of the network: a stream sent, or the end of a connection.
OnTheWire ==
  /\ \/ \E s \in Streams : wire' = Append(wire, s)
     \/ \E n \in 0 .. Len(wire) : wire' = SubSeq(wire, 1, n)
  /\ UNCHANGED <<Kept, downloaded, handled, opc>>

MovesNothing ==
  /\ UNCHANGED <<wire, Kept, downloaded, handled>>
  /\ opc = "destroyed" => opc' = "destroyed"

LEMMA KeptType == TypeOK /\ Owned => Kept \in Seq(Streams)
<1> SUFFICES ASSUME TypeOK, Owned PROVE Kept \in Seq(Streams)
  OBVIOUS
<1>1. InHand \in Seq(Streams)
  BY EmptySeq DEF InHand, Owned
<1> QED
  BY <1>1, ConcatProperties DEF Kept, TypeOK

\* Kept is the list, with the stream in hand behind it.
LEMMA KeptIs ==
  ASSUME TypeOK, Owned
  PROVE  /\ tpc \notin {"lock", "push"} => Kept = queue
         /\ tpc \in {"lock", "push"} => Kept = Append(queue, incoming)
<1>1. queue \in Seq(Streams)
  BY DEF TypeOK
<1>2. tpc \notin {"lock", "push"} => Kept = queue
  BY <1>1, ConcatEmptySeq DEF Kept, InHand
<1>3. tpc \in {"lock", "push"} => Kept = Append(queue, incoming)
  BY <1>1, AppendIsConcat DEF Kept, InHand, Owned
<1> QED
  BY <1>2, <1>3

\* A pop takes the head of Kept, whatever the thread has in hand.
LEMMA PopKept ==
  ASSUME TypeOK, Owned, queue # <<>>, opc = "holding", opc' = "idle",
         queue' = Tail(queue),
         handled' = Append(handled, Head(queue)),
         UNCHANGED <<tpc, incoming, wire, downloaded>>
  PROVE  HandOut
<1>1. queue \in Seq(Streams)
  BY DEF TypeOK
<1>2. CASE tpc \notin {"lock", "push"}
  <2>1. Kept = queue
    BY <1>2, KeptIs
  <2>2. Kept' = Tail(queue)
    <3>1. InHand' = <<>>
      BY <1>2 DEF InHand
    <3>2. Tail(queue) \in Seq(Streams)
      BY <1>1, HeadTailProperties
    <3> QED
      BY <3>1, <3>2, ConcatEmptySeq DEF Kept
  <2> QED
    BY <2>1, <2>2 DEF HandOut
<1>3. CASE tpc \in {"lock", "push"}
  <2>1. incoming \in Streams
    BY <1>3 DEF Owned
  <2>2. Kept = Append(queue, incoming)
    BY <1>3, KeptIs
  <2>3. Kept' = Append(Tail(queue), incoming)
    <3>1. InHand' = <<incoming>>
      BY <1>3 DEF InHand
    <3>2. Tail(queue) \in Seq(Streams)
      BY <1>1, HeadTailProperties
    <3> QED
      BY <2>1, <3>1, <3>2, AppendIsConcat DEF Kept
  <2>4. /\ Kept # <<>>
        /\ Head(Kept) = Head(queue)
        /\ Tail(Kept) = Append(Tail(queue), incoming)
    BY <1>1, <2>1, <2>2, HeadTailAppend, AppendProperties
  <2> QED
    BY <2>3, <2>4 DEF HandOut
<1> QED
  BY <1>2, <1>3

KeptStep == Download \/ HandOut \/ GiveUp \/ OnTheWire \/ MovesNothing

LEMMA KeptSteps ==
  TypeOK /\ Owned /\ HeldStill /\ [Next]_vars => KeptStep
<1> SUFFICES ASSUME TypeOK, Owned, HeldStill, [Next]_vars PROVE KeptStep
  OBVIOUS
<1> USE DEF KeptStep
<1>1. CASE ThreadTop
  BY <1>1 DEF ThreadTop, MovesNothing, Kept, InHand
<1>2. CASE ThreadSelectNothing
  BY <1>2 DEF ThreadSelectNothing, MovesNothing, Kept, InHand
<1>3. CASE ThreadSelectError
  BY <1>3 DEF ThreadSelectError, MovesNothing, Kept, InHand
<1>4. CASE ThreadSelectData
  BY <1>4 DEF ThreadSelectData, MovesNothing, Kept, InHand
<1>5. CASE ThreadReceive
  <2>1. /\ InHand = <<>> /\ InHand' = <<Head(wire)>>
        /\ queue' = queue
    BY <1>5 DEF ThreadReceive, InHand
  <2>2. Head(wire) \in Streams
    BY <1>5, HeadTailProperties DEF ThreadReceive, TypeOK
  <2>3. Kept = queue
    BY <1>5, KeptIs DEF ThreadReceive
  <2>4. Kept' = Append(queue, Head(wire))
    BY <2>1, <2>2, AppendIsConcat DEF Kept, TypeOK
  <2>5. Download
    BY <1>5, <2>3, <2>4 DEF ThreadReceive, Download
  <2> QED
    BY <2>5
<1>6. CASE ThreadReceiveThrew
  BY <1>6 DEF ThreadReceiveThrew, MovesNothing, Kept, InHand
<1>7. CASE ThreadLock
  BY <1>7 DEF ThreadLock, MovesNothing, Kept, InHand
<1>8. CASE ThreadPush
  <2>1. Kept = Append(queue, incoming)
    BY <1>8, KeptIs DEF ThreadPush
  <2>2. InHand' = <<>> /\ queue' = Append(queue, incoming)
    BY <1>8 DEF ThreadPush, InHand
  <2>3. Append(queue, incoming) \in Seq(Streams)
    BY <1>8, AppendProperties DEF ThreadPush, Owned, TypeOK
  <2>4. Kept' = Append(queue, incoming)
    BY <2>2, <2>3, ConcatEmptySeq DEF Kept
  <2>5. MovesNothing
    BY <1>8, <2>1, <2>4 DEF ThreadPush, MovesNothing
  <2> QED
    BY <2>5
<1>9. CASE ThreadCancelled
  BY <1>9 DEF ThreadCancelled, MovesNothing, Kept, InHand
<1>10. CASE Acquire
  BY <1>10 DEF Acquire, Head_Acquire, MovesNothing, Kept, InHand
<1>11. CASE Release
  <2>1. CASE queue # <<>>
    <3>1. Head(queue) \in Streams
      BY <2>1, HeadTailProperties DEF TypeOK
    <3>2. cur # NoStream
      BY <1>11, <2>1, <3>1, ConstantsAssumption DEF Release, HeldStill
    <3>3. HandOut
      BY <1>11, <2>1, <3>2, PopKept DEF Release, Head_Release
    <3> QED
      BY <3>3
  <2>2. CASE queue = <<>>
    <3>1. MovesNothing
      BY <1>11, <2>2 DEF Release, Head_Release, MovesNothing, Kept, InHand
    <3> QED
      BY <3>1
  <2> QED
    BY <2>1, <2>2
<1>12. ASSUME NEW new \in BOOLEAN, Begin(new)
      PROVE  KeptStep
  <2>1. /\ UNCHANGED <<Kept, downloaded, handled, opc>>
        /\ wire' = <<>> \/ wire' = wire
    BY <1>12 DEF Begin, Kept, InHand
  <2>2. CASE wire' = <<>>
    <3>1. SubSeq(wire, 1, 0) = <<>>
      BY SubSeqEmpty
    <3>2. 0 \in 0 .. Len(wire)
      BY LenProperties DEF TypeOK
    <3>3. OnTheWire
      BY <2>1, <2>2, <3>1, <3>2 DEF OnTheWire
    <3> QED
      BY <3>3
  <2>3. CASE wire' = wire
    BY <2>1, <2>3 DEF MovesNothing
  <2> QED
    BY <2>1, <2>2, <2>3
<1>13. ASSUME NEW forever \in BOOLEAN, StopThread(forever)
      PROVE  KeptStep
  BY <1>13 DEF StopThread, MovesNothing, Kept, InHand
<1>14. CASE StopJoin
  BY <1>14 DEF StopJoin, Alive, MovesNothing, Kept, InHand
<1>15. CASE StopPreCheck
  BY <1>15 DEF StopPreCheck, MovesNothing, Kept, InHand
<1>16. CASE StopKillJoin
  BY <1>16 DEF StopKillJoin, MovesNothing, Kept, InHand
<1>17. CASE ClearError
  BY <1>17 DEF ClearError, MovesNothing, Kept, InHand
<1>18. CASE Destroy
  <2>1. InHand' = <<>> /\ queue' = <<>>
    BY <1>18 DEF Destroy, InHand
  <2>2. Kept' = <<>>
    BY <2>1, EmptySeq, ConcatEmptySeq DEF Kept
  <2>3. GiveUp
    BY <1>18, <2>2 DEF Destroy, GiveUp
  <2> QED
    BY <2>3
<1>19. ASSUME NEW s \in Streams, PeerSends(s)
      PROVE  KeptStep
  <2>1. OnTheWire
    BY <1>19 DEF PeerSends, OnTheWire, Kept, InHand
  <2> QED
    BY <2>1
<1>20. CASE LinkFails
  <2>1. OnTheWire
    BY <1>20 DEF LinkFails, OnTheWire, Kept, InHand
  <2> QED
    BY <2>1
<1>21. CASE UNCHANGED vars
  BY <1>21 DEF vars, MovesNothing, Kept, InHand
<1> QED
  BY <1>1, <1>2, <1>3, <1>4, <1>5, <1>6, <1>7, <1>8, <1>9, <1>10,
     <1>11, <1>12, <1>13, <1>14, <1>15, <1>16, <1>17, <1>18, <1>19,
     <1>20, <1>21
    DEF Next, ThreadStep, StopStep

\* A stream only moves from the downloaded to the handled, in order.
LEMMA OnceStep ==
  TypeOK /\ Owned /\ HeldStill /\ OnceInOrder /\ [Next]_vars => OnceInOrder'
<1> SUFFICES ASSUME TypeOK, Owned, HeldStill, OnceInOrder, [Next]_vars
             PROVE  OnceInOrder'
  OBVIOUS
<1> USE DEF OnceInOrder
<1>1. Kept \in Seq(Streams) /\ handled \in Seq(Streams)
  BY KeptType DEF TypeOK
<1>2. CASE Download
  <2>1. Head(wire) \in Streams
    BY <1>2, HeadTailProperties DEF Download, TypeOK
  <2>2. Append(handled \o Kept, Head(wire)) = (handled \o Kept) \o <<Head(wire)>>
    BY <1>1, <2>1, AppendIsConcat, ConcatProperties
  <2>3. Append(Kept, Head(wire)) = Kept \o <<Head(wire)>>
    BY <1>1, <2>1, AppendIsConcat
  <2>4. (handled \o Kept) \o <<Head(wire)>>
          = handled \o (Kept \o <<Head(wire)>>)
    BY <1>1, <2>1, ConcatAssociative
  <2> QED
    BY <1>2, <2>2, <2>3, <2>4 DEF Download
<1>3. CASE HandOut
  <2>1. /\ Head(Kept) \in Streams
        /\ Tail(Kept) \in Seq(Streams)
        /\ Kept = <<Head(Kept)>> \o Tail(Kept)
    BY <1>1, <1>3, HeadTailProperties DEF HandOut
  <2>2. Append(handled, Head(Kept)) = handled \o <<Head(Kept)>>
    BY <1>1, <2>1, AppendIsConcat
  <2>3. (handled \o <<Head(Kept)>>) \o Tail(Kept)
          = handled \o (<<Head(Kept)>> \o Tail(Kept))
    BY <1>1, <2>1, ConcatAssociative
  <2> QED
    BY <1>3, <2>1, <2>2, <2>3 DEF HandOut
<1>4. CASE GiveUp
  BY <1>4 DEF GiveUp
<1>5. CASE OnTheWire
  <2>1. UNCHANGED <<Kept, downloaded, handled, opc>>
    BY <1>5, Zenon DEF OnTheWire
  <2> QED
    BY <2>1
<1>6. CASE MovesNothing
  BY <1>6 DEF MovesNothing
<1> QED
  BY <1>2, <1>3, <1>4, <1>5, <1>6, KeptSteps DEF KeptStep

-----------------------------------------------------------------------------
LEMMA InitIInv == Init => IInv
<1> SUFFICES ASSUME Init PROVE IInv
  OBVIOUS
<1>1. <<>> \in Seq(Streams) /\ <<>> \o <<>> = <<>>
  BY EmptySeq, ConcatEmptySeq
<1>2. conn \in 0 .. MaxConn
  BY ConstantsAssumption DEF Init
<1>3. TypeOK
  BY <1>1, <1>2 DEF Init, TypeOK
<1>4. MutexHeld /\ HeldStill /\ Owned
  BY DEF Init, MutexHeld, HeldStill, Owned
<1>5. OnceInOrder
  BY <1>1 DEF Init, OnceInOrder, Kept, InHand
<1> QED
  BY <1>3, <1>4, <1>5 DEF IInv

\* The inductive invariant of the queue.
THEOREM Invariance == Spec => []IInv
<1>1. IInv /\ [Next]_vars => IInv'
  BY TypeStep, MutexStep, HeldStep, OwnedStep, OnceStep DEF IInv
<1> QED
  BY InitIInv, <1>1, PTL DEF Spec

\* The types.
THEOREM TypeCorrect == Spec => []TypeOK
<1>1. IInv => TypeOK
  BY DEF IInv
<1> QED
  BY Invariance, <1>1, PTL

\* What the owner handles stays the head of the list while it handles it.
THEOREM HandledIsHead == Spec => []HeldStill
<1>1. IInv => HeldStill
  BY DEF IInv
<1> QED
  BY Invariance, <1>1, PTL

\* Everything downloaded is handled once and in order.
THEOREM HandledOnce == Spec => []OnceInOrder
<1>1. IInv => OnceInOrder
  BY DEF IInv
<1> QED
  BY Invariance, <1>1, PTL

\* The queue with its thread, its mutex and its restarts implements the Inbox.
THEOREM Refinement == Spec => InboxSpec
<1> USE DEF InboxView!vars
<1>1. Init => InboxView!Init
  <2>1. <<>> \o <<>> = <<>>
    BY EmptySeq, ConcatEmptySeq
  <2> QED
    BY <2>1 DEF Init, InboxView!Init, Kept, InHand
<1>2. IInv /\ [Next]_vars => [InboxView!Next]_(InboxView!vars)
  <2> SUFFICES ASSUME IInv, [Next]_vars
               PROVE  [InboxView!Next]_(InboxView!vars)
    OBVIOUS
  <2>1. CASE Download
    BY <2>1 DEF Download, InboxView!Next, InboxView!ComeIn
  <2>2. CASE HandOut
    BY <2>2 DEF HandOut, InboxView!Next, InboxView!HandOut
  <2>3. CASE GiveUp
    BY <2>3 DEF GiveUp, InboxView!Next, InboxView!GiveUp
  <2>4. CASE OnTheWire
    BY <2>4 DEF OnTheWire, InboxView!Next, InboxView!Send, InboxView!CutOff
  <2>5. CASE MovesNothing
    BY <2>5 DEF MovesNothing
  <2> QED
    BY <2>1, <2>2, <2>3, <2>4, <2>5, KeptSteps DEF KeptStep, IInv
<1> QED
  BY <1>1, <1>2, Invariance, PTL DEF Spec, InboxSpec, InboxView!Spec
=============================================================================
