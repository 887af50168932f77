----------------------------- MODULE Node_proofs -----------------------------
(***************************************************************************)
(* Theorems about the node: its updates (Update), the streams of its       *)
(* scripts (LuaStream), its jobs (NodeJobs).  The three specifications do  *)
(* not share a variable; each part speaks of one of them.                  *)
(***************************************************************************)
EXTENDS Update, NodeJobs, LuaStream, SequenceTheorems, WellFoundedInduction, TLAPS

-----------------------------------------------------------------------------
(* Update.                                                                 *)

Known == Binaries \cup Forced \cup {First}

-----------------------------------------------------------------------------
(* Binaries and brands.                                                    *)

LEMMA ImageFields ==
  ASSUME NEW b \in Known, NEW i
  PROVE  /\ Image(b, i) = [a \in Attributes |->
              IF a = "IDENTITY" THEN i ELSE IF a = "AUTHTOKEN" THEN Token ELSE b[a]]
         /\ Image(b, i).IDENTITY = i
         /\ Image(b, i).AUTHTOKEN = Token
         /\ Image(b, i).REVISION = b.REVISION
<1> DEFINE values == [IDENTITY |-> i, AUTHTOKEN |-> Token]
<1>1. DOMAIN b = Attributes
  BY ConstantsAssumption DEF Known
<1>2. DOMAIN values = {"IDENTITY", "AUTHTOKEN"}
  OBVIOUS
<1>3. Image(b, i) = [a \in Attributes |->
        IF a = "IDENTITY" THEN i ELSE IF a = "AUTHTOKEN" THEN Token ELSE b[a]]
  BY <1>1, <1>2 DEF Image, Branded
<1> QED BY <1>3 DEF Attributes

\* What Brand makes of a binary is that binary with the two brands set.
LEMMA BrandIsImage ==
  ASSUME NEW b \in Known, NEW c, c.ID \in Identities, c.AuthToken = Token,
         BrandFor(c, b) # None
  PROVE  BrandFor(c, b) \in Images /\ BrandFor(c, b) = Image(b, c.ID)
<1>1. BrandFor(c, b) = Image(b, c.ID)
  BY DEF BrandFor, Brand, Image
<1> QED BY <1>1 DEF Images, Known

\* A name made up changes nothing else.
LEMMA IdentifyIsImage ==
  ASSUME NEW b \in Images, NEW n \in 1..MaxStarts
  PROVE  /\ Identify(b, n) \in Images
         /\ Identify(b, n).REVISION = b.REVISION
         /\ b.IDENTITY \in {Unset, Identify(b, n).IDENTITY}
<1>1. PICK k \in Known, i \in Identities : b = Image(k, i)
  BY DEF Images, Known
<1>2. CASE b.IDENTITY # Unset
  BY <1>2 DEF Identify
<1>3. CASE b.IDENTITY = Unset
  <2>1. [Image(k, i) EXCEPT !.IDENTITY = n] = Image(k, n)
    <3>1. Image(k, i) = [a \in Attributes |->
            IF a = "IDENTITY" THEN i ELSE IF a = "AUTHTOKEN" THEN Token ELSE k[a]]
      BY ImageFields
    <3>2. Image(k, n) = [a \in Attributes |->
            IF a = "IDENTITY" THEN n ELSE IF a = "AUTHTOKEN" THEN Token ELSE k[a]]
      BY ImageFields
    <3> QED BY <3>1, <3>2
  <2>2. Image(k, n) \in Images
    BY DEF Images, Known, Identities
  <2> QED BY <1>1, <1>3, <2>1, <2>2, ImageFields DEF Identify
<1> QED BY <1>2, <1>3

LEMMA FirstIsImage == First \in Images
<1>1. First = Image(First, First.IDENTITY)
  BY ConstantsAssumption, ImageFields DEF Known, Attributes
<1> QED BY <1>1 DEF Images, Identities

-----------------------------------------------------------------------------
(* The invariant.                                                          *)

\* The messages there are, and the orders that fit the process: for its
\* identity, and not to what it runs unless the administrator says so.
Accepted == [op |-> "accepted"]
Orders == {[op |-> "other"]} \cup {Order(b, forced) : b \in Images, forced \in BOOLEAN}
Fits(q) ==
  q.op = "update" =>
    /\ q.binary.IDENTITY = running.IDENTITY
    /\ ~q.forced => q.binary.REVISION # running.REVISION
Fitting == {q \in Orders : Fits(q)}

\* What the node says of itself, which is what it runs, and how it takes leave.
Reports == {[op |-> "updated", revision |-> b.REVISION] : b \in Images} \cup {[op |-> "failed"]}
Truths == {q \in Reports : q.op = "updated" => q.revision = running.REVISION}
Deliveries == Reports \cup {[op |-> "disconnect"]}

BoundsInv ==
  /\ server \in BOOLEAN /\ fresh \in BOOLEAN /\ dropped \in BOOLEAN
  /\ starts \in 0..MaxStarts /\ admin \in 0..MaxAdmin /\ faults \in 0..MaxFaults

\* The table holds what was provided.
TableInv ==
  \A p \in DOMAIN platformbinaries :
    /\ platformbinaries[p].Binary \in Binaries
    /\ platformbinaries[p].Revision = platformbinaries[p].Binary.REVISION

\* What is on the disk, by how far the update has come.
DiskInv ==
  /\ own \in Images \cup {Torn} /\ temp \in Images \cup {Torn, None}
  /\ running \in Images \cup {None} /\ (running = None <=> pc = "off")
  /\ own = Torn => pc \in {"copying", "copied", "off"} /\ temp \in Images
  /\ pc \in {"stage1", "copying", "copied"} => temp = running
  /\ pc = "copying" => own = Torn
  /\ pc = "copied" => own \in {temp, Torn}
  /\ pc = "stage2" => own = running
  /\ pc = "written" => temp = Torn \/ (temp \in Images /\ temp.IDENTITY = running.IDENTITY)
  /\ RunsWhatStarts

\* The node's queues; during an update its order is at the head.
QueueInv ==
  /\ IF pc = "off" THEN rq = <<>> /\ wq = <<>>
     ELSE rq \in Seq(Fitting) /\ wq \in Seq(Truths)
  /\ pc \in {"handling", "murdered", "closed", "written", "retry"}
       => rq # <<>> /\ Head(rq).op = "update"
  /\ queues \in {"off", "on", "error"}
  /\ queues # "off" => pc \in {"main", "handling", "returned"}

\* Only a process that can be asked again has a connection, and what the server
\* has of it and sends to it fits it; the answer to the login comes first.
LinkInv ==
  /\ link \in {"none", "asked", "up", "broken"}
  /\ pc \in {"off", "closed", "written", "stage1", "copying", "copied", "stage2"}
       => link = "none"
  /\ link = "asked" => pc \in Establishing
  /\ asking # None => link = "asked" /\ asking = Login
ToNodeInv ==
  /\ link # "up" => toNode = <<>>
  /\ link = "up" /\ pc \notin Establishing => toNode \in Seq(Fitting)
  /\ link = "up" /\ pc \in Establishing
       => /\ toNode \in Seq(Fitting \cup {Accepted}) /\ toNode # <<>>
          /\ Tail(toNode) \in Seq(Fitting)
ClientInv ==
  link = "up" =>
    client = Login /\ nodeinfo = running.REVISION /\ toServer \in Seq(Truths)
NetInv ==
  /\ LinkInv /\ ToNodeInv /\ ClientInv
  /\ toServer \in Seq(Deliveries)

Pcs == Establishing \cup
  {"off", "main", "handling", "murdered", "closed", "written", "returned", "stage1",
   "copying", "copied", "stage2"}

Inv == pc \in Pcs /\ BoundsInv /\ TableInv /\ DiskInv /\ QueueInv /\ NetInv

-----------------------------------------------------------------------------
(* The steps, and the disk.                                                *)

\* Steps that leave the node's process, its queues and its disk alone.
Elsewhere ==
  \/ \E b \in Binaries : ProvideUpdate(b)
  \/ \E p \in DOMAIN platformbinaries : RemoveUpdate(p)
  \/ \E b \in Forced : ForceUpdate(b)
  \/ OtherOrder
  \/ AcceptClient \/ RefuseClient \/ HandleReport \/ HandleDisconnect \/ ServerDrops
  \/ ServerStarts \/ ServerCrashes \/ LinkBreaks
  \/ EstablishAsks \/ EstablishFails

LEMMA ElsewhereKeeps ==
  ASSUME Elsewhere
  PROVE  UNCHANGED <<pc, own, temp, running, queues, rq, wq>>
BY DEF Elsewhere, ProvideUpdate, RemoveUpdate, ForceUpdate, OtherOrder, AdminActs, AcceptClient,
       RefuseClient, HandleReport, HandleDisconnect, ReceiveFrom, ServerDrops, ServerStarts,
       ServerCrashes, LinkBreaks, EstablishAsks, EstablishFails, memoryVars, diskVars

\* A name that is None or Torn is no binary.
LEMMA NoImage == None \notin Images /\ Torn \notin Images /\ None # Torn
BY ConstantsAssumption

LEMMA DiskSteps ==
  ASSUME Inv, Next
  PROVE  DiskInv' /\ pc' \in Pcs
<1> USE DEF Inv, DiskInv, RunsWhatStarts, Whole, Pcs, Establishing
<1> USE NoImage
<1>1. CASE Elsewhere
  BY <1>1, ElsewhereKeeps
<1>2. CASE Download \/ Upload \/ QueueError
  BY <1>2 DEF Download, Upload, QueueError, QueueStep, diskVars
<1>3. CASE Begin \/ Reconnect \/ Reconnected \/ HandleOther \/ HandleUpdate
  BY <1>3 DEF Begin, Reconnect, Reconnected, HandleOther, HandleUpdate, Established, diskVars,
              memoryVars
<1>4. CASE MurderAllThreads \/ Disconnect \/ ReturnFailed \/ ReleaseAgain
  BY <1>4 DEF MurderAllThreads, Disconnect, ReturnFailed, ReleaseAgain, Established, diskVars,
              memoryVars
<1>5. CASE WriteTemp
  <2>1. Head(rq) \in Fitting /\ Head(rq).op = "update"
    BY <1>5 DEF WriteTemp, QueueInv
  <2>2. Head(rq).binary \in Images /\ Head(rq).binary.IDENTITY = running.IDENTITY
    BY <2>1 DEF Fitting, Fits, Orders, Order
  <2> QED BY <1>5, <2>2 DEF WriteTemp, memoryVars
<1>6. CASE ExecTemp
  BY <1>6 DEF ExecTemp, Executes, Ends, diskVars, memoryVars
<1>7. CASE CopyBegins \/ CopyEnds
  BY <1>7 DEF CopyBegins, CopyEnds, Ends, memoryVars
<1>8. CASE ExecOwn
  BY <1>8 DEF ExecOwn, Executes, Ends, diskVars
<1>9. CASE CompleteUpdate
  BY <1>9 DEF CompleteUpdate, memoryVars
<1>10. CASE Crashes
  BY <1>10 DEF Crashes, Ends, diskVars
<1>11. CASE Starts
  <2>1. starts' \in 1..MaxStarts /\ own \in Images
    BY <1>11, ConstantsAssumption DEF Starts, BoundsInv
  <2> QED BY <1>11, <2>1, IdentifyIsImage DEF Starts, diskVars
<1> QED BY <1>1, <1>2, <1>3, <1>4, <1>5, <1>6, <1>7, <1>8, <1>9, <1>10, <1>11
        DEF Next, Node, Elsewhere

-----------------------------------------------------------------------------
(* The table and the counters.                                             *)

LEMMA TableSteps ==
  ASSUME Inv, Next
  PROVE  TableInv'
<1> USE DEF Inv, TableInv
<1>1. CASE \E b \in Binaries : ProvideUpdate(b)
  <2>1. PICK b \in Binaries : ProvideUpdate(b)
    BY <1>1
  <2>2. CASE UNCHANGED platformbinaries
    BY <2>2
  <2>3. CASE UpdatePlatformBinaryDB(b.PLATFORMSTRING, b.REVISION, b)
    <3> DEFINE p == b.PLATFORMSTRING
               entry == [Revision |-> b.REVISION, Binary |-> b]
    <3>1. CASE p \in DOMAIN platformbinaries
               /\ platformbinaries' = [platformbinaries EXCEPT ![p] = entry]
      BY <3>1
    <3>2. CASE platformbinaries' = [q \in DOMAIN platformbinaries \cup {p} |->
                 IF q = p THEN entry ELSE platformbinaries[q]]
      BY <3>2
    <3> QED BY <2>3, <3>1, <3>2 DEF UpdatePlatformBinaryDB, LookupPlatformBinaryEntry,
               UpdateExistingPlatformBinaryEntry, SaveNewPlatformBinaryEntry
  <2> QED BY <2>1, <2>2, <2>3 DEF ProvideUpdate
<1>2. CASE \E p \in DOMAIN platformbinaries : RemoveUpdate(p)
  BY <1>2 DEF RemoveUpdate, DeletePlatformBinaryEntry, Restrict
<1>3. CASE UNCHANGED platformbinaries
  BY <1>3
<1> QED BY <1>1, <1>2, <1>3
        DEF Next, Node, ForceUpdate, OtherOrder, AcceptClient, RefuseClient, HandleReport,
            HandleDisconnect, ReceiveFrom, ServerDrops, ServerStarts, ServerCrashes, LinkBreaks,
            Download, Upload, QueueError, QueueStep, NodeStep, EstablishAsks, EstablishFails,
            Established, Begin, Reconnect, Reconnected, HandleOther, HandleUpdate,
            MurderAllThreads, Disconnect, WriteTemp, ExecTemp, ReturnFailed, ReleaseAgain,
            CopyBegins, CopyEnds, ExecOwn, CompleteUpdate, Crashes, Starts, serverVars

LEMMA BoundsSteps ==
  ASSUME Inv, Next
  PROVE  BoundsInv'
<1>1. starts' \in 0..MaxStarts /\ admin' \in 0..MaxAdmin /\ faults' \in 0..MaxFaults
  <2> USE ConstantsAssumption DEF Inv, BoundsInv, Goes, Fails, bounds
  <2>1. CASE \/ \E b \in Binaries : ProvideUpdate(b)
             \/ \E p \in DOMAIN platformbinaries : RemoveUpdate(p)
             \/ \E b \in Forced : ForceUpdate(b)
             \/ OtherOrder
    <3>1. AdminActs /\ (Goes \/ Fails)
      BY <2>1 DEF ProvideUpdate, RemoveUpdate, ForceUpdate, OtherOrder
    <3> QED BY <3>1 DEF AdminActs
  <2>4. CASE \/ AcceptClient \/ RefuseClient \/ HandleReport \/ HandleDisconnect
             \/ ServerDrops \/ ServerStarts \/ ServerCrashes \/ LinkBreaks
             \/ EstablishAsks \/ EstablishFails
    BY <2>4 DEF AcceptClient, RefuseClient, HandleReport, HandleDisconnect, ReceiveFrom,
         ServerDrops, ServerStarts, ServerCrashes, LinkBreaks, EstablishAsks, EstablishFails,
         NodeStep
  <2>2. CASE Download \/ Upload \/ QueueError \/ Crashes \/ Starts
    BY <2>2 DEF Download, Upload, QueueError, QueueStep, Crashes, Starts
  <2>3. CASE Node /\ ~Elsewhere
    BY <2>3 DEF Node, Elsewhere, NodeStep, Established, Begin, Reconnect, Reconnected,
         HandleOther, HandleUpdate, MurderAllThreads, Disconnect, WriteTemp, ExecTemp,
         ReturnFailed, ReleaseAgain, CopyBegins, CopyEnds, ExecOwn, CompleteUpdate
  <2> QED BY <2>1, <2>2, <2>3, <2>4 DEF Next, Elsewhere
<1>2. server' \in BOOLEAN /\ fresh' \in BOOLEAN
  <2> USE DEF Inv, BoundsInv, serverVars
  <2>1. CASE Elsewhere
    BY <2>1 DEF Elsewhere, ProvideUpdate, RemoveUpdate, ForceUpdate, OtherOrder, ServerDies,
         AcceptClient, RefuseClient, HandleReport, HandleDisconnect, ReceiveFrom, ServerDrops,
         ServerStarts, ServerCrashes, LinkBreaks, EstablishAsks, EstablishFails, NodeStep
  <2>2. CASE Download \/ Upload \/ QueueError \/ Crashes \/ Starts
    BY <2>2 DEF Download, Upload, QueueError, QueueStep, Crashes, Starts
  <2>3. CASE Node /\ ~Elsewhere
    BY <2>3 DEF Node, Elsewhere, NodeStep, Established, Begin, Reconnect, Reconnected,
         HandleOther, HandleUpdate, MurderAllThreads, Disconnect, WriteTemp, ExecTemp,
         ReturnFailed, ReleaseAgain, CopyBegins, CopyEnds, ExecOwn, CompleteUpdate
  <2> QED BY <2>1, <2>2, <2>3 DEF Next, Elsewhere
<1>3. dropped' \in BOOLEAN
  <2> USE DEF Inv, BoundsInv
  <2>1. CASE Elsewhere
    BY <2>1 DEF Elsewhere, ProvideUpdate, RemoveUpdate, ForceUpdate, OtherOrder, AdminActs,
         AcceptClient, RefuseClient, HandleReport, HandleDisconnect, ReceiveFrom, ServerDrops,
         ServerStarts, ServerCrashes, LinkBreaks, EstablishAsks, EstablishFails
  <2>2. CASE Download \/ Upload \/ QueueError \/ Crashes \/ Starts
    BY <2>2 DEF Download, Upload, QueueError, QueueStep, Crashes, Starts
  <2>3. CASE ReleaseAgain
    BY <2>3 DEF ReleaseAgain
  <2>4. CASE Node /\ ~Elsewhere /\ ~ReleaseAgain
    BY <2>4 DEF Node, Elsewhere, Begin, Reconnect, Reconnected,
         HandleOther, HandleUpdate, MurderAllThreads, Disconnect, WriteTemp, ExecTemp,
         ReturnFailed, CopyBegins, CopyEnds, ExecOwn, CompleteUpdate
  <2> QED BY <2>1, <2>2, <2>3, <2>4 DEF Next, Elsewhere
<1> QED BY <1>1, <1>2, <1>3 DEF BoundsInv

-----------------------------------------------------------------------------
(* The queues.                                                             *)

LEMMA FittingKept == running' = running => Fitting' = Fitting /\ Truths' = Truths
BY DEF Fitting, Fits, Truths

\* The answer that Establish has waited for is in front of the orders.
LEMMA EstablishedLeaves ==
  ASSUME Inv, Established, pc \in Establishing
  PROVE  toNode' \in Seq(Fitting)
BY DEF Inv, NetInv, ToNodeInv, Established

LEMMA QueueSteps ==
  ASSUME Inv, Next
  PROVE  QueueInv'
<1> USE DEF Inv, QueueInv, Establishing
<1>1. CASE Elsewhere
  BY <1>1, ElsewhereKeeps, FittingKept
<1>2. CASE Download
  <2>1. pc \in {"main", "handling", "returned"} /\ link = "up" /\ toNode # <<>>
    BY <1>2 DEF Download, QueueStep
  <2>2. toNode \in Seq(Fitting) /\ Head(toNode) \in Fitting /\ rq \in Seq(Fitting)
    BY <2>1 DEF NetInv, ToNodeInv
  <2>3. rq' = Append(rq, Head(toNode)) /\ UNCHANGED <<pc, running, queues, wq>>
    BY <1>2 DEF Download, QueueStep
  <2>4. rq' \in Seq(Fitting) /\ rq' # <<>> /\ (rq # <<>> => Head(rq') = Head(rq))
    BY <2>2, <2>3
  <2> QED BY <2>1, <2>3, <2>4, FittingKept
<1>3. CASE Upload \/ QueueError
  <2>1. UNCHANGED <<pc, running, rq>> /\ pc \in {"main", "handling", "returned"}
    BY <1>3 DEF Upload, QueueError, QueueStep
  <2>2. wq' \in Seq(Truths)
    <3>1. wq \in Seq(Truths)
      BY <2>1
    <3>2. wq' = wq \/ (wq # <<>> /\ wq' = Tail(wq))
      BY <1>3 DEF Upload, QueueError
    <3> QED BY <3>1, <3>2, HeadTailProperties
  <2>3. queues' \in {"on", "error"}
    BY <1>3 DEF Upload, QueueError, QueueStep
  <2> QED BY <2>1, <2>2, <2>3, FittingKept
<1>4. CASE Begin
  <2>1. running \in Images
    BY <1>4 DEF Begin, DiskInv
  <2>2. [op |-> "updated", revision |-> running.REVISION] \in Truths
    BY <2>1 DEF Reports, Truths
  <2>3. wq' \in Seq(Truths)
    BY <1>4, <2>2 DEF Begin
  <2> QED BY <1>4, <2>3, FittingKept DEF Begin, Established
<1>5. CASE Reconnect \/ Reconnected \/ HandleUpdate
  BY <1>5, FittingKept DEF Reconnect, Reconnected, HandleUpdate, Established, memoryVars
<1>6. CASE HandleOther
  BY <1>6, FittingKept DEF HandleOther
<1>7. CASE MurderAllThreads
  BY <1>7, FittingKept DEF MurderAllThreads
<1>11. CASE Disconnect \/ WriteTemp
  <2>1. UNCHANGED <<running, queues, rq, wq>> /\ pc \in {"murdered", "closed"}
        /\ pc' \in {"closed", "written", "retry"}
    BY <1>11 DEF Disconnect, WriteTemp, memoryVars
  <2> QED BY <2>1, FittingKept
<1>8. CASE ExecTemp \/ CopyBegins \/ CopyEnds \/ ExecOwn \/ CompleteUpdate \/ Crashes \/ Starts
  <2>1. CASE rq' = <<>> /\ wq' = <<>> /\ queues' = "off"
             /\ pc' \in {"stage1", "stage2", "off"}
    <3>1. <<>> \in Seq(Fitting)' /\ <<>> \in Seq(Truths)'
      OBVIOUS
    <3> QED BY <2>1, <3>1
  <2>2. CASE UNCHANGED memoryVars /\ pc \notin {"off", "main", "handling", "returned"}
             /\ pc' \in {"copying", "copied", "beginUpdated"}
    BY <2>2, FittingKept DEF memoryVars
  <2>3. CASE pc = "written" /\ pc' = "retry" /\ UNCHANGED memoryVars
    BY <2>3, FittingKept DEF memoryVars
  <2>4. CASE Starts
    <3>1. rq' = <<>> /\ wq' = <<>> /\ queues' = "off" /\ pc' = "begin"
      BY <2>4 DEF Starts
    <3>2. <<>> \in Seq(Fitting)' /\ <<>> \in Seq(Truths)'
      OBVIOUS
    <3> QED BY <3>1, <3>2
  <2> QED BY <1>8, <2>1, <2>2, <2>3, <2>4
          DEF ExecTemp, CopyBegins, CopyEnds, ExecOwn, CompleteUpdate, Crashes, Ends, Executes
<1>9. CASE ReturnFailed
  <2>1. [op |-> "failed"] \in Truths
    BY DEF Truths, Reports
  <2>2. wq' \in Seq(Truths)
    BY <1>9, <2>1 DEF ReturnFailed
  <2> QED BY <1>9, <2>2, FittingKept DEF ReturnFailed, Established
<1>10. CASE ReleaseAgain
  BY <1>10, FittingKept DEF ReleaseAgain
<1> QED BY <1>1, <1>2, <1>3, <1>4, <1>5, <1>6, <1>7, <1>8, <1>9, <1>10, <1>11
        DEF Next, Node, Elsewhere

-----------------------------------------------------------------------------
(* The connection.                                                         *)

\* What the server brands for the process fits it.
LEMMA OrderFits ==
  ASSUME running \in Images, NEW b \in Known, NEW c, NEW forced \in BOOLEAN,
         c.ID = running.IDENTITY, c.AuthToken = Token, BrandFor(c, b) # None,
         forced \/ b.REVISION # running.REVISION
  PROVE  Order(BrandFor(c, b), forced) \in Fitting
<1>1. running.IDENTITY \in Identities
  BY ImageFields DEF Images, Known
<1>2. BrandFor(c, b) \in Images /\ BrandFor(c, b) = Image(b, c.ID)
  BY <1>1, BrandIsImage
<1>3. BrandFor(c, b).IDENTITY = running.IDENTITY /\ BrandFor(c, b).REVISION = b.REVISION
  BY <1>2, ImageFields
<1>4. Order(BrandFor(c, b), forced) \in Orders
  BY <1>2 DEF Orders
<1> QED BY <1>3, <1>4 DEF Fitting, Fits, Order

\* What a process logs in with.
LEMMA LoginSays ==
  ASSUME running \in Images
  PROVE  /\ Login.ID = running.IDENTITY /\ Login.AuthToken = Token
         /\ Login.NodeRevision = running.REVISION
BY ImageFields DEF Images, Known, Login

\* An order more changes nothing about what is in front.
LEMMA OrderPassedOn ==
  ASSUME Inv, NEW q \in Fitting, link = "up", toNode' = Append(toNode, q),
         UNCHANGED <<pc, running, link>>
  PROVE  ToNodeInv'
<1>1. Fitting' = Fitting
  BY FittingKept
<1>2. CASE pc \notin Establishing
  BY <1>1, <1>2 DEF Inv, NetInv, ToNodeInv, Establishing
<1>3. CASE pc \in Establishing
  <2>1. /\ toNode \in Seq(Fitting \cup {Accepted}) /\ toNode # <<>>
        /\ Tail(toNode) \in Seq(Fitting)
    BY <1>3 DEF Inv, NetInv, ToNodeInv
  <2>2. Tail(toNode') = Append(Tail(toNode), q) /\ toNode' # <<>>
        /\ toNode' \in Seq(Fitting \cup {Accepted})
    BY <2>1
  <2> QED BY <1>1, <1>3, <2>1, <2>2 DEF ToNodeInv, Accepted, Establishing
<1> QED BY <1>2, <1>3

LEMMA ToNodeSteps ==
  ASSUME Inv, Next
  PROVE  ToNodeInv'
<1> USE DEF Inv, NetInv
<1>1. CASE \E b \in Forced : ForceUpdate(b)
  <2>1. PICK b \in Forced : ForceUpdate(b)
    BY <1>1
  <2>2. UNCHANGED <<pc, running, link>> /\ client # None /\ BrandFor(client, b) # None
    BY <2>1 DEF ForceUpdate, AdminActs, memoryVars
  <2>3. CASE link = "up"
    <3>1. running \in Images
      BY <2>3 DEF LinkInv, DiskInv
    <3>2. Order(BrandFor(client, b), TRUE) \in Fitting
      BY <2>2, <2>3, <3>1, OrderFits, LoginSays DEF ClientInv, Known
    <3> QED BY <2>1, <2>2, <2>3, <3>2, OrderPassedOn DEF ForceUpdate
  <2>4. CASE link # "up"
    BY <2>1, <2>2, <2>4 DEF ForceUpdate, ToNodeInv
  <2> QED BY <2>3, <2>4
<1>2. CASE OtherOrder
  <2>1. UNCHANGED <<pc, running, link>>
    BY <1>2 DEF OtherOrder, AdminActs, memoryVars
  <2>2. [op |-> "other"] \in Fitting
    BY DEF Fitting, Fits, Orders
  <2>3. CASE link = "up"
    BY <1>2, <2>1, <2>2, <2>3, OrderPassedOn DEF OtherOrder
  <2>4. CASE link # "up"
    BY <1>2, <2>1, <2>4 DEF OtherOrder, ToNodeInv
  <2> QED BY <2>3, <2>4
<1>3. CASE AcceptClient
  <2>1. /\ asking # None /\ asking = Login /\ link = "asked" /\ pc \in Establishing
        /\ asking.AuthToken = Token /\ UNCHANGED <<pc, running>>
    BY <1>3 DEF AcceptClient, LinkInv, memoryVars
  <2>2. Fitting' = Fitting
    BY <2>1, FittingKept
  <2>3. CASE link' = "broken" /\ UNCHANGED toNode
    BY <2>1, <2>3 DEF ToNodeInv
  <2>4. CASE link' = "up" /\ toNode' = <<Accepted>>
    <3>1. Tail(toNode') = <<>> /\ toNode' \in Seq(Fitting \cup {Accepted}) /\ toNode' # <<>>
      BY <2>4
    <3> QED BY <2>1, <2>2, <2>4, <3>1 DEF ToNodeInv, Accepted, Establishing
  <2>5. CASE link' = "up" /\ toNode' = <<Accepted>> \o HandleUpdatesForNode(asking)
    <3>1. HandleUpdatesForNode(asking) \in Seq(Fitting)
      <4> DEFINE row == LookupPlatformBinaryEntry(asking.PlatformString)
      <4>1. \/ HandleUpdatesForNode(asking) = <<>>
            \/ /\ NodeBinaryNeedsUpdate(asking) /\ BrandFor(asking, row.Binary) # None
               /\ HandleUpdatesForNode(asking) = <<Order(BrandFor(asking, row.Binary), FALSE)>>
        BY DEF HandleUpdatesForNode
      <4>2. CASE NodeBinaryNeedsUpdate(asking) /\ BrandFor(asking, row.Binary) # None
        <5>1. row # None /\ row.Revision # asking.NodeRevision
          BY <4>2 DEF NodeBinaryNeedsUpdate
        <5>2. row.Binary \in Binaries /\ row.Revision = row.Binary.REVISION
          BY <5>1 DEF LookupPlatformBinaryEntry, TableInv
        <5>3. asking.ID = running.IDENTITY /\ asking.NodeRevision = running.REVISION
          BY <2>1 DEF Login
        <5>4. running \in Images
          BY <2>1 DEF DiskInv, Establishing
        <5>5. Order(BrandFor(asking, row.Binary), FALSE) \in Fitting
          BY <2>1, <4>2, <5>1, <5>2, <5>3, <5>4, OrderFits DEF Known
        <5>6. PICK q \in Fitting : q = Order(BrandFor(asking, row.Binary), FALSE)
          BY <5>5
        <5>7. HandleUpdatesForNode(asking) \in {<<>>, <<q>>}
          BY <4>1, <5>6
        <5>8. <<>> \in Seq(Fitting) /\ <<q>> \in Seq(Fitting)
          OBVIOUS
        <5> QED BY <5>7, <5>8
      <4>3. <<>> \in Seq(Fitting)
        OBVIOUS
      <4> HIDE DEF row
      <4> QED BY <4>1, <4>2, <4>3
    <3>2. /\ Tail(toNode') = HandleUpdatesForNode(asking) /\ toNode' # <<>>
          /\ toNode' \in Seq(Fitting \cup {Accepted})
      BY <2>5, <3>1
    <3> QED BY <2>1, <2>2, <2>5, <3>1, <3>2 DEF ToNodeInv, Accepted, Establishing
  <2> QED BY <1>3, <2>3, <2>4, <2>5 DEF AcceptClient, Accepted
<1>4. CASE Download
  <2>1. /\ pc \notin Establishing /\ link = "up" /\ toNode # <<>> /\ toNode' = Tail(toNode)
        /\ UNCHANGED <<pc, running, link>>
    BY <1>4 DEF Download, QueueStep, QueueInv, Establishing
  <2> QED BY <2>1, FittingKept DEF ToNodeInv, Establishing
<1>5. CASE Begin \/ Reconnected \/ ReturnFailed
  <2>1. Established /\ pc \in Establishing /\ pc' \notin Establishing'
    BY <1>5 DEF Begin, Reconnected, ReturnFailed, Establishing
  <2>2. toNode' \in Seq(Fitting) /\ Fitting' = Fitting /\ link' = "up"
    BY <2>1, EstablishedLeaves, FittingKept DEF Established
  <2> QED BY <2>1, <2>2 DEF ToNodeInv
<1>6. CASE link' # "up" /\ toNode' = <<>>
  BY <1>6 DEF ToNodeInv
<1>7. CASE UNCHANGED <<link, toNode, running>> /\ (pc \in Establishing <=> pc' \in Establishing)
  BY <1>7, FittingKept DEF ToNodeInv, Establishing
<1>8. CASE link # "up" /\ UNCHANGED <<link, toNode>>
  BY <1>8 DEF ToNodeInv
<1>9. CASE \/ \E b \in Binaries : ProvideUpdate(b)
           \/ \E p \in DOMAIN platformbinaries : RemoveUpdate(p)
           \/ HandleReport \/ HandleDisconnect \/ ServerDrops \/ ServerStarts
           \/ Upload \/ QueueError \/ HandleOther \/ HandleUpdate \/ MurderAllThreads
           \/ ReleaseAgain
  <2>1. UNCHANGED <<link, toNode, running>>
    BY <1>9 DEF ProvideUpdate, RemoveUpdate, AdminActs, HandleReport, HandleDisconnect,
         ReceiveFrom, ServerDrops, ServerStarts, Upload, QueueError, QueueStep, HandleOther,
         HandleUpdate, MurderAllThreads, ReleaseAgain, netVars, memoryVars
  <2>2. pc \in Establishing <=> pc' \in Establishing
    BY <1>9 DEF ProvideUpdate, RemoveUpdate, AdminActs, HandleReport, HandleDisconnect,
         ReceiveFrom, ServerDrops, ServerStarts, Upload, QueueError, QueueStep, HandleOther,
         HandleUpdate, MurderAllThreads, ReleaseAgain, Establishing
  <2> QED BY <1>7, <2>1, <2>2
<1>10. CASE \/ RefuseClient \/ ServerCrashes \/ LinkBreaks \/ EstablishAsks \/ EstablishFails
            \/ Reconnect \/ Disconnect \/ Crashes
  <2>1. link' # "up" /\ toNode' = <<>>
    BY <1>10 DEF RefuseClient, ServerCrashes, LinkBreaks, EstablishAsks, EstablishFails,
         Reconnect, Disconnect, Crashes, LinkInv, ToNodeInv
  <2> QED BY <1>6, <2>1
<1>11. CASE \/ WriteTemp \/ ExecTemp \/ CopyBegins \/ CopyEnds \/ ExecOwn \/ CompleteUpdate
            \/ Starts
  <2>1. link # "up" /\ UNCHANGED <<link, toNode>>
    BY <1>11 DEF WriteTemp, ExecTemp, CopyBegins, CopyEnds, ExecOwn, CompleteUpdate, Starts,
         LinkInv, netVars
  <2> QED BY <1>8, <2>1
<1> QED BY <1>1, <1>2, <1>3, <1>4, <1>5, <1>9, <1>10, <1>11 DEF Next, Node

LEMMA LinkSteps ==
  ASSUME Inv, Next
  PROVE  LinkInv'
<1> USE DEF Inv, NetInv, LinkInv, Establishing
<1>1. CASE UNCHANGED <<link, asking, pc, running>>
  BY <1>1 DEF Login
<1>2. CASE \/ \E b \in Binaries : ProvideUpdate(b)
           \/ \E p \in DOMAIN platformbinaries : RemoveUpdate(p)
           \/ \E b \in Forced : ForceUpdate(b)
           \/ OtherOrder \/ HandleReport \/ HandleDisconnect \/ ServerDrops \/ ServerStarts
           \/ Download \/ Upload \/ QueueError \/ HandleOther
  <2>1. UNCHANGED <<link, asking, pc, running>>
    BY <1>2 DEF ProvideUpdate, RemoveUpdate, ForceUpdate, OtherOrder, AdminActs, HandleReport,
         HandleDisconnect, ReceiveFrom, ServerDrops, ServerStarts, Download, Upload, QueueError,
         QueueStep, HandleOther, netVars, memoryVars
  <2> QED BY <1>1, <2>1
<1>3. CASE AcceptClient \/ RefuseClient \/ LinkBreaks \/ ServerCrashes
  <2>1. UNCHANGED pc
    BY <1>3 DEF AcceptClient, RefuseClient, LinkBreaks, ServerCrashes
  <2>2. /\ asking' = None /\ link' \in {"none", "up", "broken"}
        /\ link = "none" => link' = "none"
    BY <1>3 DEF AcceptClient, RefuseClient, LinkBreaks, ServerCrashes
  <2> QED BY <2>1, <2>2
<1>4. CASE EstablishAsks
  BY <1>4 DEF EstablishAsks, Login, memoryVars
<1>5. CASE EstablishFails
  BY <1>5 DEF EstablishFails
<1>6. CASE Begin \/ Reconnected \/ ReturnFailed
  BY <1>6 DEF Begin, Reconnected, ReturnFailed, Established
<1>7. CASE Reconnect \/ Disconnect
  BY <1>7 DEF Reconnect, Disconnect
<1>8. CASE HandleUpdate \/ MurderAllThreads \/ ReleaseAgain
  BY <1>8 DEF HandleUpdate, MurderAllThreads, ReleaseAgain, netVars
<1>9. CASE \/ WriteTemp \/ ExecTemp \/ CopyBegins \/ CopyEnds \/ ExecOwn \/ CompleteUpdate
           \/ Starts
  <2>1. link = "none" /\ UNCHANGED <<link, asking>>
    BY <1>9 DEF WriteTemp, ExecTemp, CopyBegins, CopyEnds, ExecOwn, CompleteUpdate, Starts,
         netVars
  <2> QED BY <2>1
<1>10. CASE Crashes
  BY <1>10 DEF Crashes
<1> QED BY <1>2, <1>3, <1>4, <1>5, <1>6, <1>7, <1>8, <1>9, <1>10 DEF Next, Node

\* What the node sends, and what it has sent.
LEMMA ToServerSteps ==
  ASSUME Inv, Next
  PROVE  /\ toServer' \in Seq(Deliveries)
         /\ link' = "up" => toServer' \in Seq(Truths)'
<1>1. toServer \in Seq(Deliveries) /\ (link = "up" => toServer \in Seq(Truths))
  BY DEF Inv, NetInv, ClientInv
<1>2. CASE Upload
  <2>1. /\ wq # <<>> /\ toServer' = Append(toServer, Head(wq)) /\ link = "up"
        /\ UNCHANGED <<link, running>> /\ pc # "off"
    BY <1>2 DEF Upload, QueueStep, Inv, QueueInv
  <2>2. wq \in Seq(Truths)
    BY <2>1 DEF Inv, QueueInv
  <2>3. Head(wq) \in Truths
    BY <2>1, <2>2, HeadTailProperties
  <2>4. Head(wq) \in Deliveries
    BY <2>3 DEF Truths, Deliveries
  <2> QED BY <1>1, <2>1, <2>3, <2>4, FittingKept
<1>3. CASE Disconnect
  <2>1. [op |-> "disconnect"] \in Deliveries
    BY DEF Deliveries
  <2> QED BY <1>1, <1>3, <2>1 DEF Disconnect
<1>4. CASE HandleReport
  <2>1. toServer # <<>> /\ toServer' = Tail(toServer) /\ UNCHANGED <<link, running>>
    BY <1>4 DEF HandleReport, ReceiveFrom, memoryVars
  <2> QED BY <1>1, <2>1, HeadTailProperties, FittingKept
<1>5. CASE toServer' = <<>>
  <2>1. <<>> \in Seq(Deliveries) /\ <<>> \in Seq(Truths)'
    BY EmptySeq
  <2> QED BY <1>5, <2>1
<1>6. CASE UNCHANGED <<toServer, running>> /\ (link' = "up" => link = "up")
  BY <1>1, <1>6, FittingKept
<1>7. CASE UNCHANGED toServer /\ link' # "up"
  BY <1>1, <1>7
<1>8. CASE \/ \E b \in Binaries : ProvideUpdate(b)
           \/ \E p \in DOMAIN platformbinaries : RemoveUpdate(p)
           \/ \E b \in Forced : ForceUpdate(b)
           \/ OtherOrder \/ RefuseClient \/ ServerStarts \/ LinkBreaks \/ Download \/ QueueError
  <2>1. UNCHANGED <<toServer, running>> /\ (link' = "up" => link = "up")
    BY <1>8 DEF ProvideUpdate, RemoveUpdate, ForceUpdate, OtherOrder, AdminActs, RefuseClient,
         ServerStarts, LinkBreaks, Download, QueueError, QueueStep, netVars, memoryVars
  <2> QED BY <1>6, <2>1
<1>9. CASE AcceptClient \/ HandleDisconnect \/ ServerDrops \/ ServerCrashes
  BY <1>5, <1>7, <1>9 DEF AcceptClient, HandleDisconnect, ServerDrops, ServerCrashes, ServerDies
<1>10. CASE \/ EstablishAsks \/ EstablishFails \/ Begin \/ Reconnect \/ Reconnected
            \/ HandleOther \/ HandleUpdate \/ MurderAllThreads \/ ReturnFailed \/ ReleaseAgain
  <2>1. UNCHANGED <<toServer, running>> /\ (link' = "up" => link = "up")
    BY <1>10 DEF EstablishAsks, EstablishFails, Begin, Reconnect, Reconnected, Established,
         HandleOther, HandleUpdate, MurderAllThreads, ReturnFailed, ReleaseAgain,
         netVars, memoryVars
  <2> QED BY <1>6, <2>1
<1>11. CASE \/ WriteTemp \/ ExecTemp \/ CopyBegins \/ CopyEnds \/ ExecOwn \/ CompleteUpdate
            \/ Crashes \/ Starts
  <2>1. UNCHANGED toServer /\ link' # "up"
    BY <1>11 DEF WriteTemp, ExecTemp, CopyBegins, CopyEnds, ExecOwn, CompleteUpdate, Crashes,
         Starts, LinkInv, Inv, NetInv, netVars
  <2> QED BY <1>7, <2>1
<1> QED BY <1>2, <1>3, <1>4, <1>8, <1>9, <1>10, <1>11 DEF Next, Node

LEMMA ClientSteps ==
  ASSUME Inv, Next
  PROVE  ClientInv'
<1> USE DEF Inv, NetInv, ClientInv
<1>1. link' = "up" => toServer' \in Seq(Truths)'
  BY ToServerSteps
<1>2. CASE UNCHANGED <<client, nodeinfo, running>> /\ (link' = "up" => link = "up")
  BY <1>1, <1>2 DEF Login
<1>3. CASE link' # "up"
  BY <1>3
<1>4. CASE \/ \E b \in Binaries : ProvideUpdate(b)
           \/ \E p \in DOMAIN platformbinaries : RemoveUpdate(p)
           \/ \E b \in Forced : ForceUpdate(b)
           \/ OtherOrder
  <2>1. UNCHANGED <<client, nodeinfo, running, link>>
    BY <1>4 DEF ProvideUpdate, RemoveUpdate, ForceUpdate, OtherOrder, AdminActs, serverVars,
         memoryVars
  <2> QED BY <1>2, <2>1
<1>5. CASE AcceptClient
  <2>1. asking = Login /\ UNCHANGED running
    BY <1>5 DEF AcceptClient, LinkInv, memoryVars
  <2>2. CASE client' = asking /\ nodeinfo' = asking.NodeRevision
    BY <1>1, <2>1, <2>2 DEF Login
  <2> QED BY <1>3, <1>5, <2>2 DEF AcceptClient
<1>6. CASE HandleReport
  <2>1. UNCHANGED <<link, running>> /\ toServer # <<>>
    BY <1>6 DEF HandleReport, ReceiveFrom, memoryVars
  <2>2. CASE link # "up"
    BY <1>3, <2>1, <2>2
  <2>3. CASE link = "up" /\ UNCHANGED <<client, nodeinfo>>
    BY <1>2, <2>1, <2>3
  <2>4. CASE /\ link = "up" /\ Head(toServer).op = "updated"
             /\ client' = [client EXCEPT !.NodeRevision = Head(toServer).revision]
             /\ nodeinfo' = Head(toServer).revision
    <3>1. Head(toServer) \in Truths
      BY <2>1, <2>4, HeadTailProperties
    <3>2. Head(toServer).revision = running.REVISION
      BY <2>4, <3>1 DEF Truths
    <3>3. client = Login
      BY <2>4
    <3>4. client' = Login
      BY <2>4, <3>2, <3>3 DEF Login
    <3> QED BY <1>1, <2>1, <2>4, <3>2, <3>4 DEF Login
  <2> QED BY <1>6, <2>2, <2>3, <2>4 DEF HandleReport, ReceiveFrom
<1>7. CASE HandleDisconnect
  <2>1. toServer # <<>> /\ Head(toServer).op = "disconnect" /\ UNCHANGED link
    BY <1>7 DEF HandleDisconnect, ReceiveFrom
  <2>2. CASE link = "up"
    <3>1. Head(toServer) \in Truths
      BY <2>1, <2>2, HeadTailProperties
    <3> QED BY <2>1, <3>1 DEF Truths, Reports
  <2> QED BY <1>3, <2>1, <2>2
<1>8. CASE \/ RefuseClient \/ ServerStarts \/ LinkBreaks \/ Download \/ Upload \/ QueueError
           \/ ServerDrops \/ ServerCrashes
  <2>1. \/ UNCHANGED <<client, nodeinfo, running>> /\ (link' = "up" => link = "up")
        \/ link' # "up"
    BY <1>8 DEF RefuseClient, ServerStarts, LinkBreaks, Download, Upload, QueueError, QueueStep,
         ServerDrops, ServerCrashes, serverVars, netVars, memoryVars
  <2> QED BY <1>2, <1>3, <2>1
<1>9. CASE \/ EstablishAsks \/ EstablishFails \/ Begin \/ Reconnect \/ Reconnected
           \/ HandleOther \/ HandleUpdate \/ MurderAllThreads \/ Disconnect \/ ReturnFailed
           \/ ReleaseAgain
  <2>1. UNCHANGED <<client, nodeinfo>>
    BY <1>9 DEF EstablishAsks, EstablishFails, Begin, Reconnect, Reconnected, Established,
         HandleOther, HandleUpdate, MurderAllThreads, Disconnect, ReturnFailed, ReleaseAgain,
         NodeStep, serverVars
  <2>2. UNCHANGED running /\ (link' = "up" => link = "up")
    BY <1>9 DEF EstablishAsks, EstablishFails, Begin, Reconnect, Reconnected, Established,
         HandleOther, HandleUpdate, MurderAllThreads, Disconnect, ReturnFailed, ReleaseAgain,
         netVars, memoryVars
  <2> QED BY <1>2, <2>1, <2>2
<1>10. CASE \/ WriteTemp \/ ExecTemp \/ CopyBegins \/ CopyEnds \/ ExecOwn \/ CompleteUpdate
            \/ Crashes \/ Starts
  <2>1. link' # "up"
    BY <1>10 DEF WriteTemp, ExecTemp, CopyBegins, CopyEnds, ExecOwn, CompleteUpdate, Crashes,
         Starts, LinkInv, netVars
  <2> QED BY <1>3, <2>1
<1> QED BY <1>4, <1>5, <1>6, <1>7, <1>8, <1>9, <1>10 DEF Next, Node

-----------------------------------------------------------------------------
(* Results.                                                                *)

LEMMA InitInv == Init => Inv
<1> SUFFICES ASSUME Init PROVE Inv
  OBVIOUS
<1>1. BoundsInv
  <2>1. server = TRUE /\ fresh = FALSE /\ dropped = FALSE
    BY DEF Init
  <2>2. starts \in 0..MaxStarts /\ admin \in 0..MaxAdmin /\ faults \in 0..MaxFaults
    BY ConstantsAssumption DEF Init
  <2> QED BY <2>1, <2>2 DEF BoundsInv
<1>5. TableInv
  <2>1. DOMAIN platformbinaries = {}
    BY DEF Init
  <2> QED BY <2>1 DEF TableInv
<1>2. DiskInv /\ pc \in Pcs
  BY FirstIsImage, NoImage DEF Init, DiskInv, RunsWhatStarts, Establishing, Pcs
<1>3. QueueInv
  BY DEF Init, QueueInv
<1>4. NetInv
  BY DEF Init, NetInv, LinkInv, ToNodeInv, ClientInv
<1> QED BY <1>1, <1>2, <1>3, <1>4, <1>5 DEF Inv

LEMMA StepKeeps == Inv /\ [Next]_vars => Inv'
<1> SUFFICES ASSUME Inv, [Next]_vars PROVE Inv'
  OBVIOUS
<1>1. CASE Next
  BY <1>1, BoundsSteps, TableSteps, DiskSteps, QueueSteps, LinkSteps, ToNodeSteps, ClientSteps,
     ToServerSteps DEF Inv, NetInv
<1>2. CASE UNCHANGED vars
  <2>1. UNCHANGED <<server, fresh, dropped, starts, admin, faults, platformbinaries, pc, own, temp,
                    running, queues, rq, wq, link, asking, toNode, toServer, client, nodeinfo>>
    BY <1>2 DEF vars, serverVars, netVars, diskVars, memoryVars, bounds
  <2>2. BoundsInv' /\ TableInv' /\ DiskInv' /\ pc' \in Pcs
    BY <2>1 DEF Inv, BoundsInv, TableInv, DiskInv, RunsWhatStarts, Whole
  <2>3. QueueInv'
    BY <2>1, FittingKept DEF Inv, QueueInv
  <2>4. NetInv'
    BY <2>1, FittingKept DEF Inv, NetInv, LinkInv, ToNodeInv, ClientInv, Login
  <2> QED BY <2>2, <2>3, <2>4 DEF Inv
<1> QED BY <1>1, <1>2

LEMMA InvAlways == Spec => []Inv
BY InitInv, StepKeeps, PTL DEF Spec

\* What is under way is an order that fits, or the answer to a login.
LEMMA OrdersOnly ==
  ASSUME Inv
  PROVE  rq \in Seq(Fitting) /\ toNode \in Seq(Fitting \cup {Accepted})
<1>1. <<>> \in Seq(Fitting) /\ <<>> \in Seq(Fitting \cup {Accepted})
  BY EmptySeq
<1>2. Seq(Fitting) \subseteq Seq(Fitting \cup {Accepted})
  BY SeqMonotonic
<1>3. rq = <<>> \/ rq \in Seq(Fitting)
  BY DEF Inv, QueueInv
<1>4. toNode = <<>> \/ toNode \in Seq(Fitting) \/ toNode \in Seq(Fitting \cup {Accepted})
  BY DEF Inv, NetInv, ToNodeInv
<1> QED BY <1>1, <1>2, <1>3, <1>4

LEMMA InvImpliesSafe == Inv => Safe
<1> SUFFICES ASSUME Inv PROVE Safe
  OBVIOUS
<1>1. TypeOK
  <2>1. \A i \in 1..Len(rq) : rq[i].op \in {"update", "other"}
    <3>1. rq \in Seq(Fitting)
      BY OrdersOnly
    <3>2. \A q \in Fitting : q.op \in {"update", "other"}
      BY DEF Fitting, Orders, Order
    <3> QED BY <3>1, <3>2, ElementOfSeq
  <2>2. \A i \in 1..Len(toNode) : toNode[i].op \in {"accepted", "update", "other"}
    <3>1. toNode \in Seq(Fitting \cup {Accepted})
      BY OrdersOnly
    <3>2. \A q \in Fitting \cup {Accepted} : q.op \in {"accepted", "update", "other"}
      BY DEF Fitting, Orders, Order, Accepted
    <3> QED BY <3>1, <3>2, ElementOfSeq
  <2>3. \A i \in 1..Len(toServer) : toServer[i].op \in {"updated", "failed", "disconnect"}
    <3>1. toServer \in Seq(Deliveries)
      BY DEF Inv, NetInv
    <3>2. \A q \in Deliveries : q.op \in {"updated", "failed", "disconnect"}
      BY DEF Deliveries, Reports
    <3> QED BY <3>1, <3>2, ElementOfSeq
  <2>4. \A i \in 1..Len(wq) : wq[i].op \in {"updated", "failed"}
    <3>1. wq \in Seq(Truths)
      BY EmptySeq DEF Inv, QueueInv
    <3>2. \A q \in Truths : q.op \in {"updated", "failed"}
      BY DEF Truths, Reports
    <3> QED BY <3>1, <3>2, ElementOfSeq
  <2>5. \A p \in DOMAIN platformbinaries :
          platformbinaries[p].Revision = platformbinaries[p].Binary.REVISION
    BY DEF Inv, TableInv
  <2>6. /\ link \in {"none", "asked", "up", "broken"}
        /\ (asking # None) => link = "asked"
    BY DEF Inv, NetInv, LinkInv
  <2>7. /\ own \in Images \cup {Torn} /\ temp \in Images \cup {Torn, None}
        /\ running \in Images \cup {None} /\ (running = None) = (pc = "off")
    BY DEF Inv, DiskInv
  <2>8. queues \in {"off", "on", "error"}
    BY DEF Inv, QueueInv
  <2> QED BY <2>1, <2>2, <2>3, <2>4, <2>5, <2>6, <2>7, <2>8 DEF Inv, BoundsInv, Pcs, TypeOK
<1>2. WholeSomewhere
  BY NoImage DEF Inv, DiskInv, WholeSomewhere, Whole
<1>3. RunsWhatStarts
  BY DEF Inv, DiskInv
<1>4. NeverReinstalls
  <2>1. \A q \in Fitting \cup {Accepted} :
          q.op = "update" /\ ~q.forced => q.binary.REVISION # running.REVISION
    BY DEF Fitting, Fits, Accepted
  <2>2. rq \in Seq(Fitting \cup {Accepted}) /\ toNode \in Seq(Fitting \cup {Accepted})
    BY OrdersOnly, SeqMonotonic
  <2>3. \A i \in 1..Len(rq) : rq[i] \in Fitting \cup {Accepted}
    BY <2>2, ElementOfSeq
  <2>4. \A i \in 1..Len(toNode) : toNode[i] \in Fitting \cup {Accepted}
    BY <2>2, ElementOfSeq
  <2> QED BY <2>1, <2>3, <2>4 DEF NeverReinstalls
<1> QED BY <1>1, <1>2, <1>3, <1>4 DEF Safe

\* Wherever an update is interrupted, a whole binary is on the disk, the node
\* runs what it would start, and no order is to what it runs (updates.cpp).
THEOREM Safety == Spec => []Safe
BY InvAlways, InvImpliesSafe, PTL

\* The server knows what a connected node runs, by way of its logins and of its
\* reports (clients.cpp: AcceptClient_Auth, cmdhandling.cpp: HandleReport).
THEOREM RevisionKnown == Spec => []ServerKnows
<1>1. Inv => ServerKnows
  BY DEF Inv, NetInv, ClientInv, ServerKnows
<1> QED BY <1>1, InvAlways, PTL

\* Through every program that an update executes a node has one identity
\* (nodeupdates.cpp: BrandBinary).
THEOREM IdentityKept == Spec => KeepsIdentity
<1> DEFINE Kept == pc # "off" /\ pc' # "off" => running'.IDENTITY = running.IDENTITY
<1>1. ASSUME Inv, [Next]_vars PROVE [Kept]_vars
  <2> SUFFICES ASSUME Next, pc # "off", pc' # "off"
               PROVE  running'.IDENTITY = running.IDENTITY
    BY <1>1
  <2> USE <1>1 DEF Inv
  <2>1. CASE UNCHANGED running
    BY <2>1
  <2>2. CASE Elsewhere
    BY <2>1, <2>2, ElsewhereKeeps
  <2>3. CASE ExecTemp
    BY <2>1, <2>3 DEF ExecTemp, Executes, Ends, DiskInv, memoryVars
  <2>4. CASE ExecOwn
    BY <2>1, <2>4 DEF ExecOwn, Executes, Ends, DiskInv, memoryVars
  <2>5. CASE Crashes \/ Starts
    BY <2>5 DEF Crashes, Starts, Ends
  <2>6. CASE Next /\ ~Elsewhere /\ ~ExecTemp /\ ~ExecOwn /\ ~Crashes /\ ~Starts
    BY <2>1, <2>6 DEF Next, Node, Elsewhere, Download, Upload, QueueError, QueueStep, Begin,
         Reconnect, Reconnected, Established, HandleOther, HandleUpdate, MurderAllThreads,
         Disconnect, WriteTemp, ReturnFailed, ReleaseAgain, CopyBegins, CopyEnds, Ends,
         CompleteUpdate, memoryVars
  <2> QED BY <2>2, <2>3, <2>4, <2>5, <2>6
<1> QED BY <1>1, InvAlways, PTL DEF Spec, KeepsIdentity

-----------------------------------------------------------------------------
(* LuaStream.                                                              *)

(* Numbers.                                                                *)

LEMMA LuaModulo ==
  ASSUME NEW n \in Int, NEW half \in Nat \ {0}
  PROVE  /\ Unsigned(n, half) \in 0..(2 * half - 1)
         /\ n \in 0..(2 * half - 1) <=> Unsigned(n, half) = n
         /\ n \in -half..-1 => Unsigned(n, half) = n + 2 * half
<1> DEFINE m == 2 * half
<1>1. m \in Nat \ {0} /\ -half >= -m
  OBVIOUS
<1> HIDE DEF m
<1>2. n % m \in 0..(m - 1)
  BY <1>1
<1>3. n \in 0..(m - 1) => n % m = n
  BY <1>1
<1>4. n < 0 /\ -m <= n => n % m = n + m
  BY <1>1
<1>5. n \in -half..-1 => n < 0 /\ -m <= n
  BY <1>1
<1> QED
  BY <1>2, <1>3, <1>4, <1>5 DEF m, Unsigned

\* What a number of a half's width is signed and unsigned again.
LEMMA LuaSigned ==
  ASSUME NEW n \in Int, NEW half \in Nat \ {0}
  PROVE  /\ Signed(n, half) \in Number(half)
         /\ n \in Number(half) <=> Signed(n, half) = n
         /\ n \in Number(half) => Signed(Unsigned(n, half), half) = n
<1>1. Unsigned(n, half) \in Int /\ Unsigned(n, half) \in 0..(2 * half - 1)
  BY LuaModulo
<1>2. Unsigned(Unsigned(n, half), half) = Unsigned(n, half)
  BY <1>1, LuaModulo
<1>3. n \in Number(half) =>
        Unsigned(n, half) = IF n < 0 THEN n + 2 * half ELSE n
  BY LuaModulo DEF Number
<1>4. Signed(n, half) \in Number(half)
  BY <1>1 DEF Signed, Number
<1>5. n \in Number(half) => Signed(n, half) = n
  BY <1>3 DEF Number, Signed
<1>6. Signed(Unsigned(n, half), half) = Signed(n, half)
  BY <1>2 DEF Signed
<1> QED
  BY <1>4, <1>5, <1>6

\* lua_tointeger gives a number of 64 bits.
LEMMA LuaInteger ==
  ASSUME NEW v \in Values, NEW k \in DOMAIN v.vals
  PROVE  /\ v.vals[k] \in [kind : STRING, is : Int]
         /\ v.vals[k].kind = "string" => v.vals[k].is \in Strings
         /\ ToInteger(v.vals[k]) \in Number(Half64)
<1>1. v.vals \in Seq([kind : STRING, is : Int])
  BY LuaAssumption
<1>2. v.vals[k] \in [kind : STRING, is : Int]
  BY <1>1, ElementOfSeq, LenProperties
<1>3. v.vals[k].kind = "string" => v.vals[k].is \in Strings
  BY LuaAssumption
<1>4. 0 \in Number(Half64)
  BY LuaAssumption DEF Number
<1> QED
  BY <1>2, <1>3, <1>4, LuaAssumption DEF ToInteger

\* The Lua values of a push that is taken.
LEMMA LuaAccepted ==
  ASSUME NEW v \in Pushable
  PROVE  /\ v \in Values /\ v.vals \in Seq([kind : STRING, is : Int])
         /\ \/ v.type \in Integral /\ DOMAIN v.vals = {1} /\ v.vals[1].kind = "number"
            \/ v.type = "BOOL" /\ DOMAIN v.vals = {1} /\ v.vals[1].kind = "boolean"
            \/ /\ v.type \in {"STRING", "SCRIPT", "FILEPATH", "BINSTREAM"}
               /\ DOMAIN v.vals = {1} /\ v.vals[1].kind = "string"
            \/ /\ v.type = "ODHEADER" /\ DOMAIN v.vals = {1, 2} /\ Len(v.vals) = 2
               /\ v.vals[1].kind = "string" /\ v.vals[2].kind = "string"
            \/ v.type = "FILE" /\ DOMAIN v.vals = {1} /\ Len(v.vals) = 1 /\ v.vals[1].kind = "string"
            \/ /\ v.type = "FILE" /\ DOMAIN v.vals = {1, 2} /\ Len(v.vals) = 2
               /\ v.vals[1].kind = "string" /\ v.vals[2].kind = "nil"
            \/ /\ v.type = "NETCMDSTATUS" /\ ToInteger(v.vals[1]) \in 0..MaxCode
               /\ \/ DOMAIN v.vals = {1} /\ Len(v.vals) = 1
                  \/ DOMAIN v.vals = {1, 2} /\ Len(v.vals) = 2 /\ v.vals[2].kind = "string"
<1>1. v \in Values /\ v.vals \in Seq([kind : STRING, is : Int]) /\ Accepts(v)
  BY LuaAssumption DEF Pushable
<1>2. Len(v.vals) \in Nat /\ DOMAIN v.vals = 1..Len(v.vals)
  BY <1>1, LenProperties
<1>3. Len(v.vals) = 1 => DOMAIN v.vals = {1}
  BY <1>2
<1>4. Len(v.vals) = 2 => DOMAIN v.vals = {1, 2}
  BY <1>2
<1>5. ASSUME NEW a, Kinds(v) = <<a>>
      PROVE  Len(v.vals) = 1 /\ v.vals[1].kind = a
  <2>1. DOMAIN Kinds(v) = 1..Len(v.vals) /\ \A k \in 1..Len(v.vals) : Kinds(v)[k] = v.vals[k].kind
    BY <1>2 DEF Kinds
  <2>2. DOMAIN Kinds(v) = 1..1 /\ Kinds(v)[1] = a
    BY <1>5
  <2>3. Len(v.vals) = 1
    BY <1>2, <2>1, <2>2
  <2> QED
    BY <2>1, <2>2, <2>3
<1>6. ASSUME NEW a, NEW b, Kinds(v) = <<a, b>>
      PROVE  Len(v.vals) = 2 /\ v.vals[1].kind = a /\ v.vals[2].kind = b
  <2>1. DOMAIN Kinds(v) = 1..Len(v.vals) /\ \A k \in 1..Len(v.vals) : Kinds(v)[k] = v.vals[k].kind
    BY <1>2 DEF Kinds
  <2>2. DOMAIN Kinds(v) = 1..2 /\ Kinds(v)[1] = a /\ Kinds(v)[2] = b
    BY <1>6
  <2>3. Len(v.vals) = 2
    BY <1>2, <2>1, <2>2
  <2> QED
    BY <2>1, <2>2, <2>3
<1>7. CASE v.type = "NETCMDSTATUS"
  BY <1>1, <1>3, <1>4, <1>7 DEF Accepts, Integral
<1>8. CASE v.type # "NETCMDSTATUS"
  BY <1>1, <1>3, <1>4, <1>5, <1>6, <1>8 DEF Accepts
<1> QED
  BY <1>1, <1>7, <1>8

\* Numbers: what the argument has room for comes back, and nothing else.
LEMMA LuaNumbersBack ==
  ASSUME NEW v \in Pushable, v.type \in Integral, NEW contents \in Contents
  PROVE  LET a == Argument(v, contents)
         IN  \A k \in DOMAIN a.from : Survives(a, k) <=> GivenBack(a)[k] = a.from[k]
<1> DEFINE a == Argument(v, contents)
           x == v.vals[1]
           n == ToInteger(x)
<1>1. /\ Half32 \in Nat \ {0} /\ Half64 \in Nat \ {0} /\ 2 * Half32 - 1 < Half64
      /\ 2 * Half32 - 1 \in Nat /\ Half32 <= Half64
  BY LuaAssumption
<1>2. /\ v \in Values /\ DOMAIN v.vals = {1} /\ x.kind = "number"
      /\ x \in [kind : STRING, is : Int] /\ n \in Number(Half64)
      /\ n = IF x.is \in Number(Half64) THEN x.is ELSE 0
  <2>1. v \in Values /\ DOMAIN v.vals = {1} /\ x.kind = "number"
    BY LuaAccepted DEF Integral
  <2> QED
    BY <2>1, LuaInteger DEF ToInteger
<1>3. a.type = v.type /\ a.from = v.vals /\ a.value = Stored(v, contents)
  BY DEF Argument
<1>4. x = Lua("number", x.is) /\ \A m : Lua("number", m).is = m
  BY <1>2 DEF Lua
<1>5. x.is \in Int /\ n \in Int
  BY <1>2 DEF Number
<1> HIDE DEF a, x, n
<1>6. ASSUME NEW m \in Number(Half64), NEW R, GivenBack(a) = <<Lua("number", m)>>,
             R \subseteq Number(Half64), n \in R <=> m = n, 0 \in R,
             Survives(a, 1) <=> x.is \in R
      PROVE  Survives(a, 1) <=> GivenBack(a)[1] = x
  <2>1. GivenBack(a)[1] = x <=> m = x.is
    BY <1>4, <1>6
  <2>2. CASE x.is \in Number(Half64)
    BY <1>2, <1>6, <2>1, <2>2
  <2>3. CASE x.is \notin Number(Half64)
    BY <1>6, <2>1, <2>3
  <2> QED
    BY <2>2, <2>3
<1>7. Survives(a, 1) <=> GivenBack(a)[1] = x
  <2>1. CASE v.type = "INT32"
    <3>1. GivenBack(a) = <<Lua("number", Signed(n, Half32))>>
      BY <1>3, <2>1 DEF GivenBack, Given, Stored, CTexts, n, x
    <3>2. Signed(n, Half32) \in Number(Half32) /\ (n \in Number(Half32) <=> Signed(n, Half32) = n)
      BY <1>1, <1>5, LuaSigned
    <3>3. Number(Half32) \subseteq Number(Half64) /\ 0 \in Number(Half32)
      BY <1>1 DEF Number
    <3>4. Survives(a, 1) <=> x.is \in Number(Half32)
      BY <1>3, <2>1 DEF Survives, CTexts, x
    <3> QED
      BY <1>6, <3>1, <3>2, <3>3, <3>4
  <2>2. CASE v.type = "UINT32"
    <3>1. GivenBack(a) = <<Lua("number", Unsigned(n, Half32))>>
      BY <1>3, <2>2 DEF GivenBack, Given, Stored, CTexts, n, x
    <3>2. /\ Unsigned(n, Half32) \in 0..(2 * Half32 - 1)
          /\ n \in 0..(2 * Half32 - 1) <=> Unsigned(n, Half32) = n
      BY <1>1, <1>5, LuaModulo
    <3>3. 0..(2 * Half32 - 1) \subseteq Number(Half64) /\ 0 \in 0..(2 * Half32 - 1)
      BY <1>1 DEF Number
    <3>4. Survives(a, 1) <=> x.is \in 0..(2 * Half32 - 1)
      BY <1>3, <2>2 DEF Survives, CTexts, x
    <3> QED
      BY <1>6, <3>1, <3>2, <3>3, <3>4
  <2>3. CASE v.type \in {"INT64", "UINT64"}
    <3>1. Stored(v, contents) \in {<<Signed(n, Half64)>>, <<Unsigned(n, Half64)>>}
      BY <2>3 DEF Stored, CTexts, n, x
    <3>2. Signed(n, Half64) = n /\ Signed(Unsigned(n, Half64), Half64) = n
      BY <1>1, <1>2, <1>5, LuaSigned
    <3>3. GivenBack(a) = <<Lua("number", Signed(a.value[1], Half64))>>
      BY <1>3, <2>3 DEF GivenBack, Given
    <3>4. GivenBack(a) = <<Lua("number", n)>>
      BY <1>3, <3>1, <3>2, <3>3
    <3>5. 0 \in Number(Half64)
      BY <1>1 DEF Number
    <3>6. Survives(a, 1) <=> x.is \in Number(Half64)
      BY <1>3, <2>3 DEF Survives, CTexts, x
    <3> QED
      BY <1>2, <1>6, <3>4, <3>5, <3>6
  <2> QED
    BY <2>1, <2>2, <2>3 DEF Integral
<1> QED
  BY <1>2, <1>3, <1>7 DEF a, x

\* A status: its code comes back when it is a number and not 0, its message when
\* it is a text of C and not empty.
LEMMA LuaStatusBack ==
  ASSUME NEW v \in Pushable, v.type = "NETCMDSTATUS", NEW contents \in Contents
  PROVE  LET a == Argument(v, contents)
         IN  \A k \in DOMAIN a.from : Survives(a, k) <=> GivenBack(a)[k] = a.from[k]
<1> DEFINE a == Argument(v, contents)
           x == v.vals[1]
           y == v.vals[2]
           n == ToInteger(x)
<1>1. /\ v \in Values /\ n \in 0..MaxCode
      /\ \/ DOMAIN v.vals = {1} /\ Len(v.vals) = 1
         \/ DOMAIN v.vals = {1, 2} /\ Len(v.vals) = 2 /\ y.kind = "string"
  BY LuaAccepted DEF Integral
<1>2. x \in [kind : STRING, is : Int] /\ (x.kind = "string" => x.is \in Strings)
  BY <1>1, LuaInteger
<1>3. DOMAIN v.vals = {1, 2} => y \in [kind : STRING, is : Int] /\ y.is \in Strings
  BY <1>1, LuaInteger
<1>4. /\ MaxCode \in Nat /\ Half64 \in Nat /\ MaxCode < Half64 /\ Failed \in 1..MaxCode
      /\ Empty \in Strings
      /\ \A s \in Strings : Cut(s) \in Strings /\ Cut(Cut(s)) = Cut(s)
      /\ \A c \in 1..MaxCode : Default(c) \in Strings \ {Empty} /\ Cut(Default(c)) = Default(c)
  BY LuaAssumption
<1>5. /\ Code(x) \in 1..MaxCode
      /\ n \in 1..MaxCode => Code(x) = n
      /\ n = 0 => Code(x) = Failed
  BY <1>1, <1>4 DEF Code
<1>6. a.type = "NETCMDSTATUS" /\ a.from = v.vals /\ a.value = <<Code(x), Message(v)>>
  BY DEF Argument, Stored, Integral, CTexts
<1>7. GivenBack(a) = <<Lua("number", Code(x)), Lua("string", Message(v))>>
  BY <1>6 DEF GivenBack, Given
<1>8. /\ x = Lua(x.kind, x.is)
      /\ \A s, t, m, l : Lua(s, m) = Lua(t, l) <=> s = t /\ m = l
  BY <1>2 DEF Lua
<1>9. DOMAIN v.vals = {1, 2} => y = Lua("string", y.is)
  BY <1>1, <1>3 DEF Lua
<1>10. n = IF x.kind = "number" /\ x.is \in Number(Half64) THEN x.is
           ELSE IF x.kind = "string" THEN Numeral(x.is) ELSE 0
  BY <1>2 DEF ToInteger
<1>11. 1..MaxCode \subseteq Number(Half64)
  BY <1>4 DEF Number
<1>12. Survives(a, 1) <=> x.kind = "number" /\ x.is \in 1..MaxCode
  BY <1>6 DEF Survives, CTexts, x
<1>13. 2 \in DOMAIN v.vals => (Survives(a, 2) <=> Cut(y.is) = y.is /\ y.is # Empty)
  BY <1>6 DEF Survives, CTexts, y
<1>14. 2 \in DOMAIN v.vals => Message(v) = IF Cut(y.is) # Empty THEN Cut(y.is) ELSE Default(Code(x))
  BY <1>1 DEF Message, x, y
<1> HIDE DEF a, x, y, n
<1>15. Survives(a, 1) <=> GivenBack(a)[1] = x
  <2>1. GivenBack(a)[1] = x <=> x.kind = "number" /\ x.is = Code(x)
    BY <1>7, <1>8
  <2>2. CASE x.kind = "number" /\ x.is \in Number(Half64)
    <3>1. n = x.is
      BY <1>10, <2>2
    <3>2. x.is = 0 => Code(x) # x.is /\ x.is \notin 1..MaxCode
      BY <1>4, <1>5
    <3>3. x.is # 0 => x.is \in 1..MaxCode /\ Code(x) = x.is
      BY <1>1, <1>4, <1>5, <3>1
    <3> QED
      BY <1>12, <2>1, <2>2, <3>2, <3>3
  <2>3. CASE x.kind = "number" /\ x.is \notin Number(Half64)
    BY <1>5, <1>11, <1>12, <2>1, <2>3
  <2>4. CASE x.kind # "number"
    BY <1>12, <2>1, <2>4
  <2> QED
    BY <2>2, <2>3, <2>4
<1>16. 2 \in DOMAIN v.vals => (Survives(a, 2) <=> GivenBack(a)[2] = y)
  <2> SUFFICES ASSUME 2 \in DOMAIN v.vals
               PROVE  Survives(a, 2) <=> GivenBack(a)[2] = y
    OBVIOUS
  <2>1. DOMAIN v.vals = {1, 2}
    BY <1>1
  <2>2. GivenBack(a)[2] = y <=> y.is = Message(v)
    BY <1>7, <1>8, <1>9, <2>1
  <2>3. CASE Cut(y.is) # Empty
    BY <1>13, <1>14, <2>2, <2>3
  <2>4. CASE Cut(y.is) = Empty
    BY <1>4, <1>5, <1>13, <1>14, <2>2, <2>4
  <2> QED
    BY <2>3, <2>4
<1> QED
  BY <1>1, <1>6, <1>15, <1>16 DEF a, x, y

\* Texts, files, booleans and bytes.
LEMMA LuaOthersBack ==
  ASSUME NEW v \in Pushable, v.type \notin Integral, v.type # "NETCMDSTATUS",
         NEW contents \in Contents
  PROVE  LET a == Argument(v, contents)
         IN  \A k \in DOMAIN a.from : Survives(a, k) <=> GivenBack(a)[k] = a.from[k]
<1> DEFINE a == Argument(v, contents)
<1>1. /\ v \in Values
      /\ \A k \in DOMAIN v.vals : /\ v.vals[k] \in [kind : STRING, is : Int]
                                  /\ v.vals[k].kind = "string" => v.vals[k].is \in Strings
  BY LuaAccepted, LuaInteger
<1>2. a.type = v.type /\ a.from = v.vals /\ a.value = Stored(v, contents)
  BY DEF Argument
<1>3. \A k \in DOMAIN v.vals : v.vals[k] = Lua(v.vals[k].kind, v.vals[k].is)
  BY <1>1 DEF Lua
<1>4. \A s, t, m, l : Lua(s, m) = Lua(t, l) <=> s = t /\ m = l
  BY DEF Lua
<1>5. \A s \in Strings : Cut(Cut(s)) = Cut(s) /\ Cut(Base(Cut(s))) = Base(Cut(s))
  BY LuaAssumption
<1> HIDE DEF a
<1>6. CASE v.type = "BOOL"
  <2>1. DOMAIN v.vals = {1} /\ v.vals[1].kind = "boolean"
    BY <1>6, LuaAccepted DEF Integral
  <2>2. GivenBack(a) = <<Lua("boolean", v.vals[1].is)>>
    BY <1>2, <1>6 DEF GivenBack, Given, Stored, CTexts, Integral
  <2>3. Survives(a, 1)
    BY <1>2, <1>6 DEF Survives, CTexts
  <2> QED
    BY <1>2, <1>3, <2>1, <2>2, <2>3 DEF a
<1>7. CASE v.type = "BINSTREAM"
  <2>1. DOMAIN v.vals = {1} /\ v.vals[1].kind = "string"
    BY <1>7, LuaAccepted DEF Integral
  <2>2. Stored(v, contents) = <<v.vals[1].is>>
    BY <1>7 DEF Stored, CTexts
  <2>3. GivenBack(a) = [k \in {1} |-> Lua("string", v.vals[1].is)]
    BY <1>2, <1>7, <2>2 DEF GivenBack, Given
  <2>4. Survives(a, 1)
    BY <1>2, <1>7 DEF Survives, CTexts
  <2> QED
    BY <1>2, <1>3, <2>1, <2>3, <2>4 DEF a
<1>8. CASE v.type \in CTexts
  <2>1. \A k \in DOMAIN v.vals : v.vals[k].kind = "string"
    BY <1>8, LuaAccepted DEF CTexts, Integral
  <2>2. Stored(v, contents) = [k \in DOMAIN v.vals |-> Cut(v.vals[k].is)]
    BY <1>8 DEF Stored, CTexts
  <2>3. GivenBack(a) = [k \in DOMAIN v.vals |-> Lua("string", Cut(v.vals[k].is))]
    BY <1>2, <1>8, <2>2 DEF GivenBack, Given, CTexts
  <2>4. ASSUME NEW k \in DOMAIN v.vals
        PROVE  Survives(a, k) <=> Cut(v.vals[k].is) = v.vals[k].is
    BY <1>2, <1>8 DEF Survives, CTexts
  <2> QED
    BY <1>2, <1>3, <1>4, <2>1, <2>3, <2>4 DEF a
<1>9. CASE v.type = "FILE" /\ DOMAIN v.vals = {1} /\ Len(v.vals) = 1 /\ v.vals[1].kind = "string"
  <2> DEFINE is == v.vals[1].is
  <2>1. Stored(v, contents) = <<Base(Cut(is)), contents>>
    BY <1>9 DEF Stored, CTexts, IsPath
  <2>2. GivenBack(a)[1] = Lua("string", Base(Cut(is)))
    BY <1>2, <1>9, <2>1 DEF GivenBack, Given
  <2>3. Survives(a, 1) <=> Cut(is) = is /\ Base(is) = is
    BY <1>2, <1>9 DEF Survives, CTexts
  <2>4. Base(Cut(is)) = is <=> Cut(is) = is /\ Base(is) = is
    BY <1>1, <1>5, <1>9
  <2> QED
    BY <1>2, <1>3, <1>4, <1>9, <2>2, <2>3, <2>4 DEF a
<1>10. CASE /\ v.type = "FILE" /\ DOMAIN v.vals = {1, 2} /\ Len(v.vals) = 2
            /\ v.vals[1].kind = "string" /\ v.vals[2].kind = "nil"
  <2>1. Stored(v, contents) = <<Cut(v.vals[1].is), Empty>>
    BY <1>10 DEF Stored, CTexts, IsPath
  <2>2. GivenBack(a)[1] = Lua("string", Cut(v.vals[1].is)) /\ GivenBack(a)[2] = Lua("string", Empty)
    BY <1>2, <1>10, <2>1 DEF GivenBack, Given
  <2>3. (Survives(a, 1) <=> Cut(v.vals[1].is) = v.vals[1].is) /\ ~Survives(a, 2)
    BY <1>2, <1>10 DEF Survives, CTexts
  <2> QED
    BY <1>2, <1>3, <1>4, <1>10, <2>2, <2>3 DEF a
<1> QED
  BY <1>6, <1>7, <1>8, <1>9, <1>10, LuaAccepted DEF CTexts

\* An ODHEADER: two texts, in the argument as a C string has them.
LEMMA LuaODHeader ==
  ASSUME NEW v \in Pushable, v.type = "ODHEADER", NEW contents \in Contents
  PROVE  LET a == Argument(v, contents)
         IN  /\ a.value = <<Cut(v.vals[1].is), Cut(v.vals[2].is)>> /\ a.from = v.vals
             /\ v.vals = <<v.vals[1], v.vals[2]>>
             /\ v.vals[1] = Lua("string", v.vals[1].is) /\ v.vals[2] = Lua("string", v.vals[2].is)
<1>1. /\ v \in Values /\ v.vals \in Seq([kind : STRING, is : Int]) /\ DOMAIN v.vals = {1, 2}
      /\ Len(v.vals) = 2 /\ v.vals[1].kind = "string" /\ v.vals[2].kind = "string"
  BY LuaAccepted DEF Integral
<1>2. v.vals[1] \in [kind : STRING, is : Int] /\ v.vals[2] \in [kind : STRING, is : Int]
  BY <1>1, LuaInteger
<1>3. v.vals = <<v.vals[1], v.vals[2]>>
  BY <1>1
<1>4. Stored(v, contents) = [k \in DOMAIN v.vals |-> Cut(v.vals[k].is)]
  BY DEF Stored, CTexts, Integral
<1>5. Stored(v, contents) = <<Cut(v.vals[1].is), Cut(v.vals[2].is)>>
  BY <1>1, <1>4
<1> QED
  BY <1>1, <1>2, <1>3, <1>5 DEF Argument, Lua

\* What a Lua value comes back as.
LEMMA LuaComesBack ==
  ASSUME NEW a \in Arguments
  PROVE  \A k \in DOMAIN a.from : Survives(a, k) <=> GivenBack(a)[k] = a.from[k]
<1>1. ASSUME NEW v \in Pushable, NEW contents \in Contents, a = Argument(v, contents)
      PROVE  \A k \in DOMAIN a.from : Survives(a, k) <=> GivenBack(a)[k] = a.from[k]
  BY <1>1, LuaNumbersBack, LuaStatusBack, LuaOthersBack
<1>2. ASSUME NEW v \in Pushable, NEW contents \in Contents, v.type = "ODHEADER",
             a = Turned(Argument(v, contents))
      PROVE  \A k \in DOMAIN a.from : Survives(a, k) <=> GivenBack(a)[k] = a.from[k]
  <2> DEFINE x == v.vals[1]
             y == v.vals[2]
  <2>1. /\ Argument(v, contents).value = <<Cut(x.is), Cut(y.is)>>
        /\ Argument(v, contents).from = v.vals
        /\ x = Lua("string", x.is) /\ y = Lua("string", y.is)
    BY <1>2, LuaODHeader
  <2>2. a.type = "ODHEADER" /\ a.value = <<Cut(y.is), Cut(x.is)>> /\ a.from = <<y, x>>
    BY <1>2, <2>1 DEF Turned, Argument
  <2> HIDE DEF x, y
  <2>3. GivenBack(a)[1] = Lua("string", Cut(y.is)) /\ GivenBack(a)[2] = Lua("string", Cut(x.is))
    BY <2>2 DEF GivenBack, Given
  <2>4. (Survives(a, 1) <=> Cut(y.is) = y.is) /\ (Survives(a, 2) <=> Cut(x.is) = x.is)
    BY <2>2 DEF Survives, CTexts
  <2>5. \A m, l : Lua("string", m) = Lua("string", l) <=> m = l
    BY DEF Lua
  <2>6. DOMAIN a.from = {1, 2} /\ a.from[1] = y /\ a.from[2] = x
    BY <2>2
  <2> QED
    BY <2>1, <2>3, <2>4, <2>5, <2>6
<1>3. \A v, contents : Argument(v, contents).type = v.type
  BY DEF Argument
<1> QED
  BY <1>1, <1>2, <1>3 DEF Arguments, Pushed

\* An ODHEADER turned round twice is the one that was pushed.
LEMMA LuaTurned ==
  ASSUME NEW a \in Arguments, a.type = "ODHEADER"
  PROVE  Turned(a) \in Arguments
<1>1. \A v, contents : Argument(v, contents).type = v.type
  BY DEF Argument
<1>2. ASSUME NEW b \in Pushed, b.type = "ODHEADER"
      PROVE  Turned(Turned(b)) = b
  <2>1. PICK v \in Pushable, contents \in Contents : b = Argument(v, contents)
    BY DEF Pushed
  <2>2. b.value = <<b.value[1], b.value[2]>> /\ b.from = <<b.from[1], b.from[2]>>
    BY <1>1, <1>2, <2>1, LuaODHeader
  <2>3. b = [type |-> b.type, value |-> b.value, from |-> b.from]
    BY <2>1 DEF Argument
  <2> QED
    BY <2>2, <2>3 DEF Turned
<1> QED
  BY <1>2 DEF Arguments

-----------------------------------------------------------------------------
(* What a step does to the streams.                                        *)

LEMMA LuaParts ==
  ASSUME LuaTypeOK, NEW h \in Handles, object[h] # Gone
  PROVE  /\ object[h].header \in Headers /\ Has(h) \in Seq(Arguments)
         /\ object[h].place \in 0..Len(Has(h)) /\ object[h].stale \in BOOLEAN
         /\ Len(Has(h)) \in Nat /\ DOMAIN Has(h) = 1..Len(Has(h))
         /\ \A k \in 1..Len(Has(h)) : Has(h)[k] \in Arguments
<1>1. object[h] \in Streams /\ object[h].place <= Len(Has(h))
  BY DEF LuaTypeOK
<1>2. /\ object[h].header \in Headers /\ Has(h) \in Seq(Arguments)
      /\ object[h].place \in Nat /\ object[h].stale \in BOOLEAN
  BY <1>1 DEF Streams, Has
<1> HIDE DEF Has
<1>3. /\ Len(Has(h)) \in Nat /\ DOMAIN Has(h) = 1..Len(Has(h))
      /\ \A k \in 1..Len(Has(h)) : Has(h)[k] \in Arguments
  BY <1>2, LenProperties, ElementOfSeq
<1> QED
  BY <1>1, <1>2, <1>3

LEMMA LuaStreams ==
  ASSUME NEW hd \in Headers, NEW args \in Seq(Arguments), NEW n \in Nat, NEW stale \in BOOLEAN
  PROVE  /\ Stream(hd, args, n, stale) \in Streams /\ Stream(hd, args, n, stale) # Gone
         /\ Stream(hd, args, n, stale).header = hd /\ Stream(hd, args, n, stale).args = args
         /\ Stream(hd, args, n, stale).place = n /\ Stream(hd, args, n, stale).stale = stale
BY LuaAssumption DEF Stream, Streams

\* What the type invariant and GivenOnce say of a handle's stream and of what
\* was popped of it.
LuaWell(o, g) ==
  /\ o \in Streams \cup {Gone} /\ g \in Seq(Arguments)
  /\ o # Gone => o.place <= Len(o.args) /\ g = SubSeq(o.args, 1, o.place)

LuaKeeps == UNCHANGED <<object, given>>
LuaGives(t) ==
  \E o, g : /\ LuaWell(o, g)
            /\ object' = [object EXCEPT ![t] = o] /\ given' = [given EXCEPT ![t] = g]

\* A handle gets a stream at its start, or one that begins as its own.
LEMMA LuaChanged ==
  ASSUME LuaSafe, NEW t \in Handles, NEW hd \in Headers, NEW args \in Seq(Arguments),
         NEW n \in Nat, NEW stale \in BOOLEAN,
         \/ n = 0
         \/ /\ object[t] # Gone /\ n = object[t].place /\ n <= Len(args)
            /\ SubSeq(args, 1, n) = SubSeq(Has(t), 1, n),
         Changes(t, Stream(hd, args, n, stale))
  PROVE  LuaGives(t)
<1> DEFINE o == Stream(hd, args, n, stale)
<1>1. o \in Streams /\ o # Gone /\ o.args = args /\ o.place = n
  BY LuaAssumption DEF Stream, Streams
<1> HIDE DEF o
<1>2. given[t] \in Seq(Arguments)
  BY DEF LuaSafe, LuaTypeOK
<1>3. given' = [given EXCEPT ![t] = SubSeq(given[t], 1, n)] /\ object' = [object EXCEPT ![t] = o]
  BY <1>1 DEF Changes, o
<1>4. LuaWell(o, SubSeq(given[t], 1, n))
  <2>1. CASE n = 0
    <3>1. SubSeq(given[t], 1, 0) = <<>> /\ SubSeq(args, 1, 0) = <<>> /\ <<>> \in Seq(Arguments)
      BY <1>2, SubSeqEmpty, EmptySeq
    <3>2. Len(args) \in Nat
      BY LenProperties
    <3> QED
      BY <1>1, <2>1, <3>1, <3>2 DEF LuaWell
  <2>2. CASE n # 0
    <3>1. /\ object[t] # Gone /\ n = object[t].place /\ n <= Len(args)
          /\ SubSeq(args, 1, n) = SubSeq(Has(t), 1, n) /\ given[t] = SubSeq(Has(t), 1, n)
      BY <2>2 DEF LuaSafe, GivenOnce
    <3>2. SubSeq(given[t], 1, n) = given[t]
      <4>1. Len(given[t]) = n
        BY <3>1, LuaParts, SubSeqProperties DEF LuaSafe
      <4> QED
        BY <1>2, <4>1, SubSeqFull
    <3> QED
      BY <1>1, <1>2, <3>1, <3>2 DEF LuaWell
  <2> QED
    BY <2>1, <2>2
<1> QED
  BY <1>3, <1>4 DEF LuaGives

LEMMA LuaPushKeeps ==
  ASSUME LuaSafe, NEW h \in Handles, NEW v \in Values, Push(h, v)
  PROVE  LuaGives(h) \/ LuaKeeps
<1>1. ASSUME Accepts(v), NEW contents \in Contents, Put(h, Argument(v, contents))
      PROVE  LuaGives(h)
  <2>1. object[h] # Gone
    BY DEF Push, Live
  <2>2. /\ object[h].header \in Headers /\ Has(h) \in Seq(Arguments)
        /\ object[h].place \in 0..Len(Has(h)) /\ object[h].stale \in BOOLEAN
        /\ Len(Has(h)) \in Nat
    BY <2>1, LuaParts DEF LuaSafe
  <2>3. Argument(v, contents) \in Arguments
    BY <1>1 DEF Arguments, Pushed, Pushable
  <2> DEFINE args == Append(Has(h), Argument(v, contents))
             n == object[h].place
  <2>4. /\ args \in Seq(Arguments) /\ Len(args) = Len(Has(h)) + 1
        /\ \A k \in 1..Len(Has(h)) : args[k] = Has(h)[k]
    BY <2>2, <2>3, AppendProperties
  <2>5. SubSeq(args, 1, n) = SubSeq(Has(h), 1, n)
    <3> HIDE DEF args, n
    <3>1. n \in Nat /\ n <= Len(Has(h)) /\ n <= Len(args) /\ 1 <= n + 1
      BY <2>2, <2>4 DEF n
    <3>2. /\ SubSeq(args, 1, n) \in Seq(Arguments) /\ SubSeq(Has(h), 1, n) \in Seq(Arguments)
          /\ Len(SubSeq(args, 1, n)) = n /\ Len(SubSeq(Has(h), 1, n)) = n
          /\ \A i \in 1..n : SubSeq(args, 1, n)[i] = args[i] /\ SubSeq(Has(h), 1, n)[i] = Has(h)[i]
      BY <2>2, <2>4, <3>1, SubSeqProperties
    <3>3. \A i \in 1..n : SubSeq(args, 1, n)[i] = SubSeq(Has(h), 1, n)[i]
      BY <2>2, <2>4, <3>1, <3>2
    <3> QED
      BY <3>2, <3>3, SeqEqual
  <2>6. PICK moved \in BOOLEAN : Changes(h, Stream(object[h].header, args, n, object[h].stale \/ moved))
    BY <1>1 DEF Put
  <2> DEFINE stale == object[h].stale \/ moved
  <2>7. stale \in BOOLEAN /\ n \in Nat /\ n <= Len(args)
    BY <2>2, <2>4
  <2>8. Changes(h, Stream(object[h].header, args, n, stale))
    BY <2>6
  <2> HIDE DEF args, n, stale
  <2>9. n = object[h].place
    BY DEF n
  <2>10. PICK hd \in Headers, longer \in Seq(Arguments), p \in Nat, left \in BOOLEAN :
            hd = object[h].header /\ longer = args /\ p = n /\ left = stale
    BY <2>2, <2>4, <2>7
  <2>11. /\ object[h] # Gone /\ p = object[h].place /\ p <= Len(longer)
         /\ SubSeq(longer, 1, p) = SubSeq(Has(h), 1, p)
    BY <2>1, <2>5, <2>7, <2>9, <2>10
  <2>12. Changes(h, Stream(hd, longer, p, left))
    BY <2>8, <2>10
  <2> QED
    BY <2>10, <2>11, <2>12, LuaChanged
<1>2. Throws(h, "Push_File") \/ Quiet(h) => LuaKeeps
  BY DEF Throws, Quiet, LuaKeeps
<1> QED
  BY <1>1, <1>2 DEF Push

LEMMA LuaPopKeeps ==
  ASSUME LuaSafe, NEW h \in Handles, Pop(h)
  PROVE  LuaGives(h) \/ LuaKeeps
<1>1. CASE Gives(h) /\ object[h].place < Len(Has(h))
  <2>1. object[h] # Gone
    BY DEF Pop, Live
  <2>2. /\ object[h].header \in Headers /\ Has(h) \in Seq(Arguments)
        /\ object[h].place \in 0..Len(Has(h)) /\ Len(Has(h)) \in Nat
        /\ \A k \in 1..Len(Has(h)) : Has(h)[k] \in Arguments
    BY <2>1, LuaParts DEF LuaSafe
  <2> DEFINE n == object[h].place
             args == Has(h)
  <2>3. given[h] = SubSeq(args, 1, n) /\ given[h] \in Seq(Arguments)
    BY <2>1 DEF LuaSafe, LuaTypeOK, GivenOnce
  <2>4. n \in Nat /\ n + 1 \in Nat /\ n + 1 \in 1..Len(args)
    BY <1>1, <2>2
  <2>5. /\ object' = [object EXCEPT ![h] = Stream(object[h].header, args, n + 1, FALSE)]
        /\ given' = [given EXCEPT ![h] = Append(given[h], args[n + 1])]
    BY <1>1 DEF Gives, Steps
  <2> HIDE DEF n, args
  <2>6. Append(SubSeq(args, 1, n), args[n + 1]) = SubSeq(args, 1, n + 1)
    <3>1. SubSeq(args, 1, n + 1) = SubSeq(args, 1, n) \o <<args[n + 1]>>
      <4>1. args \in Seq(Arguments) /\ 1 \in 1..Len(args)
        BY <2>2, <2>4 DEF args
      <4>2. PICK m \in 1..Len(args) : m = n + 1
        BY <2>4
      <4>3. SubSeq(args, 1, m) = SubSeq(args, 1, m - 1) \o <<args[m]>>
        BY <4>1, <4>2, SubSeqRecursiveSecond
      <4>4. m - 1 = n
        BY <2>4, <4>2
      <4> QED
        BY <4>2, <4>3, <4>4
    <3>2. \A q \in Seq(Arguments), a \in Arguments : Append(q, a) = q \o <<a>>
      OBVIOUS
    <3> QED
      BY <2>2, <2>3, <2>4, <3>1, <3>2 DEF args
  <2>7. args[n + 1] \in Arguments /\ args \in Seq(Arguments) /\ object[h].header \in Headers
    BY <2>2, <2>4 DEF args
  <2>8. Append(given[h], args[n + 1]) \in Seq(Arguments)
    BY <2>3, <2>7, AppendProperties
  <2>9. Stream(object[h].header, args, n + 1, FALSE) \in Streams
    BY <2>4, <2>7, LuaStreams
  <2>10. LuaWell(Stream(object[h].header, args, n + 1, FALSE), Append(given[h], args[n + 1]))
    BY <2>3, <2>4, <2>6, <2>8, <2>9 DEF LuaWell, Stream
  <2> QED
    BY <1>1, <2>4, <2>5, <2>7, <2>10 DEF LuaGives, args, n
<1>2. CASE ~(Gives(h) /\ object[h].place < Len(Has(h)))
  BY <1>2 DEF Pop, PopStale, Throws, Quiet, LuaKeeps
<1> QED
  BY <1>1, <1>2

LEMMA LuaStarted ==
  ASSUME LuaSafe, NEW t \in Handles, NEW hd \in Headers, NEW args \in Seq(Arguments),
         Changes(t, Fresh(hd, args))
  PROVE  LuaGives(t)
<1>1. Changes(t, Stream(hd, args, 0, FALSE))
  BY DEF Fresh
<1>2. 0 \in Nat /\ FALSE \in BOOLEAN
  OBVIOUS
<1> QED
  BY <1>1, <1>2, LuaChanged

LEMMA LuaReply ==
  ASSUME LuaSafe, NEW h \in Handles, object[h] # Gone, Has(h) # <<>>
  PROVE  /\ Header(object[h].header.code, TRUE, object[h].header.ident) \in Headers
         /\ Has(h)[1] \in Arguments
         /\ \/ Reply(h) = Fresh(Header(object[h].header.code, TRUE, object[h].header.ident), <<>>)
            \/ \E a \in Arguments :
                 Reply(h) = Fresh(Header(object[h].header.code, TRUE, object[h].header.ident), <<a>>)
<1>1. /\ object[h].header \in Headers /\ Has(h) \in Seq(Arguments) /\ Len(Has(h)) \in Nat
      /\ DOMAIN Has(h) = 1..Len(Has(h))
      /\ \A k \in 1..Len(Has(h)) : Has(h)[k] \in Arguments
  BY LuaParts DEF LuaSafe
<1>2. 1 \in 1..Len(Has(h))
  BY <1>1, EmptySeq
<1>3. Types(h)[1] = Has(h)[1].type
  BY <1>1, <1>2 DEF Types
<1>4. Header(object[h].header.code, TRUE, object[h].header.ident) \in Headers
  BY <1>1 DEF Header, Headers
<1> QED
  BY <1>1, <1>2, <1>3, <1>4, LuaTurned DEF Reply

LEMMA LuaResponseKeeps ==
  ASSUME LuaSafe, NEW h \in Handles, NEW t \in Handles, BuildResponse(t, h)
  PROVE  LuaGives(t) \/ LuaKeeps
<1>1. CASE Has(h) = <<>>
  BY <1>1 DEF BuildResponse, Throws, LuaKeeps
<1>2. CASE Has(h) # <<>>
  <2> DEFINE hd == Header(object[h].header.code, TRUE, object[h].header.ident)
  <2>1. object[h] # Gone /\ Changes(t, Reply(h))
    BY <1>2 DEF BuildResponse, Live
  <2>2. PICK args \in Seq(Arguments) : Reply(h) = Fresh(hd, args)
    <3>1. <<>> \in Seq(Arguments) /\ \A a \in Arguments : <<a>> \in Seq(Arguments)
      OBVIOUS
    <3> QED
      BY <1>2, <2>1, <3>1, LuaReply
  <2>3. hd \in Headers
    BY <1>2, <2>1, LuaReply
  <2> HIDE DEF hd
  <2> QED
    BY <2>1, <2>2, <2>3, LuaStarted
<1> QED
  BY <1>1, <1>2

LEMMA LuaJobArgumentsKeeps ==
  ASSUME LuaSafe, NEW h \in Handles, PopJobArguments(h)
  PROVE  /\ LuaGives(h) \/ LuaKeeps
         /\ IsPrefix(JobTypes, Types(h)) => 3 <= Len(Has(h))
<1>1. object[h] # Gone
  BY DEF PopJobArguments, Live
<1>2. /\ object[h].header \in Headers /\ Has(h) \in Seq(Arguments) /\ Len(Has(h)) \in Nat
      /\ DOMAIN Has(h) = 1..Len(Has(h))
  BY <1>1, LuaParts DEF LuaSafe
<1>3. IsPrefix(JobTypes, Types(h)) => 3 <= Len(Has(h))
  <2>1. Len(JobTypes) = 3
    BY DEF JobTypes
  <2>2. Len(Types(h)) = Len(Has(h))
    BY <1>2 DEF Types
  <2> QED
    BY <2>1, <2>2 DEF IsPrefix
<1>4. CASE IsPrefix(JobTypes, Types(h))
  <2> DEFINE o == Stream(object[h].header, Has(h), 3, FALSE)
             g == SubSeq(Has(h), 1, 3)
  <2>1. object' = [object EXCEPT ![h] = o] /\ given' = [given EXCEPT ![h] = g]
    BY <1>4 DEF PopJobArguments
  <2>2. o \in Streams /\ o.args = Has(h) /\ o.place = 3
    BY <1>2 DEF Stream, Streams
  <2>3. g \in Seq(Arguments)
    BY <1>2, <1>3, <1>4, SubSeqProperties
  <2> HIDE DEF o, g
  <2>4. LuaWell(o, g)
    BY <1>3, <1>4, <2>2, <2>3 DEF LuaWell, g
  <2> QED
    BY <1>3, <2>1, <2>4 DEF LuaGives
<1>5. CASE ~IsPrefix(JobTypes, Types(h))
  BY <1>3, <1>5 DEF PopJobArguments, Throws, LuaKeeps
<1> QED
  BY <1>3, <1>4, <1>5

\* Every step leaves the streams as they are, or one handle with another one.
LEMMA LuaStreamsStep ==
  ASSUME LuaSafe, LuaNext
  PROVE  LuaKeeps \/ \E t \in Handles : LuaGives(t)
<1>1. ASSUME NEW h \in Handles, NotAStream(h) \/ Reads(h)
      PROVE  LuaKeeps
  BY <1>1 DEF NotAStream, Reads, CountArguments, GetArgTypes, GetHeader, GetData, GetArgData,
    VerifyArgs, SendStream, GetCSIter, Quiet, Throws, LuaKeeps
<1>2. ASSUME NEW h \in Handles, Collect(h)
      PROVE  LuaGives(h)
  <2>1. <<>> \in Seq(Arguments)
    BY EmptySeq
  <2> QED
    BY <1>2, <2>1 DEF Collect, Changes, LuaGives, LuaWell
<1>3. ASSUME NEW h \in Handles, Pop(h) \/ DoCSIter(h)
      PROVE  LuaGives(h) \/ LuaKeeps
  BY <1>3, LuaPopKeeps DEF DoCSIter
<1>4. ASSUME NEW h \in Handles, Live(h)
      PROVE  /\ object[h].header \in Headers /\ Has(h) \in Seq(Arguments)
  BY <1>4, LuaParts DEF LuaSafe, Live
<1>5. ASSUME NEW h \in Handles, Rewind(h)
      PROVE  LuaGives(h)
  BY <1>4, <1>5, LuaStarted DEF Rewind
<1>6. ASSUME NEW h \in Handles, NEW code \in Codes, NEW ident \in Idents, New(h, code, ident)
      PROVE  LuaGives(h)
  <2>1. Header(code, FALSE, ident) \in Headers /\ <<>> \in Seq(Arguments)
    BY EmptySeq DEF Header, Headers
  <2> QED
    BY <1>6, <2>1, LuaStarted DEF New
<1>7. ASSUME NEW h \in Handles, NEW t \in Handles, Clone(t, h)
      PROVE  LuaGives(t)
  BY <1>4, <1>7, LuaStarted DEF Clone
<1> QED
  BY <1>1, <1>2, <1>3, <1>5, <1>6, <1>7, LuaPushKeeps, LuaJobArgumentsKeeps, LuaResponseKeeps
     DEF LuaNext

\* What a call gives, and the call that ends the node.
LEMMA LuaCallsStep ==
  ASSUME LuaSafe, LuaNext
  PROVE  /\ self' \in Handles /\ popped' \in Arguments \cup {Null}
         /\ died' \in {"", "Push_File", "Pop", "GetArgTypes", "PopJobArguments", "BuildResponse"}
<1> DEFINE Calls0 == {"", "Push_File", "Pop", "GetArgTypes", "PopJobArguments", "BuildResponse"}
<1>1. died \in Calls0
  BY DEF LuaSafe, LuaTypeOK
<1> HIDE DEF Calls0
<1>2. /\ "Push_File" \in Calls0 /\ "Pop" \in Calls0 /\ "PopJobArguments" \in Calls0
      /\ "BuildResponse" \in Calls0 /\ "GetArgTypes" \in Calls0
  BY DEF Calls0
<1>3. ASSUME NEW h \in Handles, Quiet(h) \/ (Returns(h, Null) /\ UNCHANGED died)
      PROVE  self' \in Handles /\ popped' \in Arguments \cup {Null} /\ died' \in Calls0
  BY <1>1, <1>3 DEF Quiet, Returns
<1>4. ASSUME NEW h \in Handles, NEW call \in Calls0, Throws(h, call)
      PROVE  self' \in Handles /\ popped' \in Arguments \cup {Null} /\ died' \in Calls0
  BY <1>4 DEF Throws, Returns
<1>5. ASSUME NEW h \in Handles, Pop(h)
      PROVE  self' \in Handles /\ popped' \in Arguments \cup {Null} /\ died' \in Calls0
  <2>1. CASE object[h].place < Len(Has(h)) /\ Gives(h) /\ UNCHANGED died
    <3>1. object[h] # Gone
      BY <1>5 DEF Pop, Live
    <3>2. /\ object[h].place \in 0..Len(Has(h)) /\ Len(Has(h)) \in Nat
          /\ \A k \in 1..Len(Has(h)) : Has(h)[k] \in Arguments
      BY <3>1, LuaParts DEF LuaSafe
    <3>3. object[h].place + 1 \in 1..Len(Has(h))
      BY <2>1, <3>2
    <3>4. Has(h)[object[h].place + 1] \in Arguments
      BY <3>2, <3>3
    <3>5. Returns(h, Has(h)[object[h].place + 1])
      BY <2>1 DEF Gives
    <3> QED
      BY <1>1, <2>1, <3>4, <3>5 DEF Returns
  <2>2. CASE Quiet(h) \/ Throws(h, "Pop")
    BY <1>2, <1>3, <1>4, <2>2
  <2>3. ASSUME NEW a \in Arguments \cup {Null}, Returns(h, a), UNCHANGED died
        PROVE  self' \in Handles /\ popped' \in Arguments \cup {Null} /\ died' \in Calls0
    BY <1>1, <2>3 DEF Returns
  <2> QED
    BY <1>5, <2>1, <2>2, <2>3 DEF Pop, PopStale
<1>6. ASSUME NEW h \in Handles, NotAStream(h) \/ Reads(h)
      PROVE  Quiet(h) \/ Throws(h, "GetArgTypes")
  BY <1>6 DEF NotAStream, Reads, CountArguments, GetArgTypes, GetHeader, GetData, GetArgData,
    VerifyArgs, SendStream, GetCSIter
<1>7. ASSUME NEW h \in Handles, Collect(h) \/ Rewind(h) \/ PopJobArguments(h)
      PROVE  (Returns(h, Null) /\ UNCHANGED died) \/ Throws(h, "PopJobArguments")
  BY <1>7 DEF Collect, Rewind, PopJobArguments
<1>8. ASSUME NEW h \in Handles, NEW v, Push(h, v)
      PROVE  (Returns(h, Null) /\ UNCHANGED died) \/ Quiet(h) \/ Throws(h, "Push_File")
  BY <1>8 DEF Push, Put
<1>9. ASSUME NEW h \in Handles, NEW t \in Handles, Clone(t, h) \/ BuildResponse(t, h)
      PROVE  (Returns(t, Null) /\ UNCHANGED died) \/ Throws(h, "BuildResponse")
  BY <1>9 DEF Clone, BuildResponse
<1>10. ASSUME NEW h \in Handles, NEW code, NEW ident, New(h, code, ident)
       PROVE  Returns(h, Null) /\ UNCHANGED died
  BY <1>10 DEF New
<1>11. self' \in Handles /\ popped' \in Arguments \cup {Null} /\ died' \in Calls0
  BY <1>2, <1>3, <1>4, <1>5, <1>6, <1>7, <1>8, <1>9, <1>10 DEF LuaNext, DoCSIter
<1> QED
  BY <1>11 DEF Calls0

LEMMA LuaSafeStep ==
  ASSUME LuaSafe, [LuaNext]_luaVars
  PROVE  LuaSafe'
<1>1. CASE UNCHANGED luaVars
  BY <1>1 DEF LuaSafe, LuaTypeOK, GivenOnce, Has, luaVars
<1>2. CASE LuaNext
  <2>1. /\ object \in [Handles -> Streams \cup {Gone}] /\ given \in [Handles -> Seq(Arguments)]
        /\ \A h \in Handles : LuaWell(object[h], given[h])
    BY DEF LuaSafe, LuaTypeOK, GivenOnce, LuaWell, Has
  <2>2. /\ object' \in [Handles -> Streams \cup {Gone}] /\ given' \in [Handles -> Seq(Arguments)]
        /\ \A h \in Handles : LuaWell(object'[h], given'[h])
    <3>1. CASE LuaKeeps
      BY <2>1, <3>1 DEF LuaKeeps
    <3>2. ASSUME NEW t \in Handles, LuaGives(t)
          PROVE  /\ object' \in [Handles -> Streams \cup {Gone}]
                 /\ given' \in [Handles -> Seq(Arguments)]
                 /\ \A h \in Handles : LuaWell(object'[h], given'[h])
      <4>1. PICK o, g : /\ LuaWell(o, g) /\ o \in Streams \cup {Gone} /\ g \in Seq(Arguments)
                        /\ object' = [object EXCEPT ![t] = o] /\ given' = [given EXCEPT ![t] = g]
        BY <3>2 DEF LuaGives, LuaWell
      <4>2. object' \in [Handles -> Streams \cup {Gone}] /\ given' \in [Handles -> Seq(Arguments)]
        BY <2>1, <4>1
      <4>3. ASSUME NEW h \in Handles PROVE LuaWell(object'[h], given'[h])
        <5>1. CASE h = t
          <6>1. object'[h] = o /\ given'[h] = g
            BY <2>1, <4>1, <5>1
          <6> QED
            BY <4>1, <6>1
        <5>2. CASE h # t
          <6>1. object'[h] = object[h] /\ given'[h] = given[h]
            BY <2>1, <4>1, <5>2
          <6> QED
            BY <2>1, <6>1
        <5> QED
          BY <5>1, <5>2
      <4> QED
        BY <4>2, <4>3
    <3> QED
      BY <1>2, <3>1, <3>2, LuaStreamsStep
  <2> QED
    BY <1>2, <2>2, LuaCallsStep DEF LuaSafe, LuaTypeOK, GivenOnce, LuaWell, Has
<1> QED
  BY <1>1, <1>2

-----------------------------------------------------------------------------
(* A script's streams as argument lists.                                   *)

LuaHeader == [h \in Handles |-> IF object[h] = Gone THEN Gone ELSE object[h].header]
LuaContent == [h \in Handles |-> IF object[h] = Gone THEN <<>> ELSE object[h].args]
LuaPlace == [h \in Handles |-> IF object[h] = Gone THEN 0 ELSE object[h].place]

LEMMA LuaIsList ==
  /\ \A s : List!Live(s) <=> LuaHeader[s] # Gone
  /\ \A s, h, c, p :
       List!Put(s, h, c, p) <=> /\ LuaHeader' = [LuaHeader EXCEPT ![s] = h]
                                /\ LuaContent' = [LuaContent EXCEPT ![s] = c]
                                /\ LuaPlace' = [LuaPlace EXCEPT ![s] = p]
BY DEF List!Live, List!Put, LuaHeader, LuaContent, LuaPlace

\* What is told of a call: nothing when it gave nothing, or went by a place that
\* does not hold; else what it gave.
LEMMA LuaTells ==
  /\ popped = Null => Told = Null
  /\ popped' = Null => Told' = Null
  /\ object[self] # Gone /\ object[self].stale => Told = Null
  /\ object'[self'] # Gone /\ object'[self'].stale => Told' = Null
  /\ object'[self'] # Gone /\ ~object'[self'].stale => Told' = popped'
BY DEF Told

LEMMA LuaKnows ==
  ASSUME LuaSafe, NEW h \in Handles
  PROVE  /\ List!Live(h) <=> object[h] # Gone
         /\ object[h] # Gone => /\ LuaHeader[h] = object[h].header /\ LuaContent[h] = Has(h)
                                /\ LuaPlace[h] = object[h].place
<1>1. object[h] # Gone => object[h].header # Gone
  BY LuaAssumption, LuaParts DEF LuaSafe
<1> QED
  BY <1>1, LuaIsList DEF LuaHeader, LuaContent, LuaPlace, Has

\* One handle gets another stream.
LEMMA LuaPuts ==
  ASSUME LuaSafe, NEW t \in Handles, NEW o, o # Gone, object' = [object EXCEPT ![t] = o]
  PROVE  List!Put(t, o.header, o.args, o.place)
<1>1. object \in [Handles -> Streams \cup {Gone}]
  BY DEF LuaSafe, LuaTypeOK
<1>2. \A h \in Handles : object'[h] = IF h = t THEN o ELSE object[h]
  BY <1>1
<1>3. LuaHeader' = [LuaHeader EXCEPT ![t] = o.header]
  <2>1. LuaHeader = [h \in Handles |-> LuaHeader[h]] /\ LuaHeader' = [h \in Handles |-> LuaHeader'[h]]
    BY DEF LuaHeader
  <2>2. \A h \in Handles : LuaHeader'[h] = IF h = t THEN o.header ELSE LuaHeader[h]
    BY <1>2 DEF LuaHeader
  <2> QED
    BY <2>1, <2>2
<1>4. LuaContent' = [LuaContent EXCEPT ![t] = o.args]
  <2>1. LuaContent = [h \in Handles |-> LuaContent[h]] /\ LuaContent' = [h \in Handles |-> LuaContent'[h]]
    BY DEF LuaContent
  <2>2. \A h \in Handles : LuaContent'[h] = IF h = t THEN o.args ELSE LuaContent[h]
    BY <1>2 DEF LuaContent
  <2> QED
    BY <2>1, <2>2
<1>5. LuaPlace' = [LuaPlace EXCEPT ![t] = o.place]
  <2>1. LuaPlace = [h \in Handles |-> LuaPlace[h]] /\ LuaPlace' = [h \in Handles |-> LuaPlace'[h]]
    BY DEF LuaPlace
  <2>2. \A h \in Handles : LuaPlace'[h] = IF h = t THEN o.place ELSE LuaPlace[h]
    BY <1>2 DEF LuaPlace
  <2> QED
    BY <2>1, <2>2
<1> QED
  BY <1>3, <1>4, <1>5, LuaIsList

LEMMA LuaFrees ==
  ASSUME LuaSafe, NEW t \in Handles, object' = [object EXCEPT ![t] = Gone]
  PROVE  List!Put(t, Gone, <<>>, 0)
<1>1. object \in [Handles -> Streams \cup {Gone}]
  BY DEF LuaSafe, LuaTypeOK
<1>2. \A h \in Handles : object'[h] = IF h = t THEN Gone ELSE object[h]
  BY <1>1
<1>3. LuaHeader' = [LuaHeader EXCEPT ![t] = Gone]
  <2>1. LuaHeader = [h \in Handles |-> LuaHeader[h]] /\ LuaHeader' = [h \in Handles |-> LuaHeader'[h]]
    BY DEF LuaHeader
  <2>2. \A h \in Handles : LuaHeader'[h] = IF h = t THEN Gone ELSE LuaHeader[h]
    BY <1>2 DEF LuaHeader
  <2> QED
    BY <2>1, <2>2
<1>4. LuaContent' = [LuaContent EXCEPT ![t] = <<>>]
  <2>1. LuaContent = [h \in Handles |-> LuaContent[h]] /\ LuaContent' = [h \in Handles |-> LuaContent'[h]]
    BY DEF LuaContent
  <2>2. \A h \in Handles : LuaContent'[h] = IF h = t THEN <<>> ELSE LuaContent[h]
    BY <1>2 DEF LuaContent
  <2> QED
    BY <2>1, <2>2
<1>5. LuaPlace' = [LuaPlace EXCEPT ![t] = 0]
  <2>1. LuaPlace = [h \in Handles |-> LuaPlace[h]] /\ LuaPlace' = [h \in Handles |-> LuaPlace'[h]]
    BY DEF LuaPlace
  <2>2. \A h \in Handles : LuaPlace'[h] = IF h = t THEN 0 ELSE LuaPlace[h]
    BY <1>2 DEF LuaPlace
  <2> QED
    BY <2>1, <2>2
<1> QED
  BY <1>3, <1>4, <1>5, LuaIsList

\* A call that leaves the streams alone gives one the header it has, or frees
\* a handle that has none.
LEMMA LuaStays ==
  ASSUME LuaSafe, NEW h \in Handles, UNCHANGED object, Told' = Null
  PROVE  List!Next
<1>1. UNCHANGED <<LuaHeader, LuaContent, LuaPlace>>
  BY DEF LuaHeader, LuaContent, LuaPlace
<1>2. CASE object[h] # Gone
  <2>1. PICK hd \in Headers : hd = LuaHeader[h]
    BY <1>2, LuaKnows, LuaParts DEF LuaSafe
  <2>2. LuaHeader' = [LuaHeader EXCEPT ![h] = hd] /\ List!Live(h)
    BY <1>1, <1>2, <2>1, LuaKnows DEF LuaHeader
  <2>3. List!Retitle(h, hd)
    BY <1>1, <2>1, <2>2 DEF List!Retitle, LuaHeader, LuaContent, LuaPlace
  <2> QED
    BY <2>3 DEF List!Next
<1>3. CASE object[h] = Gone
  <2>1. List!Put(h, Gone, <<>>, 0)
    <3>1. object' = [object EXCEPT ![h] = Gone]
      BY <1>3 DEF LuaSafe, LuaTypeOK
    <3> QED
      BY <3>1, LuaFrees
  <2>2. List!Free(h)
    BY <2>1 DEF List!Free
  <2> QED
    BY <2>2 DEF List!Next
<1> QED
  BY <1>2, <1>3

\* One stream goes on with the header it has.
LEMMA LuaContinues ==
  ASSUME LuaSafe, NEW h \in Handles, object[h] # Gone,
         NEW args \in Seq(Arguments), NEW n \in Nat, NEW stale \in BOOLEAN,
         object' = [object EXCEPT ![h] = Stream(object[h].header, args, n, stale)]
  PROVE  /\ List!Live(h) /\ UNCHANGED LuaHeader
         /\ LuaContent' = [LuaContent EXCEPT ![h] = args] /\ LuaContent[h] = Has(h)
         /\ args = Has(h) => UNCHANGED LuaContent
         /\ LuaPlace' = [LuaPlace EXCEPT ![h] = n] /\ LuaPlace[h] = object[h].place
         /\ n = object[h].place => UNCHANGED LuaPlace
<1>1. PICK hd \in Headers : hd = object[h].header
  BY LuaParts DEF LuaSafe
<1>2. PICK o : o = Stream(hd, args, n, stale)
  OBVIOUS
<1>3. o # Gone /\ o.header = hd /\ o.args = args /\ o.place = n
  BY <1>2, LuaAssumption DEF Stream, Streams
<1>4. List!Put(h, o.header, o.args, o.place)
  BY <1>1, <1>2, <1>3, LuaPuts
<1>5. /\ LuaHeader' = [LuaHeader EXCEPT ![h] = hd] /\ LuaContent' = [LuaContent EXCEPT ![h] = args]
      /\ LuaPlace' = [LuaPlace EXCEPT ![h] = n]
  BY <1>3, <1>4, LuaIsList
<1>6. /\ List!Live(h) /\ LuaHeader[h] = hd /\ LuaContent[h] = Has(h)
      /\ LuaPlace[h] = object[h].place
  BY <1>1, LuaKnows
<1>7. UNCHANGED LuaHeader
  BY <1>5, <1>6 DEF LuaHeader
<1>8. args = Has(h) => UNCHANGED LuaContent
  BY <1>5, <1>6 DEF LuaContent
<1>9. n = object[h].place => UNCHANGED LuaPlace
  BY <1>5, <1>6 DEF LuaPlace
<1> QED
  BY <1>5, <1>6, <1>7, <1>8, <1>9

\* A handle without a stream gets one at its start.
LEMMA LuaBegins ==
  ASSUME LuaSafe, NEW t \in Handles, NEW hd \in Headers, NEW args \in Seq(Arguments),
         Changes(t, Fresh(hd, args))
  PROVE  List!Put(t, hd, args, 0)
<1>1. PICK o : o = Fresh(hd, args)
  OBVIOUS
<1>2. o # Gone /\ o.header = hd /\ o.args = args /\ o.place = 0
  <2>1. FALSE \in BOOLEAN /\ 0 \in Nat
    OBVIOUS
  <2> QED
    BY <1>1, <2>1, LuaStreams DEF Fresh
<1>3. object' = [object EXCEPT ![t] = o]
  BY <1>1 DEF Changes
<1> QED
  BY <1>2, <1>3, LuaPuts

LEMMA LuaPopsList ==
  ASSUME LuaSafe, NEW h \in Handles, Pop(h)
  PROVE  List!Next
<1>1. CASE object[h].place < Len(Has(h)) /\ Gives(h)
  <2>1. object[h] # Gone
    BY DEF Pop, Live
  <2>2. /\ Has(h) \in Seq(Arguments) /\ object[h].place \in Nat /\ FALSE \in BOOLEAN
        /\ object[h].place + 1 \in Nat
    BY <2>1, LuaParts DEF LuaSafe
  <2>3. object' = [object EXCEPT ![h] = Stream(object[h].header, Has(h), object[h].place + 1, FALSE)]
    BY <1>1 DEF Gives, Steps
  <2>4. PICK args \in Seq(Arguments), n \in Nat : args = Has(h) /\ n = object[h].place
    BY <2>2
  <2>5. /\ List!Live(h) /\ UNCHANGED LuaHeader /\ UNCHANGED LuaContent /\ LuaContent[h] = args
        /\ LuaPlace' = [LuaPlace EXCEPT ![h] = n + 1] /\ LuaPlace[h] = n
    <3>1. n + 1 \in Nat /\ object' = [object EXCEPT ![h] = Stream(object[h].header, args, n + 1, FALSE)]
      BY <2>3, <2>4
    <3>2. PICK p \in Nat : p = n + 1
      BY <3>1
    <3> QED
      BY <2>1, <2>2, <2>4, <3>1, <3>2, LuaContinues
  <2>6. Told' = args[n + 1] /\ n < Len(args)
    <3>1. popped' = args[n + 1] /\ n < Len(args) /\ self' = h
      BY <1>1, <2>4 DEF Gives, Returns
    <3>2. object'[h] = Stream(object[h].header, args, n + 1, FALSE)
      BY <2>3, <2>4 DEF LuaSafe, LuaTypeOK
    <3>3. object'[h] # Gone /\ ~object'[h].stale
      <4>1. PICK hd \in Headers, p \in Nat : hd = object[h].header /\ p = n + 1
        BY <2>1, <2>2, <2>4, LuaParts DEF LuaSafe
      <4>2. \A b \in BOOLEAN : Stream(hd, args, p, b) # Gone
        BY <2>4, <4>1, LuaStreams
      <4>3. ~Stream(hd, args, p, FALSE).stale
        BY DEF Stream
      <4> QED
        BY <3>2, <4>1, <4>2, <4>3
    <3> QED
      BY <3>1, <3>3, LuaTells
  <2>7. List!Pop(h)
    BY <2>5, <2>6 DEF List!Pop, LuaHeader, LuaContent, LuaPlace
  <2> QED
    BY <2>7 DEF List!Next
<1>2. CASE Quiet(h) \/ Throws(h, "Pop")
  BY <1>2, LuaStays, LuaTells DEF Quiet, Throws, Returns
<1>3. ASSUME object[h].stale, NEW a, Returns(h, a), UNCHANGED object
      PROVE  List!Next
  <2>1. object[h] # Gone
    BY DEF Pop, Live
  <2>2. Told' = Null
    BY <1>3, <2>1, LuaTells DEF Returns
  <2> QED
    BY <1>3, <2>2, LuaStays
<1> QED
  BY <1>1, <1>2, <1>3 DEF Pop, PopStale

LEMMA LuaPushesList ==
  ASSUME LuaSafe, NEW h \in Handles, NEW v \in Values, Push(h, v)
  PROVE  List!Next
<1>1. ASSUME Accepts(v), NEW contents \in Contents, Put(h, Argument(v, contents))
      PROVE  List!Next
  <2>1. object[h] # Gone
    BY DEF Push, Live
  <2>2. PICK a \in Arguments, args \in Seq(Arguments), n \in Nat :
          a = Argument(v, contents) /\ args = Has(h) /\ n = object[h].place
    <3>1. Argument(v, contents) \in Arguments
      BY <1>1 DEF Arguments, Pushed, Pushable
    <3>2. Has(h) \in Seq(Arguments) /\ object[h].place \in Nat
      BY <2>1, LuaParts DEF LuaSafe
    <3> QED
      BY <3>1, <3>2
  <2>3. PICK stale \in BOOLEAN, longer \in Seq(Arguments) :
          /\ longer = Append(args, a)
          /\ object' = [object EXCEPT ![h] = Stream(object[h].header, longer, n, stale)]
    <3>1. Append(args, a) \in Seq(Arguments) /\ object[h].stale \in BOOLEAN
      BY <2>1, <2>2, AppendProperties, LuaParts DEF LuaSafe
    <3>2. PICK moved \in BOOLEAN :
            object' = [object EXCEPT ![h] = Stream(object[h].header, Append(args, a), n,
                                                   object[h].stale \/ moved)]
      BY <1>1, <2>2 DEF Put, Changes
    <3>3. (object[h].stale \/ moved) \in BOOLEAN
      BY <3>1
    <3> QED
      BY <3>1, <3>2, <3>3
  <2>4. /\ List!Live(h) /\ UNCHANGED LuaHeader /\ UNCHANGED LuaPlace
        /\ LuaContent' = [LuaContent EXCEPT ![h] = longer] /\ LuaContent[h] = args
    BY <2>1, <2>2, <2>3, LuaContinues
  <2>5. Told' = Null
    BY <1>1, LuaTells DEF Put, Returns
  <2>6. List!Push(h, a)
    BY <2>3, <2>4, <2>5 DEF List!Push, LuaHeader, LuaContent, LuaPlace
  <2> QED
    BY <2>6 DEF List!Next
<1>2. CASE Quiet(h) \/ Throws(h, "Push_File")
  BY <1>2, LuaStays, LuaTells DEF Quiet, Throws, Returns
<1> QED
  BY <1>1, <1>2 DEF Push

LEMMA LuaJobArgumentsList ==
  ASSUME LuaSafe, NEW h \in Handles, PopJobArguments(h)
  PROVE  List!Next
<1>1. CASE IsPrefix(JobTypes, Types(h))
  <2>1. object[h] # Gone /\ 3 <= Len(Has(h)) /\ 3 \in Nat /\ FALSE \in BOOLEAN
    BY <1>1, LuaJobArgumentsKeeps DEF PopJobArguments, Live
  <2>2. PICK args \in Seq(Arguments) : args = Has(h)
    BY <2>1, LuaParts DEF LuaSafe
  <2>3. object' = [object EXCEPT ![h] = Stream(object[h].header, args, 3, FALSE)] /\ Told' = Null
    BY <1>1, <2>2, LuaTells DEF PopJobArguments, Returns
  <2>4. /\ List!Live(h) /\ UNCHANGED LuaHeader /\ UNCHANGED LuaContent
        /\ LuaContent[h] = args /\ LuaPlace' = [LuaPlace EXCEPT ![h] = 3]
    BY <2>1, <2>2, <2>3, LuaContinues
  <2>5. 3 <= Len(args)
    BY <2>1, <2>2
  <2>6. List!PopFirst(h, 3)
    BY <2>3, <2>4, <2>5 DEF List!PopFirst, LuaHeader, LuaContent, LuaPlace
  <2>7. 3 \in 0..Len(LuaContent[h])
    <3>1. Len(args) \in Nat
      BY LenProperties
    <3> QED
      BY <2>4, <2>5, <3>1
  <2> QED
    BY <2>6, <2>7 DEF List!Next, LuaContent
<1>2. CASE ~IsPrefix(JobTypes, Types(h))
  BY <1>2, LuaStays, LuaTells DEF PopJobArguments, Throws, Returns
<1> QED
  BY <1>1, <1>2

LEMMA LuaAnswersList ==
  ASSUME LuaSafe, NEW h \in Handles, NEW t \in Handles, BuildResponse(t, h)
  PROVE  List!Next
<1>1. CASE Has(h) = <<>>
  BY <1>1, LuaStays, LuaTells DEF BuildResponse, Throws, Returns
<1>2. CASE Has(h) # <<>>
  <2>1. object[h] # Gone /\ object[t] = Gone /\ Changes(t, Reply(h)) /\ Told' = Null
    BY <1>2, LuaTells DEF BuildResponse, Live, Returns
  <2>2. List!Live(h) /\ ~List!Live(t)
    BY <2>1, LuaKnows
  <2>3. PICK hd \in Headers : hd = Header(object[h].header.code, TRUE, object[h].header.ident)
    BY <1>2, <2>1, LuaReply
  <2>4. PICK a \in Arguments, args \in Seq(Arguments) :
          args \in {<<>>, <<a>>} /\ Reply(h) = Fresh(hd, args)
    <3>1. <<>> \in Seq(Arguments) /\ \A x \in Arguments : <<x>> \in Seq(Arguments)
      OBVIOUS
    <3>2. Has(h)[1] \in Arguments
      BY <1>2, <2>1, LuaReply
    <3>3. \/ Reply(h) = Fresh(hd, <<>>)
          \/ \E x \in Arguments : Reply(h) = Fresh(hd, <<x>>)
      BY <1>2, <2>1, <2>3, LuaReply
    <3> QED
      BY <3>1, <3>2, <3>3
  <2>5. List!Put(t, hd, args, 0)
    BY <2>1, <2>4, LuaBegins
  <2>6. List!Answer(t, h, hd, a)
    BY <2>1, <2>2, <2>4, <2>5 DEF List!Answer
  <2> QED
    BY <2>6 DEF List!Next
<1> QED
  BY <1>1, <1>2

LEMMA LuaNextList ==
  ASSUME LuaSafe, LuaNext
  PROVE  List!Next
<1>1. ASSUME NEW h \in Handles, NotAStream(h) \/ Reads(h)
      PROVE  List!Next
  BY <1>1, LuaStays, LuaTells DEF NotAStream, Reads, CountArguments, GetArgTypes, GetHeader, GetData,
    GetArgData, VerifyArgs, SendStream, GetCSIter, Quiet, Throws, Returns
<1>2. ASSUME NEW h \in Handles, Collect(h)
      PROVE  List!Next
  <2>1. object' = [object EXCEPT ![h] = Gone] /\ Told' = Null
    BY <1>2, LuaTells DEF Collect, Changes, Returns
  <2>2. List!Put(h, Gone, <<>>, 0)
    BY <2>1, LuaFrees
  <2>3. List!Free(h)
    BY <2>1, <2>2 DEF List!Free
  <2> QED
    BY <2>3 DEF List!Next
<1>3. ASSUME NEW h \in Handles, Rewind(h)
      PROVE  List!Next
  <2>1. object[h] # Gone
    BY <1>3 DEF Rewind, Live
  <2>2. PICK args \in Seq(Arguments) : args = Has(h)
    BY <2>1, LuaParts DEF LuaSafe
  <2>3. object' = [object EXCEPT ![h] = Stream(object[h].header, args, 0, FALSE)] /\ Told' = Null
    BY <1>3, <2>2, LuaTells DEF Rewind, Changes, Fresh, Returns
  <2>4. 0 \in Nat /\ FALSE \in BOOLEAN
    OBVIOUS
  <2>5. /\ List!Live(h) /\ UNCHANGED LuaHeader /\ UNCHANGED LuaContent
        /\ LuaPlace' = [LuaPlace EXCEPT ![h] = 0]
    BY <2>1, <2>2, <2>3, <2>4, LuaContinues
  <2>6. List!Rewind(h)
    BY <2>3, <2>5 DEF List!Rewind, LuaHeader, LuaContent, LuaPlace
  <2> QED
    BY <2>6 DEF List!Next
<1>4. ASSUME NEW h \in Handles, NEW code \in Codes, NEW ident \in Idents, New(h, code, ident)
      PROVE  List!Next
  <2>1. PICK hd \in Headers, args \in Seq(Arguments) : hd = Header(code, FALSE, ident) /\ args = <<>>
    BY EmptySeq DEF Header, Headers
  <2>2. Changes(h, Fresh(hd, args)) /\ Told' = Null /\ object[h] = Gone
    BY <1>4, <2>1, LuaTells DEF New, Returns
  <2>3. List!Put(h, hd, args, 0) /\ ~List!Live(h)
    BY <2>2, LuaBegins, LuaKnows
  <2>4. List!Make(h, hd)
    BY <2>1, <2>2, <2>3 DEF List!Make
  <2> QED
    BY <2>4 DEF List!Next
<1>5. ASSUME NEW h \in Handles, NEW t \in Handles, Clone(t, h)
      PROVE  List!Next
  <2>1. object[h] # Gone /\ Told' = Null
    BY <1>5, LuaTells DEF Clone, Live, Returns
  <2>2. PICK hd \in Headers, args \in Seq(Arguments) : hd = object[h].header /\ args = Has(h)
    BY <2>1, LuaParts DEF LuaSafe
  <2>3. List!Put(t, hd, args, 0)
    BY <1>5, <2>2, LuaBegins DEF Clone
  <2>4. LuaHeader[h] = hd /\ LuaContent[h] = args /\ List!Live(h)
    BY <2>1, <2>2, LuaKnows
  <2>5. List!Load(t, h)
    BY <2>1, <2>3, <2>4 DEF List!Load, List!Put, LuaHeader, LuaContent
  <2> QED
    BY <2>5 DEF List!Next
<1> QED
  BY <1>1, <1>2, <1>3, <1>4, <1>5, LuaPopsList, LuaPushesList, LuaJobArgumentsList,
     LuaAnswersList DEF LuaNext, DoCSIter

-----------------------------------------------------------------------------
(* The theorems.                                                           *)

LEMMA LuaInitSafe ==
  ASSUME LuaInit
  PROVE  LuaSafe
<1>1. <<>> \in Seq(Arguments)
  BY EmptySeq
<1> QED
  BY <1>1 DEF LuaInit, LuaSafe, LuaTypeOK, GivenOnce

\* Whatever a script does with its streams (node/script.cpp): every one is well
\* formed, and it has given its arguments once and in order from its start, by
\* Pop and by Iter, over pushes, rewinds, clones and replies.
THEOREM LuaStreamsSafe == LuaSpec => []LuaSafe
<1>1. LuaInit => LuaSafe
  BY LuaInitSafe
<1>2. LuaSafe /\ [LuaNext]_luaVars => LuaSafe'
  BY LuaSafeStep
<1> QED
  BY <1>1, <1>2, PTL DEF LuaSpec

\* For any widths, texts and codes: what PushArg_LuaConationStream took comes
\* back by PopArg_LuaConationStream as it was exactly when the argument has room
\* for it: a 64-bit integer whatever its sign, a 32-bit one that fits, a text
\* without NUL (bytes always), a file's name without directories, a code that is
\* a number and not 0, a message that is not empty.
THEOREM LuaValuesComeBack == LuaSpec => []ComesBack
<1>1. LuaSafe => ComesBack
  <2> SUFFICES ASSUME LuaSafe, NEW h \in Handles, object[h] # Gone, NEW i \in DOMAIN Has(h)
               PROVE  \A k \in DOMAIN Has(h)[i].from :
                        Survives(Has(h)[i], k) <=> GivenBack(Has(h)[i])[k] = Has(h)[i].from[k]
    BY DEF ComesBack
  <2>1. PICK a \in Arguments : a = Has(h)[i]
    BY LuaParts DEF LuaSafe
  <2> QED
    BY <2>1, LuaComesBack
<1> QED
  BY <1>1, LuaStreamsSafe, PTL

\* A script's streams are argument lists: every call of VL.ConationStream is an
\* operation of ArgList on them, up to the one whose exception ends the node.
THEOREM LuaStreamsAreLists == LuaSpec => ListSpec
<1>1. LuaInit => List!Init
  BY DEF LuaInit, List!Init, Told
<1>2. LuaSafe /\ [LuaNext]_luaVars => [List!Next]_(List!vars)
  <2>1. ASSUME UNCHANGED luaVars
        PROVE  UNCHANGED List!vars
    BY <2>1 DEF luaVars, List!vars, Told
  <2> QED
    BY <2>1, LuaNextList
<1> QED
  BY <1>1, <1>2, LuaStreamsSafe, PTL DEF LuaSpec, ListSpec, List!Spec

-----------------------------------------------------------------------------
(* NodeJobs.                                                               *)

\* The requests of the jobs: each job has its own, of its command.
Asked ==
  /\ counter <= Now + 1
  /\ \A id \in Ids :
       /\ request[id] <= Now
       /\ request[id] # 0 => op[id] # "STARTUP" /\ op[id] = streams[request[id]].op
       /\ request[id] = 0 => op[id] \in {"STARTUP", "none"}
       /\ op[id] = "none" <=> id > counter
       /\ id > counter => request[id] = 0
  /\ \A i, j \in Ids : request[i] = request[j] /\ request[i] # 0 => i = j

\* The stream that the main thread handles.
Handling ==
  /\ main \in {"forward", "kill", "join"} => Now > 0 /\ Cur.op # "N2N"
  /\ main \in {"kill", "join"} => Cur.op \in Kills

\* Where the jobs are.
Places ==
  /\ ThreadHasJob
  /\ victim # 0 => victim \in Listed
  /\ \A id \in Ids : /\ op[id] = "STARTUP" => step[id] \notin {"lock", "take", "work", "at"}
                     /\ step[id] \in {"lock", "take"} => inbox[id] # <<>>
                     /\ step[id] = "enter" /\ op[id] # "STARTUP" => inbox[id] # <<>>

\* Each request is answered once.
AnswerOf(id) ==
  request[id] # 0 =>
    /\ step[id] \in Running => answers[request[id]] = <<>>
    /\ step[id] \in {"ended", "joined"} =>
         \/ \E status : answers[request[id]] = <<status>>
         \/ answers[request[id]] = <<>> /\ id \in cancelled
Answers ==
  /\ DOMAIN answers = 1..MaxStreams
  /\ \A n \in 1..MaxStreams : n > Now => answers[n] = <<>>
  /\ \A id \in Ids : AnswerOf(id)

\* The streams put into one queue, in the order they came: what else came, in
\* the one, and what came from other nodes.
InOrder(q) ==
  /\ \A i, j \in 1..Len(q) : i < j => q[i] < q[j]
  /\ \A i \in 1..Len(q) : q[i] <= Now
Busy == main \in {"forward", "kill", "join"}
Copied(q, first) ==
  /\ InOrder(q)
  /\ \A i \in 1..Len(q) :
       q[i] >= first /\ streams[q[i]].op # "N2N" /\ (Busy => q[i] < Now)
Forwarded(q) ==
  InOrder(q) /\ \A i \in 1..Len(q) : streams[q[i]].op = "N2N"

Handed ==
  \A id \in Ids :
    /\ Copied(got[id].in, request[id]) /\ Forwarded(got[id].n2n)
    /\ id > counter => got[id] = [in |-> <<>>, n2n |-> <<>>]

Unloaded == \E n \in 1..Now : streams[n].op = "MOD_UNLOADSCRIPT"

\* What the last three parts of JobsSafe rest on.
Shared ==
  /\ ~strayed => cwd = path
  /\ WaitFindsStream
  /\ \A id \in Ids : op[id] = "MOD_EXECFUNC" /\ step[id] = "at" => scripts \/ Unloaded
  /\ OnlyUnloadKills

JobsInv ==
  JobsTypeOK /\ Asked /\ Handling /\ Places /\ Answers /\ Handed /\ Shared

-----------------------------------------------------------------------------
(* Lists *)

\* RemoveAt leaves out the one element.
LEMMA RemoveAtProperties ==
  ASSUME NEW S, NEW s \in Seq(S), NEW i \in 1..Len(s)
  PROVE  /\ RemoveAt(s, i) \in Seq(S)
         /\ Len(RemoveAt(s, i)) = Len(s) - 1
         /\ \A k \in 1..(Len(s) - 1) : RemoveAt(s, i)[k] = IF k < i THEN s[k] ELSE s[k + 1]
<1> DEFINE a == SubSeq(s, 1, i - 1)
           b == SubSeq(s, i + 1, Len(s))
<1>0. Len(s) \in Nat /\ i \in Nat
  OBVIOUS
<1>1. /\ a \in Seq(S) /\ Len(a) = i - 1
      /\ \A k \in 1..(i - 1) : a[k] = s[k]
  BY <1>0, SubSeqProperties
<1>2. /\ b \in Seq(S) /\ Len(b) = Len(s) - i
      /\ \A k \in 1..(Len(s) - i) : b[k] = s[i + k]
  BY <1>0, SubSeqProperties
<1>3. RemoveAt(s, i) = a \o b
  BY DEF RemoveAt
<1> HIDE DEF a, b
<1>4. /\ a \o b \in Seq(S) /\ Len(a \o b) = Len(a) + Len(b)
      /\ \A k \in 1..(Len(a) + Len(b)) :
           (a \o b)[k] = IF k <= Len(a) THEN a[k] ELSE b[k - Len(a)]
  <2>1. a \in Seq(S) /\ b \in Seq(S)
    BY <1>1, <1>2
  <2> QED
    BY <2>1, ConcatProperties
<1>5. ASSUME NEW k \in 1..(Len(s) - 1), k < i
      PROVE  (a \o b)[k] = s[k]
  BY <1>0, <1>1, <1>2, <1>4, <1>5
<1>6. ASSUME NEW k \in 1..(Len(s) - 1), ~(k < i)
      PROVE  (a \o b)[k] = s[k + 1]
  <2> DEFINE m == k - (i - 1)
  <2>1. m \in 1..(Len(s) - i) /\ i + m = k + 1 /\ k - Len(a) = m /\ ~(k <= Len(a))
        /\ k \in 1..(Len(a) + Len(b))
    BY <1>0, <1>1, <1>2, <1>6
  <2>2. b[m] = s[i + m]
    BY <2>1, <1>2
  <2>3. (a \o b)[k] = b[k - Len(a)]
    BY <2>1, <1>4
  <2> QED
    BY <2>1, <2>2, <2>3
<1> QED
  BY <1>0, <1>1, <1>2, <1>3, <1>4, <1>5, <1>6

\* Erasing a job keeps the others, in their order.
LEMMA ErasedList ==
  ASSUME JobsTypeOK, NEW i \in 1..Len(list), Erased(i)
  PROVE  /\ list' \in Seq(1..counter)
         /\ \A j, k \in 1..Len(list') : j < k => list'[j] < list'[k]
         /\ Listed' = Listed \ {list[i]}
<1>1. list \in Seq(1..counter) /\ counter \in Nat /\ Len(list) \in Nat /\ i \in Nat /\ i <= Len(list)
  BY DEF JobsTypeOK, Ids
<1>2. /\ list' \in Seq(1..counter) /\ Len(list') = Len(list) - 1
      /\ \A k \in 1..(Len(list) - 1) : list'[k] = IF k < i THEN list[k] ELSE list[k + 1]
  BY <1>1, RemoveAtProperties DEF Erased
<1>3. \A j, k \in 1..Len(list) : j < k => list[j] < list[k]
  BY DEF JobsTypeOK
<1> DEFINE From(k) == IF k < i THEN k ELSE k + 1
<1>4. ASSUME NEW k \in 1..Len(list')
      PROVE  /\ From(k) \in 1..Len(list) /\ list'[k] = list[From(k)] /\ From(k) # i
             /\ list[From(k)] # list[i]
  <2>0. k \in 1..(Len(list) - 1)
    BY <1>2
  <2>1. /\ From(k) \in 1..Len(list) /\ list'[k] = list[From(k)]
        /\ From(k) < i \/ From(k) > i
    <3>1. list'[k] = IF k < i THEN list[k] ELSE list[k + 1]
      BY <2>0, <1>2
    <3>2. k \in Nat /\ 1 <= k /\ k + 1 <= Len(list)
      BY <2>0, <1>1
    <3> QED
      BY <3>1, <3>2, <1>1
  <2> HIDE DEF From
  <2>2. list[From(k)] < list[i] \/ list[From(k)] > list[i]
    BY <2>1, <1>1, <1>3
  <2>3. list[From(k)] \in Nat /\ list[i] \in Nat
    BY <2>1, <1>1
  <2> QED
    BY <2>1, <2>2, <2>3
<1>5. ASSUME NEW j \in 1..Len(list'), NEW k \in 1..Len(list'), j < k
      PROVE  list'[j] < list'[k]
  <2>1. From(j) < From(k)
    BY <1>5, <1>1, <1>2
  <2> HIDE DEF From
  <2> QED
    BY <2>1, <1>3, <1>4
<1>6. Listed' \subseteq Listed \ {list[i]}
  BY <1>4 DEF Listed
<1>7. ASSUME NEW k \in 1..Len(list), k # i
      PROVE  \E j \in 1..Len(list') : list'[j] = list[k]
  <2>1. CASE k < i
    <3>1. k \in 1..Len(list') /\ list'[k] = list[k]
      BY <2>1, <1>1, <1>2
    <3> QED
      BY <3>1
  <2>2. CASE k > i
    <3>1. k - 1 \in 1..Len(list') /\ ~(k - 1 < i) /\ (k - 1) + 1 = k
      BY <2>2, <1>1, <1>2
    <3>2. list'[k - 1] = list[k]
      BY <3>1, <1>2
    <3> QED
      BY <3>1, <3>2
  <2> QED
    BY <2>1, <2>2, <1>1, <1>7
<1>8. Listed \ {list[i]} \subseteq Listed'
  BY <1>7 DEF Listed
<1> QED
  BY <1>2, <1>5, <1>6, <1>8

\* A new job comes behind the others.
LEMMA NewJobList ==
  ASSUME JobsTypeOK, list' = Append(list, counter + 1), counter' = counter + 1
  PROVE  /\ list' \in Seq(1..counter')
         /\ \A j, k \in 1..Len(list') : j < k => list'[j] < list'[k]
         /\ Listed' = Listed \cup {counter + 1}
<1>1. list \in Seq(1..counter) /\ counter \in Nat /\ Len(list) \in Nat
  BY DEF JobsTypeOK, Ids
<1>2. list \in Seq(1..(counter + 1)) /\ \A k \in 1..Len(list) : list[k] \in 1..counter
  <2>1. 1..counter \subseteq 1..(counter + 1)
    BY <1>1
  <2> QED
    BY <2>1, <1>1, SeqMonotonic
<1>3. /\ list' \in Seq(1..(counter + 1)) /\ Len(list') = Len(list) + 1
      /\ \A k \in 1..Len(list) : list'[k] = list[k]
      /\ list'[Len(list) + 1] = counter + 1
  <2>1. counter + 1 \in 1..(counter + 1)
    BY <1>1
  <2> QED
    BY <2>1, <1>2, AppendProperties
<1>4. \A j, k \in 1..Len(list) : j < k => list[j] < list[k]
  BY DEF JobsTypeOK
<1>5. ASSUME NEW j \in 1..Len(list'), NEW k \in 1..Len(list'), j < k
      PROVE  list'[j] < list'[k]
  <2>1. j \in 1..Len(list) /\ list'[j] = list[j]
    BY <1>1, <1>3, <1>5
  <2>2. CASE k \in 1..Len(list)
    BY <2>1, <2>2, <1>3, <1>4, <1>5
  <2>3. CASE k = Len(list) + 1
    <3>1. list'[j] \in 1..counter
      BY <2>1, <1>2
    <3> QED
      BY <2>3, <3>1, <1>1, <1>3
  <2> QED
    BY <2>2, <2>3, <1>1, <1>3
<1>6. Listed' \subseteq Listed \cup {counter + 1}
  <2> SUFFICES ASSUME NEW k \in 1..Len(list') PROVE list'[k] \in Listed \cup {counter + 1}
    BY DEF Listed
  <2>1. k \in 1..Len(list) \/ k = Len(list) + 1
    BY <1>1, <1>3
  <2> QED
    BY <2>1, <1>3 DEF Listed
<1>7. Listed \cup {counter + 1} \subseteq Listed'
  <2>1. \A k \in 1..Len(list) : k \in 1..Len(list') /\ list'[k] = list[k]
    BY <1>1, <1>3
  <2>2. Len(list) + 1 \in 1..Len(list')
    BY <1>1, <1>3
  <2> QED
    BY <2>1, <2>2, <1>3 DEF Listed
<1> QED
  BY <1>3, <1>5, <1>6, <1>7

\* Jobs are known by their numbers.
LEMMA ListedIds ==
  JobsTypeOK => Listed \subseteq 1..counter /\ Listed \subseteq Ids
<1> SUFFICES ASSUME JobsTypeOK PROVE Listed \subseteq 1..counter /\ Listed \subseteq Ids
  OBVIOUS
<1>1. list \in Seq(1..counter) /\ counter \in {0} \cup Ids /\ MaxStreams \in Nat
  BY JobsAssumption DEF JobsTypeOK
<1>2. Listed \subseteq 1..counter
  <2>1. \A i \in 1..Len(list) : list[i] \in 1..counter
    BY <1>1, ElementOfSeq
  <2> QED
    BY <2>1 DEF Listed
<1>3. 1..counter \subseteq Ids
  BY <1>1 DEF Ids
<1> QED
  BY <1>2, <1>3

LEMMA LeastOne ==
  ASSUME NEW S \in SUBSET Nat, S # {}
  PROVE  \E x \in S : \A y \in S : x <= y
<1>1. PICK x \in S : \A y \in S : ~(<<y, x>> \in OpToRel(<, Nat))
  BY NatLessThanWellFounded, WFMin
<1>2. ASSUME NEW y \in S
      PROVE  x <= y
  <2> SUFFICES ASSUME y < x PROVE FALSE
    BY x \in Nat, y \in Nat
  <2>1. <<y, x>> \in Nat \X Nat /\ <<y, x>>[1] < <<y, x>>[2]
    OBVIOUS
  <2> QED
    BY <1>1, <2>1 DEF OpToRel
<1> QED
  BY <1>2

-----------------------------------------------------------------------------
(* The threads of the jobs: what their steps have in common.               *)

USE DEF mainVars, askVars, queueVars, dirVars, UnchangedJobs, Stay, StayQueues, StaySweeping,
  GoesOn, ThreadEnds, LetGo, Takes, AnswerMain, Answer, Dies, At, Calls, Up, Runs, Finish

Thread(id) == JobStep(id) \/ ScriptCall(id) \/ Cancelled(id)

\* How a step of a job's thread ends, or does not.
Continues(id) == /\ UNCHANGED answers
                 /\ UNCHANGED step \/ \E where \in Running : GoesOn(id, where)
Answers1(id) == GoesOn(id, "ended") /\ \E status : Answer(id, status)
Silent(id) == /\ GoesOn(id, "ended") /\ UNCHANGED answers
              /\ request[id] = 0 \/ id \in cancelled

\* What it leaves alone.
LEMMA WorkFrame ==
  ASSUME NEW id \in Ids, Work(id)
  PROVE  /\ Stay /\ StayQueues /\ step[id] = "work" /\ UNCHANGED <<path, cwd, strayed, scripts>>
         /\ \/ UNCHANGED down /\ LetGo(id) /\ Answers1(id)
            \/ Dies("vanished")
<1> USE DEF Ordinary, Answers1
<1>1. CASE MoveFile(id) \/ CopyFile(id) \/ ListDirectory(id) \/ ExecCmd(id)
  BY <1>1 DEF MoveFile, CopyFile, ListDirectory, ExecCmd
<1>2. CASE GetProcesses(id) \/ GetCwd(id) \/ DeleteFiles(id)
  BY <1>2 DEF GetProcesses, GetCwd, DeleteFiles
<1>3. CASE PlaceFiles(id) \/ KillProcesses(id)
  BY <1>3 DEF PlaceFiles, KillProcesses
<1>4. CASE FetchFiles(id)
  BY <1>4 DEF FetchFiles
<1> QED
  BY <1>1, <1>2, <1>3, <1>4 DEF Work

LEMMA ThreadFrame ==
  ASSUME NEW id \in Ids, Thread(id)
  PROVE  /\ UNCHANGED <<mainVars, op, request, cancelled, got>>
         /\ step[id] \in Running /\ Up
         /\ Continues(id) \/ Answers1(id) \/ Silent(id)
<1> USE DEF Continues, Answers1, Silent, Running
<1>1. CASE Enter(id) \/ LockDirectory(id) \/ Snippet(id)
  BY <1>1 DEF Enter, LockDirectory, Snippet
<1>2. CASE Take(id)
  BY <1>2 DEF Take
<1>3. CASE Work(id)
  BY <1>3, WorkFrame DEF Work, MoveFile, CopyFile, ListDirectory, ExecCmd, GetProcesses, GetCwd,
    DeleteFiles, PlaceFiles, KillProcesses, FetchFiles
<1>4. CASE ChangeDirectory(id) \/ UnloadScript(id)
  BY <1>4 DEF ChangeDirectory, UnloadScript
<1>5. CASE LoadScript(id) \/ StoreScript(id)
  BY <1>5 DEF LoadScript, StoreScript
<1>6. CASE FindScript(id)
  BY <1>6 DEF FindScript
<1>7. CASE WaitPop(id)
  BY <1>7 DEF WaitPop
<1>8. CASE InitScriptFails(id) \/ ScriptReturns(id)
  BY <1>8 DEF InitScriptFails, ScriptReturns, ScriptOver
<1>9. CASE ScriptCall(id)
  BY <1>9 DEF ScriptCall, SetCaptureIncomingStreams, SetN2NState, RecvStream, RecvN2N, WaitN2N,
    ScriptChdir
<1>10. CASE Cancelled(id)
  BY <1>10 DEF Cancelled, Cancellable
<1> QED
  BY <1>1, <1>2, <1>3, <1>4, <1>5, <1>6, <1>7, <1>8, <1>9, <1>10 DEF Thread, JobStep

-----------------------------------------------------------------------------
(* The streams.                                                            *)

LEMMA StreamsKnown ==
  JobsTypeOK =>
    /\ Now \in Nat /\ MaxStreams \in Nat /\ Now <= MaxStreams /\ Ids \subseteq Nat
    /\ Len(plan.sent) \in Nat /\ Len(plan.sent) <= MaxStreams
    /\ plan.sent \in Seq(Range(plan.sent)) /\ streams \in Seq(Range(plan.sent))
    /\ \A n \in 1..Now : streams[n] = plan.sent[n]
    /\ \A n \in 1..Len(plan.sent) :
         /\ plan.sent[n].op \in (Ops \ {"STARTUP"}) \cup Others
         /\ plan.sent[n].op = "CHDIR" => plan.sent[n].arg \in Targets
<1> SUFFICES ASSUME JobsTypeOK PROVE StreamsKnown!2
  OBVIOUS
<1>1. /\ plan.sent \in Seq(Range(plan.sent)) /\ Len(plan.sent) <= MaxStreams
      /\ MaxStreams \in Nat
      /\ \A n \in 1..Len(plan.sent) :
           /\ plan.sent[n].op \in (Ops \ {"STARTUP"}) \cup Others
           /\ plan.sent[n].op = "CHDIR" => plan.sent[n].arg \in Targets
  BY JobsAssumption DEF JobsTypeOK
<1>2. Len(plan.sent) \in Nat
  BY <1>1, LenProperties
<1>3. streams = SubSeq(plan.sent, 1, Now) /\ Now \in 0..Len(plan.sent)
  BY DEF JobsTypeOK
<1>4. \A n \in 1..Now : plan.sent[n] \in Range(plan.sent)
  BY <1>1, <1>2, <1>3
<1>5. /\ SubSeq(plan.sent, 1, Now) \in Seq(Range(plan.sent))
      /\ \A n \in 1..Now : SubSeq(plan.sent, 1, Now)[n] = plan.sent[n]
  BY <1>2, <1>3, <1>4, SubSeqProperties
<1> QED
  BY <1>1, <1>2, <1>3, <1>5 DEF Ids

\* One more stream has come.
LEMMA TakesFrame ==
  ASSUME JobsTypeOK, NEW s, Takes(s), UNCHANGED plan
  PROVE  /\ Now' = Now + 1 /\ Now' \in 0..Len(plan.sent) /\ Now' \in 1..MaxStreams
         /\ streams' = SubSeq(plan.sent, 1, Now')
         /\ \A n \in 1..Now : streams'[n] = streams[n]
         /\ streams'[Now'] = s /\ Cur' = s
         /\ s.op \in (Ops \ {"STARTUP"}) \cup Others
<1>1. /\ Now \in Nat /\ Len(plan.sent) \in Nat /\ Len(plan.sent) <= MaxStreams
      /\ streams \in Seq(Range(plan.sent)) /\ plan.sent \in Seq(Range(plan.sent))
      /\ MaxStreams \in Nat
      /\ \A n \in 1..Now : streams[n] = plan.sent[n]
      /\ \A n \in 1..Len(plan.sent) : plan.sent[n].op \in (Ops \ {"STARTUP"}) \cup Others
  BY StreamsKnown
<1>2. Now < Len(plan.sent) /\ s = plan.sent[Now + 1] /\ s \in Range(plan.sent)
      /\ streams' = Append(streams, s)
  BY <1>1
<1>3. /\ streams' \in Seq(Range(plan.sent)) /\ Len(streams') = Now + 1
      /\ \A n \in 1..Now : streams'[n] = streams[n]
      /\ streams'[Now + 1] = s
  BY <1>1, <1>2, AppendProperties DEF Now
<1>4. Now' = Now + 1
  BY <1>3 DEF Now
<1>5. /\ SubSeq(plan.sent, 1, Now + 1) \in Seq(Range(plan.sent))
      /\ Len(SubSeq(plan.sent, 1, Now + 1)) = Now + 1
      /\ \A n \in 1..(Now + 1) : SubSeq(plan.sent, 1, Now + 1)[n] = plan.sent[n]
  <2>1. \A n \in 1..(Now + 1) : plan.sent[n] \in Range(plan.sent)
    BY <1>1, <1>2
  <2> QED
    BY <1>1, <2>1, SubSeqProperties
<1>6. \A n \in 1..(Now + 1) : streams'[n] = plan.sent[n]
  BY <1>1, <1>2, <1>3
<1>7. streams' = SubSeq(plan.sent, 1, Now + 1)
  BY <1>3, <1>5, <1>6, SeqEqual
<1> QED
  BY <1>1, <1>2, <1>3, <1>4, <1>7 DEF Cur

-----------------------------------------------------------------------------
(* Types, by parts.                                                        *)

StreamsOK ==
  plan \in Plans /\ Now \in 0..Len(plan.sent) /\ streams = SubSeq(plan.sent, 1, Now)
MainOK ==
  /\ main \in {"idle", "sweep", "forward", "kill", "join"} /\ found \in BOOLEAN
  /\ victim \in {0} \cup Ids /\ (main = "join" <=> victim # 0)
  /\ iter \in Nat /\ (main = "sweep" <=> iter # 0)
ListOK ==
  /\ counter \in {0} \cup Ids /\ list \in Seq(1..counter)
  /\ \A i, j \in 1..Len(list) : i < j => list[i] < list[j]
StepOK ==
  /\ step \in [Ids -> Running \cup {"none", "ended", "joined"}]
  /\ \A id \in Ids : step[id] = "none" <=> id > counter
AskOK ==
  /\ op \in [Ids -> Ops \cup {"none"}] /\ request \in [Ids -> 0..MaxStreams]
  /\ capture \in [Ids -> BOOLEAN] /\ receive \in [Ids -> BOOLEAN] /\ calls \in Nat
QueuesOK ==
  /\ inbox \in [Ids -> Queue] /\ n2n \in [Ids -> Queue] /\ posts \in [Ids -> Nat]
  /\ polled \in [Ids -> BOOLEAN] /\ got \in [Ids -> [in : Queue, n2n : Queue]]
DirsOK ==
  /\ cancelled \subseteq Ids /\ lock \in {0} \cup Ids /\ cwd \in Dirs /\ path \in Targets
  /\ scripts \in BOOLEAN /\ strayed \in BOOLEAN

LEMMA TypeParts ==
  JobsTypeOK <=>
    StreamsOK /\ MainOK /\ ListOK /\ StepOK /\ AskOK /\ QueuesOK /\ DirsOK
BY DEF JobsTypeOK, StreamsOK, MainOK, ListOK, StepOK, AskOK, QueuesOK, DirsOK

\* The steps of the main thread that handle a stream but start no job.
AtOnceStep(s) ==
  HandleAtOnce(s) \/ BuildRunningJobsReport(s) \/ HandleUnknown(s)

LEMMA AtOnceFrame ==
  ASSUME NEW s, AtOnceStep(s)
  PROVE  /\ Takes(s) /\ main' = "forward" /\ s.op \notin {"N2N"} \cup Kills
         /\ UNCHANGED <<victim, found, list, counter, iter, down>> /\ UnchangedJobs
         /\ UNCHANGED answers \/ \E status : AnswerMain(status)
BY DEF AtOnceStep, HandleAtOnce, BuildRunningJobsReport, HandleUnknown, AtOnce, Kills

\* The cases of a step.
LEMMA StepCases ==
  ASSUME JobsNext
  PROVE  /\ UNCHANGED plan
         /\ \/ \E s : ForwardN2N(s) \/ AtOnceStep(s) \/ HandleSleep(s) \/ StartJob(s) \/ HandleKill(s)
            \/ KillFirst \/ Joined \/ KillDone \/ ForwardToScriptJobs \/ Sweep
            \/ ProcessCompletedJobs \/ \E id \in Ids : Thread(id)
BY DEF JobsNext, Handle, MainStep, Thread, AtOnceStep

LEMMA StreamsStep ==
  ASSUME JobsInv, JobsNext
  PROVE  StreamsOK'
<1>1. JobsTypeOK /\ UNCHANGED plan /\ plan \in Plans
  BY StepCases DEF JobsInv, JobsTypeOK
<1>2. ASSUME NEW s, Takes(s)
      PROVE  StreamsOK'
  BY <1>1, <1>2, TakesFrame DEF StreamsOK
<1>3. ASSUME UNCHANGED streams
      PROVE  StreamsOK'
  BY <1>1, <1>3 DEF JobsTypeOK, StreamsOK, Now
<1>4. ASSUME NEW s, ForwardN2N(s) \/ AtOnceStep(s) \/ HandleSleep(s) \/ StartJob(s) \/ HandleKill(s)
      PROVE  Takes(s)
  BY <1>4, AtOnceFrame DEF ForwardN2N, HandleSleep, StartJob, HandleKill
<1>5. ASSUME KillFirst \/ Joined \/ KillDone \/ ForwardToScriptJobs \/ Sweep \/ ProcessCompletedJobs
      PROVE  UNCHANGED streams
  BY <1>5 DEF KillFirst, Joined, KillDone, ForwardToScriptJobs, Sweep, ProcessCompletedJobs
<1>6. ASSUME NEW id \in Ids, Thread(id)
      PROVE  UNCHANGED streams
  BY <1>6, ThreadFrame
<1> QED
  BY StepCases, <1>2, <1>3, <1>4, <1>5, <1>6

LEMMA MainStepOK ==
  ASSUME JobsInv, JobsNext
  PROVE  MainOK'
<1>1. MainOK /\ ListOK /\ Ids \subseteq Nat
  BY TypeParts, StreamsKnown DEF JobsInv
<1> USE DEF MainOK, Ids
<1>2. ASSUME NEW s, ForwardN2N(s) \/ AtOnceStep(s) \/ HandleSleep(s) \/ StartJob(s) \/ HandleKill(s)
      PROVE  MainOK'
  <2>1. CASE ForwardN2N(s) \/ HandleSleep(s)
    BY <1>1, <2>1 DEF ForwardN2N, HandleSleep
  <2>2. CASE AtOnceStep(s)
    BY <1>1, <2>2, AtOnceFrame
  <2>3. CASE StartJob(s) \/ HandleKill(s)
    BY <1>1, <2>3 DEF StartJob, HandleKill
  <2> QED
    BY <1>2, <2>1, <2>2, <2>3
<1>3. CASE KillFirst
  <2>1. Listed \subseteq Ids \ {0}
    BY <1>1, ListedIds DEF JobsInv
  <2>2. PICK id \in Meant : victim' = id
    <3>1. Meant \subseteq Nat /\ Meant # {}
      BY <1>1, <1>3, <2>1 DEF KillFirst, Meant
    <3>2. \E x \in Meant : \A y \in Meant : x <= y
      BY <3>1, LeastOne
    <3> QED
      BY <3>2, <1>3 DEF KillFirst
  <2> QED
    BY <1>1, <1>3, <2>1, <2>2 DEF KillFirst, Meant
<1>4. CASE Joined
  BY <1>1, <1>4 DEF Joined
<1>5. CASE KillDone
  BY <1>1, <1>5 DEF KillDone
<1>6. CASE ForwardToScriptJobs
  BY <1>1, <1>6 DEF ForwardToScriptJobs
<1>7. CASE ProcessCompletedJobs
  BY <1>1, <1>7 DEF ProcessCompletedJobs
<1>8. CASE Sweep
  BY <1>1, <1>8 DEF Sweep
<1>9. ASSUME NEW id \in Ids, Thread(id)
      PROVE  MainOK'
  BY <1>1, <1>9, ThreadFrame
<1> QED
  BY StepCases, <1>2, <1>3, <1>4, <1>5, <1>6, <1>7, <1>8, <1>9

\* A job is started while there is room for one.
LEMMA StartJobFrame ==
  ASSUME JobsInv, NEW s, StartJob(s), UNCHANGED plan
  PROVE  /\ counter + 1 \in Ids /\ counter' = counter + 1 /\ list' = Append(list, counter + 1)
         /\ Listed' = Listed \cup {counter + 1}
         /\ s.op \in Ops \ {"STARTUP"} /\ Now' = Now + 1 /\ Now' \in 1..MaxStreams
<1>1. Takes(s) /\ JobsTypeOK /\ counter \in {0} \cup Ids /\ MaxStreams \in Nat
  BY JobsAssumption DEF StartJob, JobsInv, JobsTypeOK
<1>2. /\ Now' = Now + 1 /\ Now' \in 1..MaxStreams /\ Now \in Nat
      /\ s.op \in (Ops \ {"STARTUP"}) \cup Others
  BY <1>1, TakesFrame, StreamsKnown
<1>3. counter + 1 \in Ids
  BY <1>1, <1>2 DEF JobsInv, Asked, Ids
<1>4. counter' = counter + 1 /\ list' = Append(list, counter + 1)
  BY DEF StartJob, NewJob
<1>5. s.op \in Ops \ {"STARTUP"}
  BY <1>2 DEF StartJob, Ops, Others, Kills
<1> QED
  BY <1>1, <1>2, <1>3, <1>4, <1>5, NewJobList

\* The job that has been joined is in the list.
LEMMA VictimPlace ==
  ASSUME JobsInv, victim # 0
  PROVE  PlaceOf(victim) \in 1..Len(list) /\ list[PlaceOf(victim)] = victim
BY DEF JobsInv, Places, Listed, PlaceOf

\* What becomes of the list.
LEMMA ListKept ==
  ASSUME JobsInv, JobsNext
  PROVE  \/ UNCHANGED <<list, counter>>
         \/ \E s : StartJob(s)
         \/ Joined /\ UNCHANGED counter /\ Erased(PlaceOf(victim)) /\ victim # 0
         \/ KillDone /\ UNCHANGED counter /\ Cur.op = "USEUPDATE" /\ list' = <<>>
         \/ Sweep /\ UNCHANGED counter /\ iter \in 1..Len(list) /\ ~Alive(list[iter]) /\ Erased(iter)
<1>1. MainOK
  BY TypeParts DEF JobsInv
<1>2. ASSUME NEW s, ForwardN2N(s) \/ AtOnceStep(s) \/ HandleSleep(s) \/ HandleKill(s)
      PROVE  UNCHANGED <<list, counter>>
  BY <1>2, AtOnceFrame DEF ForwardN2N, HandleSleep, HandleKill
<1>3. CASE KillFirst \/ ForwardToScriptJobs \/ ProcessCompletedJobs
  BY <1>3 DEF KillFirst, ForwardToScriptJobs, ProcessCompletedJobs
<1>4. CASE Joined
  BY <1>1, <1>4 DEF Joined, MainOK
<1>5. CASE KillDone
  BY <1>5 DEF KillDone
<1>6. CASE Sweep
  <2>1. Len(list) \in Nat /\ iter \in Nat /\ iter # 0
    BY <1>1, <1>6 DEF MainOK, Sweep, JobsInv, JobsTypeOK
  <2> QED
    BY <2>1, <1>6 DEF Sweep
<1>7. ASSUME NEW id \in Ids, Thread(id)
      PROVE  UNCHANGED <<list, counter>>
  BY <1>7, ThreadFrame
<1> QED
  BY StepCases, <1>2, <1>3, <1>4, <1>5, <1>6, <1>7

LEMMA ListStep ==
  ASSUME JobsInv, JobsNext
  PROVE  ListOK'
<1>1. JobsTypeOK /\ ListOK /\ UNCHANGED plan
  BY TypeParts, StepCases DEF JobsInv
<1> USE DEF ListOK
<1>2. CASE UNCHANGED <<list, counter>>
  BY <1>1, <1>2 DEF Ids
<1>3. ASSUME NEW s, StartJob(s)
      PROVE  ListOK'
  <2>1. counter' \in Ids' /\ counter' = counter + 1 /\ list' = Append(list, counter + 1)
    BY <1>1, <1>3, StartJobFrame DEF Ids
  <2> QED
    BY <1>1, <2>1, NewJobList
<1>4. ASSUME NEW i \in 1..Len(list), Erased(i), UNCHANGED counter
      PROVE  ListOK'
  BY <1>1, <1>4, ErasedList DEF Ids
<1>5. CASE list' = <<>> /\ UNCHANGED counter
  <2>1. <<>> \in Seq(1..counter) /\ Len(<<>>) = 0
    BY EmptySeq
  <2> QED
    BY <1>1, <1>5, <2>1 DEF Ids
<1> QED
  BY ListKept, VictimPlace, <1>2, <1>3, <1>4, <1>5

\* No thread comes back, and none ends unless it runs.
LEMMA StepKept ==
  ASSUME JobsInv, JobsNext
  PROVE  \/ UNCHANGED <<step, counter>>
         \/ \E s : StartJob(s)
         \/ Joined /\ victim \in Ids /\ UNCHANGED counter
              /\ step[victim] = "ended" /\ step' = [step EXCEPT ![victim] = "joined"]
         \/ \E id \in Ids, where \in Running \cup {"ended"} :
              Thread(id) /\ step[id] \in Running /\ GoesOn(id, where) /\ UNCHANGED counter
<1>1. MainOK
  BY TypeParts DEF JobsInv
<1>2. ASSUME NEW s, ForwardN2N(s) \/ AtOnceStep(s) \/ HandleSleep(s) \/ HandleKill(s)
      PROVE  UNCHANGED <<step, counter>>
  BY <1>2, AtOnceFrame DEF ForwardN2N, HandleSleep, HandleKill
<1>3. CASE KillFirst \/ ForwardToScriptJobs \/ ProcessCompletedJobs
  BY <1>3 DEF KillFirst, ForwardToScriptJobs, ProcessCompletedJobs
<1>4. CASE Joined
  BY <1>1, <1>4 DEF Joined, MainOK
<1>5. CASE KillDone
  BY <1>5 DEF KillDone
<1>6. CASE Sweep
  BY <1>6 DEF Sweep
<1>7. ASSUME NEW id \in Ids, Thread(id)
      PROVE  /\ step[id] \in Running /\ UNCHANGED counter
             /\ UNCHANGED step \/ \E where \in Running \cup {"ended"} : GoesOn(id, where)
  BY <1>7, ThreadFrame DEF Continues, Answers1, Silent
<1> QED
  BY StepCases, <1>2, <1>3, <1>4, <1>5, <1>6, <1>7

LEMMA StepStep ==
  ASSUME JobsInv, JobsNext
  PROVE  StepOK'
<1>1. StepOK /\ counter \in {0} \cup Ids /\ Ids' = Ids /\ MaxStreams \in Nat
  BY TypeParts, JobsAssumption DEF JobsInv, JobsTypeOK, Ids
<1> USE DEF StepOK
<1>2. CASE UNCHANGED <<step, counter>>
  BY <1>1, <1>2
<1>3. ASSUME NEW s, StartJob(s)
      PROVE  StepOK'
  <2>1. counter + 1 \in Ids /\ counter' = counter + 1
    BY <1>3, StepCases, StartJobFrame
  <2>2. PICK where \in {"take", "enter"} : step' = [step EXCEPT ![counter + 1] = where]
    BY <1>3 DEF StartJob, NewJob
  <2> QED
    BY <1>1, <2>1, <2>2 DEF Running, Ids
<1>4. ASSUME NEW id \in Ids, NEW where \in Running \cup {"ended", "joined"},
             step[id] # "none", step' = [step EXCEPT ![id] = where], UNCHANGED counter
      PROVE  StepOK'
  BY <1>1, <1>4 DEF Running
<1> QED
  BY StepKept, <1>2, <1>3, <1>4 DEF Running

\* What each job was asked is set when it is started.
LEMMA RequestKept ==
  ASSUME JobsInv, JobsNext
  PROVE  UNCHANGED <<op, request, counter>> \/ \E s : StartJob(s)
<1>1. ASSUME NEW s, ForwardN2N(s) \/ AtOnceStep(s) \/ HandleSleep(s) \/ HandleKill(s)
      PROVE  UNCHANGED <<op, request, counter>>
  BY <1>1, AtOnceFrame DEF ForwardN2N, HandleSleep, HandleKill
<1>2. CASE KillFirst \/ ForwardToScriptJobs \/ ProcessCompletedJobs
  BY <1>2 DEF KillFirst, ForwardToScriptJobs, ProcessCompletedJobs
<1>3. CASE Joined \/ KillDone \/ Sweep
  BY <1>3 DEF Joined, KillDone, Sweep
<1>4. ASSUME NEW id \in Ids, Thread(id)
      PROVE  UNCHANGED <<op, request, counter>>
  BY <1>4, ThreadFrame
<1> QED
  BY StepCases, <1>1, <1>2, <1>3, <1>4

\* What a thread does to the switches of its scripts.
LEMMA ThreadSwitches ==
  ASSUME AskOK, NEW id \in Ids, Thread(id)
  PROVE  /\ calls' \in Nat
         /\ capture' = capture \/ capture' = [capture EXCEPT ![id] = TRUE]
         /\ receive' = receive \/ receive' = [receive EXCEPT ![id] = TRUE]
<1>1. calls \in Nat
  BY DEF AskOK
<1>2. CASE Enter(id) \/ LockDirectory(id) \/ Snippet(id)
  BY <1>1, <1>2 DEF Enter, LockDirectory, Snippet
<1>3. CASE Take(id)
  BY <1>1, <1>3 DEF Take
<1>4. CASE Work(id)
  BY <1>1, <1>4, WorkFrame
<1>5. CASE ChangeDirectory(id) \/ UnloadScript(id)
  BY <1>1, <1>5 DEF ChangeDirectory, UnloadScript
<1>6. CASE LoadScript(id) \/ StoreScript(id)
  BY <1>1, <1>6 DEF LoadScript, StoreScript
<1>7. CASE FindScript(id)
  BY <1>1, <1>7 DEF FindScript
<1>8. CASE WaitPop(id)
  BY <1>1, <1>8 DEF WaitPop
<1>9. CASE InitScriptFails(id) \/ ScriptReturns(id)
  BY <1>1, <1>9 DEF InitScriptFails, ScriptReturns, ScriptOver
<1>10. CASE ScriptCall(id)
  BY <1>1, <1>10 DEF ScriptCall, SetCaptureIncomingStreams, SetN2NState, RecvStream, RecvN2N,
    WaitN2N, ScriptChdir
<1>11. CASE Cancelled(id)
  BY <1>1, <1>11 DEF Cancelled
<1> QED
  BY <1>2, <1>3, <1>4, <1>5, <1>6, <1>7, <1>8, <1>9, <1>10, <1>11 DEF Thread, JobStep

LEMMA AskStep ==
  ASSUME JobsInv, JobsNext
  PROVE  AskOK'
<1>1. AskOK /\ Ids' = Ids /\ MaxStreams \in Nat
  BY TypeParts, JobsAssumption DEF JobsInv, Ids
<1> USE DEF AskOK
<1>2. ASSUME NEW s, ForwardN2N(s) \/ AtOnceStep(s) \/ HandleSleep(s) \/ HandleKill(s)
      PROVE  AskOK'
  BY <1>1, <1>2, AtOnceFrame DEF ForwardN2N, HandleSleep, HandleKill
<1>3. ASSUME NEW s, StartJob(s)
      PROVE  AskOK'
  <2>1. counter + 1 \in Ids /\ s.op \in Ops /\ Now' \in 0..MaxStreams
    BY <1>1, <1>3, StepCases, StartJobFrame
  <2>2. /\ op' = [op EXCEPT ![counter + 1] = s.op]
        /\ request' = [request EXCEPT ![counter + 1] = Now']
        /\ UNCHANGED <<capture, receive, calls>>
    BY <1>3 DEF StartJob, NewJob
  <2> QED
    BY <1>1, <2>1, <2>2
<1>4. CASE KillFirst \/ ForwardToScriptJobs \/ ProcessCompletedJobs
  BY <1>1, <1>4 DEF KillFirst, ForwardToScriptJobs, ProcessCompletedJobs
<1>5. CASE Joined \/ KillDone \/ Sweep
  BY <1>1, <1>5 DEF Joined, KillDone, Sweep
<1>6. ASSUME NEW id \in Ids, Thread(id)
      PROVE  AskOK'
  BY <1>1, <1>6, ThreadFrame, ThreadSwitches
<1> QED
  BY StepCases, <1>2, <1>3, <1>4, <1>5, <1>6

\* What a thread takes from its queues.
TakesInbox(id) == inbox[id] # <<>> /\ inbox' = [inbox EXCEPT ![id] = Tail(@)]
TakesN2N(id) == n2n[id] # <<>> /\ n2n' = [n2n EXCEPT ![id] = Tail(@)]

LEMMA ThreadQueues ==
  ASSUME Places, NEW id \in Ids, Thread(id)
  PROVE  /\ UNCHANGED inbox \/ TakesInbox(id)
         /\ \/ UNCHANGED <<n2n, posts, polled>>
            \/ /\ WaitPop(id) /\ TakesN2N(id) /\ posts[id] > 0
               /\ posts' = [posts EXCEPT ![id] = @ - 1] /\ UNCHANGED polled
            \/ /\ RecvN2N(id) /\ TakesN2N(id)
               /\ polled' = [polled EXCEPT ![id] = TRUE] /\ UNCHANGED posts
<1> USE DEF TakesInbox, TakesN2N
<1>1. CASE Enter(id) \/ LockDirectory(id) \/ Snippet(id)
  BY <1>1 DEF Enter, LockDirectory, Snippet
<1>2. CASE Take(id)
  BY <1>2 DEF Take, Places
<1>3. CASE Work(id)
  BY <1>3, WorkFrame
<1>4. CASE ChangeDirectory(id) \/ UnloadScript(id)
  BY <1>4 DEF ChangeDirectory, UnloadScript
<1>5. CASE LoadScript(id) \/ StoreScript(id)
  BY <1>5 DEF LoadScript, StoreScript
<1>6. CASE FindScript(id)
  BY <1>6 DEF FindScript
<1>7. CASE WaitPop(id)
  BY <1>7 DEF WaitPop
<1>8. CASE InitScriptFails(id) \/ ScriptReturns(id)
  BY <1>8 DEF InitScriptFails, ScriptReturns, ScriptOver
<1>9. CASE ScriptCall(id)
  BY <1>9 DEF ScriptCall, SetCaptureIncomingStreams, SetN2NState, RecvStream, RecvN2N, WaitN2N,
    ScriptChdir
<1>10. CASE Cancelled(id)
  BY <1>10 DEF Cancelled
<1> QED
  BY <1>1, <1>2, <1>3, <1>4, <1>5, <1>6, <1>7, <1>8, <1>9, <1>10 DEF Thread, JobStep

LEMMA QueuesStep ==
  ASSUME JobsInv, JobsNext
  PROVE  QueuesOK'
<1>1. QueuesOK /\ Ids' = Ids /\ MaxStreams \in Nat /\ Queue' = Queue
  BY TypeParts, JobsAssumption DEF JobsInv, Ids, Queue
<1> USE DEF QueuesOK
<1>2. ASSUME NEW s, ForwardN2N(s)
      PROVE  QueuesOK'
  <2>1. Now' \in 1..MaxStreams
    BY <1>2, StepCases, TakesFrame DEF ForwardN2N, JobsInv
  <2>2. \A q \in Queue : Append(q, Now') \in Queue
    BY <2>1, AppendProperties DEF Queue
  <2> QED
    BY <1>1, <1>2, <2>2 DEF ForwardN2N
<1>3. ASSUME NEW s, AtOnceStep(s) \/ HandleSleep(s) \/ HandleKill(s)
      PROVE  QueuesOK'
  BY <1>1, <1>3, AtOnceFrame DEF HandleSleep, HandleKill
<1>4. ASSUME NEW s, StartJob(s)
      PROVE  QueuesOK'
  <2>1. Now' \in 1..MaxStreams
    BY <1>4, StepCases, StartJobFrame
  <2>2. <<Now'>> \in Queue
    BY <2>1 DEF Queue
  <2> QED
    BY <1>1, <1>4, <2>2 DEF StartJob, NewJob
<1>5. CASE KillFirst \/ ProcessCompletedJobs
  BY <1>1, <1>5 DEF KillFirst, ProcessCompletedJobs
<1>6. CASE ForwardToScriptJobs
  <2>1. Now \in 1..MaxStreams
    BY <1>6, StreamsKnown DEF ForwardToScriptJobs, JobsInv, Handling
  <2>2. \A q \in Queue : Append(q, Now) \in Queue
    BY <2>1, AppendProperties DEF Queue
  <2> QED
    BY <1>1, <1>6, <2>2 DEF ForwardToScriptJobs
<1>7. CASE Joined \/ KillDone \/ Sweep
  BY <1>1, <1>7 DEF Joined, KillDone, Sweep
<1>8. ASSUME NEW id \in Ids, Thread(id)
      PROVE  QueuesOK'
  <2>1. \A q \in Queue : q # <<>> => Tail(q) \in Queue
    BY HeadTailProperties DEF Queue
  <2>2. inbox[id] \in Queue /\ n2n[id] \in Queue /\ posts[id] \in Nat
    BY <1>1
  <2>3. UNCHANGED inbox \/ TakesInbox(id)
    BY <1>8, ThreadQueues DEF JobsInv
  <2>4. inbox' \in [Ids -> Queue]
    BY <1>1, <2>1, <2>2, <2>3 DEF TakesInbox
  <2>5. \/ UNCHANGED <<n2n, posts, polled>>
        \/ TakesN2N(id) /\ posts[id] > 0 /\ posts' = [posts EXCEPT ![id] = @ - 1] /\ UNCHANGED polled
        \/ TakesN2N(id) /\ polled' = [polled EXCEPT ![id] = TRUE] /\ UNCHANGED posts
    BY <1>8, ThreadQueues DEF JobsInv
  <2>6. n2n' \in [Ids -> Queue]
    BY <1>1, <2>1, <2>2, <2>5 DEF TakesN2N
  <2>7. posts' \in [Ids -> Nat]
    BY <1>1, <2>2, <2>5
  <2>8. polled' \in [Ids -> BOOLEAN]
    BY <1>1, <2>5
  <2> QED
    BY <1>1, <1>8, <2>4, <2>6, <2>7, <2>8, ThreadFrame
<1> QED
  BY StepCases, <1>2, <1>3, <1>4, <1>5, <1>6, <1>7, <1>8

\* What a thread does to the directories and the scripts.
LEMMA ThreadDirs ==
  ASSUME JobsInv, NEW id \in Ids, Thread(id)
  PROVE  DirsOK'
<1>1. /\ DirsOK /\ Ids' = Ids /\ Dirs' = Dirs /\ Targets' = Targets /\ UNCHANGED cancelled
      /\ id # 0 /\ 0 \notin Ids
  BY TypeParts, ThreadFrame, StreamsKnown DEF JobsInv, Ids, Dirs, Targets
<1>2. ASSUME NEW t \in Targets
      PROVE  Chdir(t) \in Dirs
  <2>1. <<cwd, t>> \in DOMAIN Leads
    BY <1>1, <1>2, JobsAssumption DEF DirsOK
  <2> QED
    BY <1>1, <2>1, JobsAssumption DEF Chdir, Reached, DirsOK
<1> USE DEF DirsOK
<1>3. CASE Enter(id)
  BY <1>1, <1>2, <1>3 DEF Enter
<1>4. CASE LockDirectory(id) \/ Snippet(id)
  BY <1>1, <1>4 DEF LockDirectory, Snippet
<1>5. CASE Take(id)
  BY <1>1, <1>5 DEF Take
<1>6. CASE Work(id)
  BY <1>1, <1>6, WorkFrame
<1>7. CASE ChangeDirectory(id)
  <2> DEFINE target == streams[request[id]].arg
  <2>1. request[id] \in 1..Now /\ op[id] = streams[request[id]].op
    <3>1. request[id] \in 0..MaxStreams /\ request[id] <= Now /\ request[id] # 0 /\ Now \in Nat
      BY <1>7, StreamsKnown DEF JobsInv, Asked, JobsTypeOK, ChangeDirectory
    <3> QED
      BY <3>1 DEF JobsInv, Asked
  <2>2. target \in Targets
    <3>1. Now \in 0..Len(plan.sent) /\ Len(plan.sent) \in Nat
      BY StreamsKnown DEF JobsInv, JobsTypeOK
    <3>2. request[id] \in 1..Len(plan.sent) /\ streams[request[id]] = plan.sent[request[id]]
      BY <2>1, <3>1, StreamsKnown DEF JobsInv
    <3> QED
      BY <1>7, <2>1, <3>2, StreamsKnown DEF JobsInv, ChangeDirectory
  <2>3. /\ cwd' = Chdir(target) /\ path' = target /\ strayed' \in BOOLEAN
        /\ UNCHANGED scripts /\ LetGo(id)
    BY <1>1, <1>7 DEF ChangeDirectory
  <2> QED
    BY <1>1, <1>2, <2>2, <2>3
<1>8. CASE UnloadScript(id)
  BY <1>1, <1>8 DEF UnloadScript
<1>9. CASE LoadScript(id) \/ StoreScript(id)
  BY <1>1, <1>9 DEF LoadScript, StoreScript
<1>10. CASE FindScript(id)
  BY <1>1, <1>10 DEF FindScript
<1>11. CASE WaitPop(id)
  BY <1>1, <1>11 DEF WaitPop
<1>12. CASE InitScriptFails(id) \/ ScriptReturns(id)
  BY <1>1, <1>12 DEF InitScriptFails, ScriptReturns, ScriptOver
<1>13. CASE SetCaptureIncomingStreams(id) \/ SetN2NState(id) \/ RecvStream(id) \/ RecvN2N(id)
          \/ WaitN2N(id)
  BY <1>1, <1>13 DEF SetCaptureIncomingStreams, SetN2NState, RecvStream, RecvN2N, WaitN2N
<1>14. CASE ScriptChdir(id)
  BY <1>1, <1>2, <1>14 DEF ScriptChdir
<1>15. CASE Cancelled(id)
  BY <1>1, <1>15 DEF Cancelled
<1> QED
  BY <1>3, <1>4, <1>5, <1>6, <1>7, <1>8, <1>9, <1>10, <1>11, <1>12, <1>13, <1>14, <1>15
     DEF Thread, JobStep, ScriptCall

LEMMA DirsStep ==
  ASSUME JobsInv, JobsNext
  PROVE  DirsOK'
<1>1. DirsOK /\ Ids' = Ids /\ Dirs' = Dirs /\ Targets' = Targets
  BY TypeParts DEF JobsInv, Ids, Dirs, Targets
<1> USE DEF DirsOK
<1>2. ASSUME NEW s, ForwardN2N(s) \/ AtOnceStep(s) \/ HandleSleep(s) \/ HandleKill(s) \/ StartJob(s)
      PROVE  DirsOK'
  BY <1>1, <1>2, AtOnceFrame DEF ForwardN2N, HandleSleep, HandleKill, StartJob
<1>3. CASE KillFirst
  <2>1. main' = "join" /\ victim' # 0 /\ victim' \in Ids
    <3>1. main' = "join"
      BY <1>3 DEF KillFirst
    <3>2. MainOK'
      BY MainStepOK
    <3> QED
      BY <3>1, <3>2, <1>1 DEF MainOK
  <2> QED
    BY <1>1, <1>3, <2>1 DEF KillFirst
<1>4. CASE ForwardToScriptJobs \/ ProcessCompletedJobs
  BY <1>1, <1>4 DEF ForwardToScriptJobs, ProcessCompletedJobs
<1>5. CASE Joined \/ KillDone \/ Sweep
  BY <1>1, <1>5 DEF Joined, KillDone, Sweep
<1> QED
  BY StepCases, ThreadDirs, <1>2, <1>3, <1>4, <1>5

LEMMA TypeStep ==
  ASSUME JobsInv, JobsNext
  PROVE  JobsTypeOK'
<1>1. StreamsOK' /\ MainOK' /\ ListOK' /\ StepOK' /\ AskOK' /\ QueuesOK' /\ DirsOK'
  BY StreamsStep, MainStepOK, ListStep, StepStep, AskStep, QueuesStep, DirsStep
<1> QED
  BY <1>1 DEF JobsTypeOK, StreamsOK, MainOK, ListOK, StepOK, AskOK, QueuesOK, DirsOK

-----------------------------------------------------------------------------
(* The other parts of the invariant.                                       *)

\* The main thread takes a stream only when it is idle.
TakesOne == main = "idle" /\ Now' = Now + 1 /\ victim = 0 /\ iter = 0

LEMMA StreamsKept ==
  ASSUME JobsInv, JobsNext
  PROVE  /\ Now \in Nat /\ Now' \in Nat
         /\ (UNCHANGED streams /\ Now' = Now) \/ TakesOne
         /\ \A n \in 1..Now : streams'[n] = streams[n]
<1>1. JobsTypeOK /\ MainOK /\ UNCHANGED plan
  BY TypeParts, StepCases DEF JobsInv
<1>2. ASSUME NEW s, Takes(s)
      PROVE  TakesOne /\ \A n \in 1..Now : streams'[n] = streams[n]
  BY <1>1, <1>2, TakesFrame DEF TakesOne, MainOK
<1>3. ASSUME NEW s, ForwardN2N(s) \/ AtOnceStep(s) \/ HandleSleep(s) \/ StartJob(s) \/ HandleKill(s)
      PROVE  Takes(s)
  BY <1>3, AtOnceFrame DEF ForwardN2N, HandleSleep, StartJob, HandleKill
<1>4. ASSUME KillFirst \/ Joined \/ KillDone \/ ForwardToScriptJobs \/ Sweep \/ ProcessCompletedJobs
      PROVE  UNCHANGED streams
  BY <1>4 DEF KillFirst, Joined, KillDone, ForwardToScriptJobs, Sweep, ProcessCompletedJobs
<1>5. ASSUME NEW id \in Ids, Thread(id)
      PROVE  UNCHANGED streams
  BY <1>5, ThreadFrame
<1>6. Now \in Nat
  BY <1>1, StreamsKnown
<1>7. UNCHANGED streams => Now' = Now
  BY DEF Now
<1> QED
  BY StepCases, <1>2, <1>3, <1>4, <1>5, <1>6, <1>7 DEF TakesOne

LEMMA AskedStep ==
  ASSUME JobsInv, JobsNext
  PROVE  Asked'
<1>1. /\ Now \in Nat /\ Now' \in Nat /\ (Now' = Now \/ Now' = Now + 1)
      /\ \A n \in 1..Now : streams'[n] = streams[n]
  BY StreamsKept DEF TakesOne
<1>2. /\ request \in [Ids -> 0..MaxStreams] /\ op \in [Ids -> Ops \cup {"none"}]
      /\ counter \in Nat /\ MaxStreams \in Nat /\ Ids' = Ids /\ Ids \subseteq Nat
  BY JobsAssumption DEF JobsInv, JobsTypeOK, Ids
<1>3. Asked
  BY DEF JobsInv
<1>4. /\ counter \in Nat /\ counter <= Now + 1
      /\ \A id \in Ids : request[id] \in Nat /\ request[id] <= Now
  BY <1>2, <1>3 DEF Asked
<1>5. CASE UNCHANGED <<op, request, counter>>
  <2>1. \A id \in Ids : request[id] # 0 => streams'[request[id]] = streams[request[id]]
    BY <1>1, <1>4
  <2>2. counter <= Now' + 1
    BY <1>1, <1>4 DEF Now
  <2>3. ASSUME NEW id \in Ids PROVE request[id] <= Now'
    <3>1. request[id] \in Nat /\ request[id] <= Now
      BY <1>4
    <3> QED
      BY <1>1, <3>1
  <2> QED
    BY <1>2, <1>3, <1>5, <2>1, <2>2, <2>3 DEF Asked
<1>6. ASSUME NEW s, StartJob(s)
      PROVE  Asked'
  <2> DEFINE new == counter + 1
  <2>1. new \in Ids /\ counter' = new /\ s.op \in Ops \ {"STARTUP"} /\ Now' = Now + 1
    BY <1>6, StepCases, StartJobFrame
  <2>2. op' = [op EXCEPT ![new] = s.op] /\ request' = [request EXCEPT ![new] = Now']
    BY <1>6 DEF StartJob, NewJob
  <2>3. streams'[Now'] = s
    BY <1>6, StepCases, TakesFrame DEF StartJob, JobsInv
  <2>4. \A id \in Ids : request[id] # 0 => request[id] \in 1..Now
    BY <1>1, <1>4
  <2> HIDE DEF new
  <2>5. op'[new] = s.op /\ request'[new] = Now' /\ s.op # "none" /\ s.op # "STARTUP" /\ Now' # 0
    BY <1>1, <1>2, <2>1, <2>2 DEF Ops
  <2>6. \A id \in Ids : id # new => op'[id] = op[id] /\ request'[id] = request[id]
    BY <1>2, <2>1, <2>2
  <2>7. ASSUME NEW id \in Ids
        PROVE  /\ request'[id] <= Now'
               /\ request'[id] # 0 => op'[id] # "STARTUP" /\ op'[id] = streams'[request'[id]].op
               /\ request'[id] = 0 => op'[id] \in {"STARTUP", "none"}
    <3>1. CASE id = new
      BY <3>1, <1>1, <2>3, <2>5
    <3>2. CASE id # new
      BY <3>2, <1>1, <1>2, <1>3, <2>1, <2>4, <2>6 DEF Asked
    <3> QED
      BY <3>1, <3>2
  <2>8. ASSUME NEW id \in Ids
        PROVE  /\ op'[id] = "none" <=> id > counter'
               /\ id > counter' => request'[id] = 0
    <3>1. CASE id = new
      BY <3>1, <1>2, <2>1, <2>5
    <3>2. CASE id # new
      <4>1. id > counter' <=> id > counter
        BY <3>2, <1>2, <2>1 DEF new
      <4> QED
        BY <3>2, <4>1, <1>3, <2>6 DEF Asked
    <3> QED
      BY <3>1, <3>2
  <2>9. ASSUME NEW i \in Ids, NEW j \in Ids, request'[i] = request'[j], request'[i] # 0
        PROVE  i = j
    <3>1. \A id \in Ids : id # new => request'[id] # Now'
      BY <1>1, <1>2, <2>1, <2>4, <2>6
    <3> QED
      BY <3>1, <2>5, <2>6, <2>9, <1>3 DEF Asked
  <2>10. counter' <= Now' + 1
    BY <1>1, <1>2, <1>3, <2>1 DEF Asked, new
  <2> QED
    BY <1>2, <2>7, <2>8, <2>9, <2>10 DEF Asked
<1> QED
  BY RequestKept, <1>5, <1>6

LEMMA HandlingStep ==
  ASSUME JobsInv, JobsNext
  PROVE  Handling'
<1>1. JobsTypeOK /\ Handling /\ UNCHANGED plan /\ Now \in Nat
  BY StepCases, StreamsKnown DEF JobsInv
<1> USE DEF Handling
<1>2. ASSUME NEW s, ForwardN2N(s) \/ HandleSleep(s)
      PROVE  Handling'
  BY <1>2 DEF ForwardN2N, HandleSleep
<1>3. ASSUME NEW s, AtOnceStep(s)
      PROVE  Handling'
  BY <1>1, <1>3, AtOnceFrame, TakesFrame
<1>4. ASSUME NEW s, StartJob(s)
      PROVE  Handling'
  BY <1>1, <1>4, TakesFrame DEF StartJob, Ops
<1>5. ASSUME NEW s, HandleKill(s)
      PROVE  Handling'
  BY <1>1, <1>5, TakesFrame DEF HandleKill, Kills
<1>6. ASSUME UNCHANGED streams, main' \in {"idle", "sweep"}
      PROVE  Handling'
  BY <1>6
<1>7. ASSUME UNCHANGED streams, main \in {"forward", "kill", "join"},
             main \in {"kill", "join"} \/ main' = "forward" \/ UNCHANGED main
      PROVE  Handling'
  BY <1>1, <1>7 DEF Now, Cur
<1>8. CASE KillFirst \/ Joined \/ KillDone
  BY <1>7, <1>8 DEF KillFirst, Joined, KillDone
<1>9. CASE ForwardToScriptJobs \/ Sweep \/ ProcessCompletedJobs
  BY <1>6, <1>9 DEF ForwardToScriptJobs, Sweep, ProcessCompletedJobs
<1>10. ASSUME NEW id \in Ids, Thread(id)
       PROVE  Handling'
  BY <1>1, <1>10, ThreadFrame DEF Now, Cur
<1> QED
  BY StepCases, <1>2, <1>3, <1>4, <1>5, <1>8, <1>9, <1>10

\* An update goes on only when the threads of all jobs have been joined.
LEMMA UpdateAlone ==
  ASSUME JobsInv, KillDone, Cur.op = "USEUPDATE"
  PROVE  \A id \in Ids : step[id] \notin Running
<1>1. \A id \in Listed : step[id] = "joined"
  BY DEF KillDone, Meant, All
<1>2. \A id \in Ids : step[id] \in Running => id \in Listed
  BY DEF JobsInv, Places, ThreadHasJob
<1> QED
  BY <1>1, <1>2 DEF Running

LEMMA ThreadHasJobStep ==
  ASSUME JobsInv, JobsNext
  PROVE  ThreadHasJob'
<1>1. /\ ThreadHasJob /\ JobsTypeOK /\ Ids' = Ids /\ step \in [Ids -> Running \cup {"none", "ended", "joined"}]
      /\ counter \in {0} \cup Ids
  BY DEF JobsInv, Places, Ids, JobsTypeOK
<1>2. ASSUME UNCHANGED <<list, counter>>, ~\E s : StartJob(s)
      PROVE  ThreadHasJob'
  <2>1. Listed' = Listed
    BY <1>2 DEF Listed
  <2>2. CASE UNCHANGED step
    BY <1>1, <2>1, <2>2 DEF ThreadHasJob
  <2>3. ASSUME NEW id \in Ids, NEW where, step' = [step EXCEPT ![id] = where],
               where \in Running => step[id] \in Running
        PROVE  ThreadHasJob'
    BY <1>1, <2>1, <2>3 DEF ThreadHasJob
  <2> QED
    BY <1>2, <2>2, <2>3, StepKept DEF Running
<1>3. ASSUME NEW s, StartJob(s)
      PROVE  ThreadHasJob'
  <2>1. counter + 1 \in Ids /\ Listed' = Listed \cup {counter + 1}
    BY <1>3, StepCases, StartJobFrame
  <2>2. \A id \in Ids : id # counter + 1 => step'[id] = step[id]
    BY <1>1, <1>3, <2>1 DEF StartJob, NewJob
  <2> QED
    BY <1>1, <2>1, <2>2 DEF ThreadHasJob
<1>4. CASE Joined /\ Erased(PlaceOf(victim)) /\ victim # 0
  <2>1. Listed' = Listed \ {victim}
    BY <1>1, <1>4, VictimPlace, ErasedList
  <2>2. step' = [step EXCEPT ![victim] = "joined"]
    BY <1>4 DEF Joined
  <2>3. victim \in Ids
    BY <1>1, <1>4 DEF JobsTypeOK
  <2> QED
    BY <1>1, <2>1, <2>2, <2>3 DEF ThreadHasJob, Running
<1>5. CASE KillDone /\ Cur.op = "USEUPDATE"
  BY <1>1, <1>5, UpdateAlone DEF ThreadHasJob, KillDone
<1>6. CASE Sweep /\ iter \in 1..Len(list) /\ ~Alive(list[iter]) /\ Erased(iter)
  <2>1. Listed' = Listed \ {list[iter]} /\ step[list[iter]] \notin Running
    BY <1>1, <1>6, ErasedList DEF Alive
  <2> QED
    BY <1>1, <1>6, <2>1 DEF ThreadHasJob, Sweep
<1> QED
  BY ListKept, <1>2, <1>3, <1>4, <1>5, <1>6

LEMMA VictimStep ==
  ASSUME JobsInv, JobsNext
  PROVE  victim' # 0 => victim' \in Listed'
<1>1. MainOK /\ (victim # 0 => victim \in Listed)
  BY TypeParts DEF JobsInv, Places
<1>2. ASSUME NEW s, ForwardN2N(s) \/ AtOnceStep(s) \/ HandleSleep(s) \/ StartJob(s) \/ HandleKill(s)
      PROVE  victim' = 0
  BY <1>1, <1>2, AtOnceFrame DEF ForwardN2N, HandleSleep, StartJob, HandleKill, MainOK
<1>3. CASE KillFirst
  <2>1. Listed' = Listed /\ Meant \subseteq Listed
    BY <1>3 DEF KillFirst, Listed, Meant
  <2>2. \E x \in Meant : \A y \in Meant : x <= y
    <3>1. Meant \subseteq Nat /\ Meant # {}
      BY <1>3, <2>1, ListedIds, StreamsKnown DEF KillFirst, JobsInv
    <3> QED
      BY <3>1, LeastOne
  <2>3. victim' \in Meant
    BY <1>3, <2>2 DEF KillFirst
  <2> QED
    BY <2>1, <2>3
<1>4. CASE Joined
  BY <1>4 DEF Joined
<1>5. CASE KillDone \/ ForwardToScriptJobs \/ Sweep \/ ProcessCompletedJobs
  BY <1>1, <1>5 DEF KillDone, ForwardToScriptJobs, Sweep, ProcessCompletedJobs, MainOK
<1>6. ASSUME NEW id \in Ids, Thread(id)
      PROVE  UNCHANGED <<victim, list>>
  BY <1>6, ThreadFrame
<1> QED
  BY StepCases, <1>1, <1>2, <1>3, <1>4, <1>5, <1>6 DEF Listed

\* What a job has when its thread is at a place.
PlaceFor(id) ==
  /\ op[id] = "STARTUP" => step[id] \notin {"lock", "take", "work", "at"}
  /\ step[id] \in {"lock", "take"} => inbox[id] # <<>>
  /\ step[id] = "enter" /\ op[id] # "STARTUP" => inbox[id] # <<>>

LEMMA ThreadPlace ==
  ASSUME JobsTypeOK, NEW id \in Ids, PlaceFor(id), Thread(id)
  PROVE  PlaceFor(id)'
<1>1. step \in [Ids -> Running \cup {"none", "ended", "joined"}] /\ UNCHANGED op
  BY ThreadFrame DEF JobsTypeOK
<1> USE DEF PlaceFor
<1>2. ASSUME NEW where \in {"work", "at", "script", "wait", "ended"}, GoesOn(id, where),
             op[id] # "STARTUP" \/ where \in {"script", "wait", "ended"}
      PROVE  PlaceFor(id)'
  BY <1>1, <1>2
<1>3. ASSUME UNCHANGED step, step[id] \in {"work", "at", "script"} \/ UNCHANGED inbox
      PROVE  PlaceFor(id)'
  BY <1>1, <1>3
<1>4. CASE Enter(id)
  BY <1>1, <1>4 DEF Enter
<1>5. CASE LockDirectory(id)
  BY <1>1, <1>5 DEF LockDirectory
<1>6. CASE Take(id)
  <2>1. CASE UNCHANGED <<step, inbox>>
    BY <1>3, <2>1
  <2>2. CASE GoesOn(id, "work") \/ GoesOn(id, "ended")
    BY <1>2, <1>6, <2>2 DEF Take
  <2> QED
    BY <1>6, <2>1, <2>2 DEF Take
<1>7. CASE Work(id)
  BY <1>2, <1>3, <1>7, WorkFrame DEF Answers1
<1>8. CASE ChangeDirectory(id) \/ UnloadScript(id) \/ Snippet(id)
  BY <1>2, <1>8 DEF ChangeDirectory, UnloadScript, Snippet
<1>9. CASE LoadScript(id) \/ StoreScript(id)
  BY <1>2, <1>9 DEF LoadScript, StoreScript
<1>10. CASE FindScript(id)
  BY <1>2, <1>3, <1>10 DEF FindScript
<1>11. CASE WaitPop(id)
  BY <1>2, <1>3, <1>11 DEF WaitPop
<1>12. CASE InitScriptFails(id) \/ ScriptReturns(id)
  BY <1>2, <1>12 DEF InitScriptFails, ScriptReturns, ScriptOver
<1>13. CASE ScriptCall(id)
  BY <1>2, <1>3, <1>13 DEF ScriptCall, SetCaptureIncomingStreams, SetN2NState, RecvStream, RecvN2N,
    WaitN2N, ScriptChdir
<1>14. CASE Cancelled(id)
  BY <1>2, <1>14 DEF Cancelled
<1> QED
  BY <1>4, <1>5, <1>6, <1>7, <1>8, <1>9, <1>10, <1>11, <1>12, <1>13, <1>14 DEF Thread, JobStep

LEMMA PlacesStep ==
  ASSUME JobsInv, JobsNext
  PROVE  Places'
<1>1. /\ JobsTypeOK /\ Ids' = Ids /\ inbox \in [Ids -> Queue] /\ \A id \in Ids : PlaceFor(id)
      /\ step \in [Ids -> Running \cup {"none", "ended", "joined"}]
      /\ op \in [Ids -> Ops \cup {"none"}]
  BY DEF JobsInv, Places, PlaceFor, Ids, JobsTypeOK
<1>2. ASSUME UNCHANGED <<op, step, inbox>>
      PROVE  \A id \in Ids : PlaceFor(id)'
  BY <1>1, <1>2 DEF PlaceFor
<1>3. ASSUME NEW s, ForwardN2N(s) \/ AtOnceStep(s) \/ HandleSleep(s) \/ HandleKill(s)
      PROVE  \A id \in Ids : PlaceFor(id)'
  BY <1>2, <1>3, AtOnceFrame DEF ForwardN2N, HandleSleep, HandleKill
<1>4. ASSUME NEW s, StartJob(s), NEW id \in Ids
      PROVE  PlaceFor(id)'
  <2> DEFINE new == counter + 1
  <2>1. new \in Ids /\ s.op # "STARTUP" /\ Now' \in 1..MaxStreams /\ Now' # 0
    BY <1>4, StepCases, StartJobFrame, StreamsKnown DEF JobsInv
  <2>2. PICK where \in {"take", "enter"} : step' = [step EXCEPT ![new] = where]
    BY <1>4 DEF StartJob, NewJob
  <2>3. op' = [op EXCEPT ![new] = s.op] /\ inbox' = [inbox EXCEPT ![new] = <<Now'>>]
    BY <1>4, <2>1 DEF StartJob, NewJob
  <2> HIDE DEF new
  <2>4. CASE id = new
    BY <1>1, <2>1, <2>2, <2>3, <2>4 DEF PlaceFor
  <2>5. CASE id # new
    BY <1>1, <2>1, <2>2, <2>3, <2>5 DEF PlaceFor
  <2> QED
    BY <2>4, <2>5
<1>5. ASSUME KillFirst \/ ProcessCompletedJobs \/ KillDone \/ Sweep
      PROVE  \A id \in Ids : PlaceFor(id)'
  <2>1. UNCHANGED <<op, step, inbox>>
    <3>1. CASE KillFirst \/ ProcessCompletedJobs
      BY <3>1 DEF KillFirst, ProcessCompletedJobs
    <3>2. CASE KillDone \/ Sweep
      BY <3>2 DEF KillDone, Sweep
    <3> QED
      BY <1>5, <3>1, <3>2
  <2> QED
    BY <1>2, <2>1
<1>6. ASSUME Joined, NEW id \in Ids
      PROVE  PlaceFor(id)'
  <2>1. victim \in Ids /\ step' = [step EXCEPT ![victim] = "joined"] /\ UNCHANGED <<op, inbox>>
    BY <1>1, <1>6 DEF Joined, JobsTypeOK
  <2> QED
    BY <1>1, <2>1 DEF PlaceFor
<1>7. ASSUME ForwardToScriptJobs, NEW id \in Ids
      PROVE  PlaceFor(id)'
  <2>1. Now \in 1..MaxStreams
    BY <1>7, StreamsKnown DEF ForwardToScriptJobs, JobsInv, Handling
  <2>2. \A q \in Queue : Append(q, Now) # <<>>
    BY <2>1, AppendProperties DEF Queue
  <2> QED
    BY <1>1, <1>7, <2>2 DEF ForwardToScriptJobs, PlaceFor
<1>8. ASSUME NEW t \in Ids, Thread(t), NEW id \in Ids
      PROVE  PlaceFor(id)'
  <2>1. CASE id = t
    BY <1>1, <1>8, <2>1, ThreadPlace
  <2>2. CASE id # t
    <3>1. step'[id] = step[id] /\ UNCHANGED op
      BY <1>1, <1>8, <2>2, ThreadFrame DEF Continues, Answers1, Silent
    <3>2. inbox'[id] = inbox[id]
      BY <1>1, <1>8, <2>2, ThreadQueues DEF JobsInv, TakesInbox
    <3> QED
      BY <1>1, <3>1, <3>2 DEF PlaceFor
  <2> QED
    BY <2>1, <2>2
<1>9. ASSUME NEW id \in Ids
      PROVE  PlaceFor(id)'
  <2>1. CASE KillFirst \/ Joined \/ KillDone \/ ForwardToScriptJobs \/ Sweep \/ ProcessCompletedJobs
    BY <2>1, <1>5, <1>6, <1>7
  <2> QED
    BY <2>1, StepCases, <1>3, <1>4, <1>8
<1> QED
  BY <1>1, <1>9, ThreadHasJobStep, VictimStep DEF Places, PlaceFor

\* Only the stream at hand and the request of a running job are answered.
LEMMA AnswersKept ==
  ASSUME JobsInv, JobsNext
  PROVE  \/ UNCHANGED answers
         \/ \E s : (AtOnceStep(s) \/ HandleSleep(s)) /\ \E status : AnswerMain(status)
         \/ KillDone /\ \E status : answers' = [answers EXCEPT ![Now] = Append(@, status)]
         \/ \E id \in Ids : Thread(id) /\ Answers1(id)
<1>1. ASSUME NEW s, ForwardN2N(s) \/ StartJob(s) \/ HandleKill(s)
      PROVE  UNCHANGED answers
  BY <1>1 DEF ForwardN2N, StartJob, HandleKill
<1>2. ASSUME NEW s, AtOnceStep(s) \/ HandleSleep(s)
      PROVE  UNCHANGED answers \/ \E status : AnswerMain(status)
  BY <1>2, AtOnceFrame DEF HandleSleep
<1>3. CASE KillFirst \/ ForwardToScriptJobs \/ ProcessCompletedJobs
  BY <1>3 DEF KillFirst, ForwardToScriptJobs, ProcessCompletedJobs
<1>4. CASE Joined \/ Sweep
  BY <1>4 DEF Joined, Sweep
<1>5. CASE KillDone
  BY <1>5 DEF KillDone
<1>6. ASSUME NEW id \in Ids, Thread(id)
      PROVE  UNCHANGED answers \/ Answers1(id)
  BY <1>6, ThreadFrame DEF Continues, Silent
<1> QED
  BY StepCases, <1>1, <1>2, <1>3, <1>4, <1>5, <1>6

\* A stream that the main thread answers is the request of no job.
LEMMA MainAnswers ==
  ASSUME JobsInv, NEW n \in 1..MaxStreams, NEW status,
         n > Now \/ (n = Now /\ main = "kill"),
         answers' = [answers EXCEPT ![n] = Append(@, status)],
         UNCHANGED <<request, step, cancelled>>
  PROVE  /\ \A id \in Ids : AnswerOf(id)'
         /\ DOMAIN answers' = 1..MaxStreams
         /\ \A m \in 1..MaxStreams : m # n => answers'[m] = answers[m]
<1>1. /\ Ids' = Ids /\ DOMAIN answers = 1..MaxStreams /\ \A id \in Ids : AnswerOf(id)
      /\ Now \in Nat /\ MaxStreams \in Nat /\ Now <= MaxStreams
      /\ \A id \in Ids : request[id] \in 0..MaxStreams /\ request[id] <= Now
  BY StreamsKnown DEF JobsInv, Ids, Answers, Asked, JobsTypeOK
<1>2. ASSUME NEW id \in Ids, request[id] # 0
      PROVE  request[id] # n
  <2>1. request[id] = Now /\ main = "kill" => op[id] \in Kills /\ op[id] \in Ops
    BY <1>1, <1>2 DEF JobsInv, Asked, Handling, Cur, JobsTypeOK, Kills, Ops
  <2>2. Kills \cap Ops = {}
    BY DEF Kills, Ops
  <2> QED
    BY <1>1, <1>2, <2>1, <2>2
<1>3. \A m \in 1..MaxStreams : m # n => answers'[m] = answers[m]
  BY <1>1
<1>4. ASSUME NEW id \in Ids
      PROVE  AnswerOf(id)'
  BY <1>1, <1>2, <1>3 DEF AnswerOf
<1> QED
  BY <1>1, <1>3, <1>4

LEMMA AnswersStep ==
  ASSUME JobsInv, JobsNext
  PROVE  Answers'
<1>1. /\ Ids' = Ids /\ DOMAIN answers = 1..MaxStreams /\ \A id \in Ids : AnswerOf(id)
      /\ \A n \in 1..MaxStreams : n > Now => answers[n] = <<>>
      /\ Now \in Nat /\ MaxStreams \in Nat /\ Now <= MaxStreams /\ Ids \subseteq Nat
      /\ request \in [Ids -> 0..MaxStreams] /\ \A id \in Ids : request[id] <= Now
      /\ step \in [Ids -> Running \cup {"none", "ended", "joined"}]
  BY StreamsKnown DEF JobsInv, Ids, Answers, Asked, JobsTypeOK
<1>2. ASSUME DOMAIN answers' = 1..MaxStreams, \A id \in Ids : AnswerOf(id)',
             \A n \in 1..MaxStreams : n > Now' => answers'[n] = <<>>
      PROVE  Answers'
  BY <1>1, <1>2 DEF Answers
<1>3. Now' \in Nat /\ Now <= Now'
  BY StreamsKept DEF TakesOne
<1>4. \A n \in 1..MaxStreams : n > Now' => n > Now /\ answers[n] = <<>>
  BY <1>1, <1>3
<1>5. cancelled \subseteq cancelled'
  <2>1. ASSUME NEW s, ForwardN2N(s) \/ AtOnceStep(s) \/ HandleSleep(s) \/ StartJob(s) \/ HandleKill(s)
        PROVE  UNCHANGED cancelled
    BY <2>1, AtOnceFrame DEF ForwardN2N, HandleSleep, StartJob, HandleKill
  <2>2. CASE KillFirst \/ ForwardToScriptJobs \/ ProcessCompletedJobs
    BY <2>2 DEF KillFirst, ForwardToScriptJobs, ProcessCompletedJobs
  <2>3. CASE Joined \/ KillDone \/ Sweep
    BY <2>3 DEF Joined, KillDone, Sweep
  <2>4. ASSUME NEW id \in Ids, Thread(id)
        PROVE  UNCHANGED cancelled
    BY <2>4, ThreadFrame
  <2> QED
    BY StepCases, <2>1, <2>2, <2>3, <2>4
<1>6. ASSUME NEW s, StartJob(s), NEW id \in Ids
      PROVE  AnswerOf(id)'
  <2> DEFINE new == counter + 1
  <2>1. new \in Ids /\ Now' = Now + 1 /\ Now' \in 1..MaxStreams
    BY <1>6, StepCases, StartJobFrame
  <2>2. PICK where \in {"take", "enter"} : step' = [step EXCEPT ![new] = where]
    BY <1>6 DEF StartJob, NewJob
  <2>3. request' = [request EXCEPT ![new] = Now'] /\ UNCHANGED <<answers, cancelled>>
    BY <1>6 DEF StartJob, NewJob
  <2> HIDE DEF new
  <2>4. answers[Now'] = <<>>
    BY <1>1, <2>1
  <2>5. CASE id = new
    BY <1>1, <2>1, <2>2, <2>3, <2>4, <2>5 DEF AnswerOf, Running
  <2>6. CASE id # new
    BY <1>1, <2>1, <2>2, <2>3, <2>6 DEF AnswerOf
  <2> QED
    BY <2>5, <2>6
<1>7. ASSUME UNCHANGED answers, ~\E s : StartJob(s), NEW id \in Ids
      PROVE  AnswerOf(id)'
  <2>1. UNCHANGED request
    BY <1>7, RequestKept
  <2>2. CASE UNCHANGED step
    BY <1>1, <1>5, <1>7, <2>1, <2>2 DEF AnswerOf
  <2>3. CASE Joined
    <3>1. step[victim] = "ended" /\ step' = [step EXCEPT ![victim] = "joined"]
      BY <2>3 DEF Joined
    <3> QED
      BY <1>1, <1>5, <1>7, <2>1, <3>1 DEF AnswerOf, Running
  <2>4. ASSUME NEW t \in Ids, Thread(t)
        PROVE  AnswerOf(id)'
    <3>1. step[t] \in Running /\ UNCHANGED cancelled
      BY <2>4, ThreadFrame
    <3>2. CASE Continues(t)
      BY <1>1, <1>7, <2>1, <3>1, <3>2 DEF AnswerOf, Continues, Running
    <3>3. CASE Silent(t)
      BY <1>1, <1>7, <2>1, <3>1, <3>3 DEF AnswerOf, Silent, Running
    <3>4. CASE Answers1(t)
      <4>1. PICK status : answers' = [answers EXCEPT ![request[t]] = Append(@, status)]
        BY <3>4 DEF Answers1
      <4>2. CASE request[t] = 0
        BY <1>1, <1>7, <2>1, <3>1, <3>4, <4>2 DEF AnswerOf, Answers1, Running
      <4>3. CASE request[t] # 0
        <5>1. request[t] \in DOMAIN answers /\ answers[request[t]] = <<>>
          BY <1>1, <3>1, <4>3 DEF AnswerOf
        <5>2. answers'[request[t]] = <<status>>
          BY <4>1, <5>1
        <5>3. <<status>> # <<>>
          OBVIOUS
        <5> QED
          BY <1>7, <5>1, <5>2, <5>3
      <4> QED
        BY <4>2, <4>3
    <3> QED
      BY <2>4, <3>2, <3>3, <3>4, ThreadFrame
  <2> QED
    BY <1>7, <2>2, <2>3, <2>4, StepKept
<1>8. CASE UNCHANGED answers
  BY <1>1, <1>2, <1>4, <1>6, <1>7, <1>8
<1>9. ASSUME NEW s, AtOnceStep(s) \/ HandleSleep(s), NEW status, AnswerMain(status)
      PROVE  Answers'
  <2>1. Takes(s) /\ UNCHANGED <<request, step, cancelled>>
    BY <1>9, AtOnceFrame DEF HandleSleep
  <2>2. Now' = Now + 1 /\ Now' \in 1..MaxStreams
    BY <2>1, StepCases, TakesFrame DEF JobsInv
  <2>3. PICK n \in 1..MaxStreams : n = Now'
    BY <2>2
  <2>4. answers' = [answers EXCEPT ![n] = Append(@, status)] /\ n > Now
    BY <1>1, <1>9, <2>2, <2>3
  <2>5. /\ \A id \in Ids : AnswerOf(id)'
        /\ DOMAIN answers' = 1..MaxStreams
        /\ \A m \in 1..MaxStreams : m # n => answers'[m] = answers[m]
    BY <2>1, <2>4, MainAnswers
  <2> QED
    BY <1>1, <1>2, <1>3, <1>4, <2>3, <2>5
<1>10. ASSUME KillDone, NEW status, answers' = [answers EXCEPT ![Now] = Append(@, status)]
       PROVE  Answers'
  <2>1. main = "kill" /\ UNCHANGED <<request, step, cancelled>>
    BY <1>10 DEF KillDone
  <2>2. Now \in 1..MaxStreams
    BY <1>1, <2>1 DEF JobsInv, Handling
  <2>3. PICK n \in 1..MaxStreams : n = Now
    BY <2>2
  <2>4. /\ \A id \in Ids : AnswerOf(id)'
        /\ DOMAIN answers' = 1..MaxStreams
        /\ \A m \in 1..MaxStreams : m # n => answers'[m] = answers[m]
    BY <1>10, <2>1, <2>3, MainAnswers
  <2> QED
    BY <1>1, <1>2, <1>3, <1>4, <2>3, <2>4
<1>11. ASSUME NEW t \in Ids, Thread(t), Answers1(t)
       PROVE  Answers'
  <2>1. PICK status : answers' = [answers EXCEPT ![request[t]] = Append(@, status)]
    BY <1>11 DEF Answers1
  <2>2. UNCHANGED <<request, cancelled>> /\ step[t] \in Running /\ step' = [step EXCEPT ![t] = "ended"]
    BY <1>11, ThreadFrame DEF Answers1
  <2>3. request[t] # 0 => request[t] \in 1..MaxStreams /\ answers[request[t]] = <<>>
    BY <1>1, <2>2 DEF AnswerOf
  <2>4. DOMAIN answers' = 1..MaxStreams
    BY <1>1, <2>1
  <2>5. \A n \in 1..MaxStreams : n # request[t] => answers'[n] = answers[n]
    BY <1>1, <2>1
  <2>6. request[t] # 0 => answers'[request[t]] = <<status>>
    BY <1>1, <2>1, <2>3
  <2>7. ASSUME NEW id \in Ids
        PROVE  AnswerOf(id)'
    <3>1. CASE id = t
      BY <1>1, <2>2, <2>6, <3>1 DEF AnswerOf, Running
    <3>2. CASE id # t
      <4>1. request[id] # 0 => request[id] # request[t] /\ request[id] \in 1..MaxStreams
        <5>1. \A i, j \in Ids : request[i] = request[j] /\ request[i] # 0 => i = j
          BY DEF JobsInv, Asked
        <5>2. request[id] # 0 => request[id] # request[t]
          BY <3>2, <5>1
        <5>3. request[id] # 0 => request[id] \in 1..MaxStreams
          BY <1>1
        <5> QED
          BY <5>2, <5>3
      <4> QED
        BY <1>1, <2>2, <2>5, <3>2, <4>1 DEF AnswerOf
    <3> QED
      BY <3>1, <3>2
  <2>8. ASSUME NEW n \in 1..MaxStreams, n > Now'
        PROVE  answers'[n] = <<>>
    <3>1. n > Now /\ answers[n] = <<>> /\ request[t] <= Now /\ request[t] \in Nat
      BY <1>1, <1>4, <2>8
    <3>2. n # request[t]
      BY <1>1, <3>1
    <3> QED
      BY <2>5, <3>1, <3>2
  <2> QED
    BY <1>2, <2>4, <2>7, <2>8
<1> QED
  BY AnswersKept, <1>8, <1>9, <1>10, <1>11

\* Only these put streams into the queues of jobs.
LEMMA GotKept ==
  ASSUME JobsInv, JobsNext
  PROVE  UNCHANGED got \/ (\E s : ForwardN2N(s)) \/ ForwardToScriptJobs
<1>1. ASSUME NEW s, AtOnceStep(s) \/ HandleSleep(s) \/ StartJob(s) \/ HandleKill(s)
      PROVE  UNCHANGED got
  BY <1>1, AtOnceFrame DEF HandleSleep, StartJob, HandleKill
<1>2. CASE KillFirst \/ ProcessCompletedJobs
  BY <1>2 DEF KillFirst, ProcessCompletedJobs
<1>3. CASE Joined \/ KillDone \/ Sweep
  BY <1>3 DEF Joined, KillDone, Sweep
<1>4. ASSUME NEW id \in Ids, Thread(id)
      PROVE  UNCHANGED got
  BY <1>4, ThreadFrame
<1> QED
  BY StepCases, <1>1, <1>2, <1>3, <1>4

\* A later stream comes behind the others.
LEMMA InOrderAppend ==
  ASSUME NEW q \in Seq(Nat), NEW n \in Nat, \A i \in 1..Len(q) : q[i] < n,
         \A i, j \in 1..Len(q) : i < j => q[i] < q[j]
  PROVE  /\ Append(q, n) \in Seq(Nat) /\ Len(Append(q, n)) = Len(q) + 1
         /\ \A i \in 1..(Len(q) + 1) :
              (i \in 1..Len(q) /\ Append(q, n)[i] = q[i]) \/ (i = Len(q) + 1 /\ Append(q, n)[i] = n)
         /\ \A i, j \in 1..Len(Append(q, n)) : i < j => Append(q, n)[i] < Append(q, n)[j]
         /\ \A i \in 1..Len(Append(q, n)) : Append(q, n)[i] <= n
<1> DEFINE r == Append(q, n)
<1>1. /\ r \in Seq(Nat) /\ Len(r) = Len(q) + 1 /\ Len(q) \in Nat
      /\ \A i \in 1..Len(q) : r[i] = q[i]
      /\ r[Len(q) + 1] = n
  BY AppendProperties
<1> HIDE DEF r
<1>2. \A i \in 1..(Len(q) + 1) :
        (i \in 1..Len(q) /\ r[i] = q[i]) \/ (i = Len(q) + 1 /\ r[i] = n)
  BY <1>1
<1>3. ASSUME NEW i \in 1..Len(r), NEW j \in 1..Len(r), i < j
      PROVE  r[i] < r[j]
  <2>1. i \in 1..Len(q) /\ r[i] = q[i]
    BY <1>1, <1>3
  <2>2. CASE j \in 1..Len(q)
    BY <1>1, <1>3, <2>1, <2>2
  <2>3. CASE j = Len(q) + 1
    BY <1>1, <2>1, <2>3
  <2> QED
    BY <1>1, <2>2, <2>3
<1>4. ASSUME NEW i \in 1..Len(r)
      PROVE  r[i] <= n
  <2>1. CASE i \in 1..Len(q)
    BY <1>1, <2>1
  <2>2. CASE i = Len(q) + 1
    BY <1>1, <2>2
  <2> QED
    BY <1>1, <2>1, <2>2
<1> QED
  BY <1>1, <1>2, <1>3, <1>4 DEF r

\* What is in order stays so.
LEMMA OrderKept ==
  ASSUME JobsInv, JobsNext, NEW q \in Seq(1..MaxStreams), InOrder(q)
  PROVE  /\ InOrder(q)'
         /\ \A i \in 1..Len(q) : q[i] \in 1..Now /\ streams'[q[i]] = streams[q[i]]
<1>1. /\ Now \in Nat /\ Now' \in Nat /\ Now <= Now' /\ MaxStreams \in Nat
      /\ \A n \in 1..Now : streams'[n] = streams[n]
  BY StreamsKept, JobsAssumption DEF TakesOne
<1>2. ASSUME NEW i \in 1..Len(q)
      PROVE  q[i] \in 1..Now /\ q[i] <= Now'
  <2>1. q[i] \in 1..MaxStreams /\ q[i] <= Now
    BY ElementOfSeq DEF InOrder
  <2> QED
    BY <1>1, <2>1
<1> QED
  BY <1>1, <1>2 DEF InOrder

LEMMA ForwardedKept ==
  ASSUME JobsInv, JobsNext, NEW q \in Seq(1..MaxStreams), Forwarded(q)
  PROVE  Forwarded(q)'
BY OrderKept DEF Forwarded

LEMMA CopiedKept ==
  ASSUME JobsInv, JobsNext, NEW q \in Seq(1..MaxStreams), NEW n \in Nat, Copied(q, n),
         Busy' => Busy \/ TakesOne
  PROVE  Copied(q, n)'
<1>1. InOrder(q)' /\ \A i \in 1..Len(q) : q[i] \in 1..Now /\ streams'[q[i]] = streams[q[i]]
  BY OrderKept DEF Copied
<1>2. /\ Now \in Nat /\ Now' \in Nat /\ (Now' = Now \/ Now' = Now + 1)
      /\ (TakesOne => Now' = Now + 1)
  BY StreamsKept DEF TakesOne
<1>3. ASSUME NEW i \in 1..Len(q), Busy'
      PROVE  q[i] < Now'
  <2>1. q[i] \in Nat /\ q[i] <= Now /\ (Busy => q[i] < Now)
    BY <1>1, <1>2 DEF Copied
  <2>2. CASE Busy
    BY <1>2, <2>1, <2>2
  <2>3. CASE TakesOne
    BY <1>2, <2>1, <2>3
  <2> QED
    BY <1>3, <2>2, <2>3
<1> QED
  BY <1>1, <1>3 DEF Copied

\* The main thread turns to a stream when it takes it.
LEMMA BusyKept ==
  ASSUME JobsInv, JobsNext
  PROVE  Busy' => Busy \/ TakesOne
<1> USE DEF Busy
<1>1. ASSUME NEW s, ForwardN2N(s) \/ AtOnceStep(s) \/ HandleSleep(s) \/ StartJob(s) \/ HandleKill(s)
      PROVE  TakesOne
  <2>1. Takes(s)
    BY <1>1, AtOnceFrame DEF ForwardN2N, HandleSleep, StartJob, HandleKill
  <2>2. Now' = Now + 1
    BY <2>1, StepCases, TakesFrame DEF JobsInv
  <2> QED
    BY <2>1, <2>2, TypeParts DEF TakesOne, MainOK, JobsInv
<1>2. CASE KillFirst \/ Joined \/ KillDone
  BY <1>2 DEF KillFirst, Joined, KillDone
<1>3. CASE ForwardToScriptJobs \/ Sweep \/ ProcessCompletedJobs
  BY <1>3 DEF ForwardToScriptJobs, Sweep, ProcessCompletedJobs
<1>4. ASSUME NEW id \in Ids, Thread(id)
      PROVE  UNCHANGED main
  BY <1>4, ThreadFrame
<1> QED
  BY StepCases, <1>1, <1>2, <1>3, <1>4

LEMMA HandedStep ==
  ASSUME JobsInv, JobsNext
  PROVE  Handed'
<1> DEFINE S == Seq(1..MaxStreams)
<1>1. /\ Ids' = Ids /\ Ids \subseteq Nat /\ counter \in Nat /\ MaxStreams \in Nat
      /\ request \in [Ids -> 0..MaxStreams]
  BY JobsAssumption DEF JobsInv, JobsTypeOK, Ids
<1>2. got \in [Ids -> [in : S, n2n : S]]
  BY DEF JobsInv, JobsTypeOK, Queue
<1>3. \A id \in Ids : request[id] \in Nat /\ request[id] <= Now
  BY <1>1 DEF JobsInv, Asked
<1> HIDE DEF S
<1>4. /\ Now \in Nat /\ Now' \in Nat /\ (Now' = Now \/ Now' = Now + 1)
      /\ \A n \in 1..Now : streams'[n] = streams[n]
  BY StreamsKept DEF TakesOne
<1>5. ASSUME NEW id \in Ids
      PROVE  /\ got[id].in \in S /\ got[id].n2n \in S
             /\ Copied(got[id].in, request[id]) /\ Forwarded(got[id].n2n)
             /\ id > counter => got[id] = [in |-> <<>>, n2n |-> <<>>]
  BY <1>2 DEF JobsInv, Handed
\* A queue that stays as it is,
<1>6. ASSUME NEW id \in Ids, got'[id].in = got[id].in, request'[id] = request[id]
      PROVE  Copied(got[id].in, request[id])'
  <2>1. PICK q \in S, n \in Nat : q = got[id].in /\ n = request[id]
    BY <1>3, <1>5
  <2>2. Copied(q, n)'
    BY <1>5, <2>1, BusyKept, CopiedKept DEF S
  <2> QED
    BY <1>6, <2>1, <2>2
<1>7. ASSUME NEW id \in Ids, got'[id].n2n = got[id].n2n
      PROVE  Forwarded(got[id].n2n)'
  <2>1. PICK q \in S : q = got[id].n2n
    BY <1>5
  <2>2. Forwarded(q)'
    BY <1>5, <2>1, ForwardedKept DEF S
  <2> QED
    BY <1>7, <2>1, <2>2
\* and one that gets the stream at hand.
<1>8. ASSUME NEW id \in Ids, NEW q \in S, NEW n \in Nat, q = got[id].in, n = request[id],
             ForwardToScriptJobs
      PROVE  Copied(Append(q, Now), n)'
  <2>1. /\ Now \in 1..MaxStreams /\ Cur.op # "N2N" /\ Busy /\ ~Busy' /\ UNCHANGED streams
        /\ Now' = Now
    BY <1>4, <1>8, StreamsKnown DEF ForwardToScriptJobs, JobsInv, Handling, Busy, Now
  <2>2. /\ Copied(q, n) /\ q \in Seq(Nat) /\ n <= Now
        /\ \A i \in 1..Len(q) : q[i] < Now
        /\ \A i, j \in 1..Len(q) : i < j => q[i] < q[j]
    <3>1. q \in Seq(Nat)
      BY <1>1, SeqMonotonic DEF S
    <3> QED
      BY <1>3, <1>5, <1>8, <2>1, <3>1 DEF Copied, InOrder
  <2>3. PICK r \in Seq(Nat), m \in Nat :
          /\ r = Append(q, Now) /\ m = Now
          /\ \A i \in 1..Len(r) : (i \in 1..Len(q) /\ r[i] = q[i]) \/ r[i] = m
          /\ \A i, j \in 1..Len(r) : i < j => r[i] < r[j]
          /\ \A i \in 1..Len(r) : r[i] <= m
    <3>1. PICK m \in Nat : m = Now
      BY <1>4
    <3>2. \A i \in 1..Len(q) : q[i] < m
      BY <2>2, <3>1
    <3>3. /\ Append(q, m) \in Seq(Nat)
          /\ \A i \in 1..Len(Append(q, m)) :
               (i \in 1..Len(q) /\ Append(q, m)[i] = q[i]) \/ Append(q, m)[i] = m
          /\ \A i, j \in 1..Len(Append(q, m)) : i < j => Append(q, m)[i] < Append(q, m)[j]
          /\ \A i \in 1..Len(Append(q, m)) : Append(q, m)[i] <= m
      BY <2>2, <3>2, InOrderAppend
    <3> QED
      BY <3>1, <3>3
  <2>4. InOrder(r)'
    BY <2>1, <2>3 DEF InOrder
  <2>5. ASSUME NEW i \in 1..Len(r)
        PROVE  r[i] >= n /\ streams[r[i]].op # "N2N"
    <3>1. CASE r[i] = m
      BY <2>1, <2>2, <2>3, <3>1, <1>4 DEF Cur
    <3>2. CASE i \in 1..Len(q) /\ r[i] = q[i]
      BY <2>2, <3>2 DEF Copied
    <3> QED
      BY <2>3, <3>1, <3>2
  <2>6. Copied(r, n)'
    BY <2>1, <2>4, <2>5 DEF Copied
  <2> QED
    BY <2>1, <2>3, <2>6
<1>9. ASSUME NEW s, ForwardN2N(s), NEW id \in Ids, NEW q \in S, q = got[id].n2n, NEW n \in Nat, n = Now'
      PROVE  Forwarded(Append(q, n))'
  <2>1. n = Now + 1 /\ n \in 1..MaxStreams /\ streams'[n].op = "N2N"
    BY <1>9, StepCases, TakesFrame DEF ForwardN2N, JobsInv
  <2>2. /\ Forwarded(q) /\ q \in Seq(Nat)
        /\ \A i, j \in 1..Len(q) : i < j => q[i] < q[j]
        /\ \A i \in 1..Len(q) : q[i] <= Now
    <3>1. q \in Seq(Nat)
      BY <1>1, SeqMonotonic DEF S
    <3> QED
      BY <1>5, <1>9, <3>1 DEF Forwarded, InOrder
  <2>3. \A i \in 1..Len(q) : q[i] \in Nat /\ q[i] < n
    BY <1>4, <2>1, <2>2
  <2>4. PICK r \in Seq(Nat) :
          /\ r = Append(q, n)
          /\ \A i \in 1..Len(r) : (i \in 1..Len(q) /\ r[i] = q[i]) \/ r[i] = n
          /\ \A i, j \in 1..Len(r) : i < j => r[i] < r[j]
          /\ \A i \in 1..Len(r) : r[i] <= n
    BY <2>2, <2>3, InOrderAppend
  <2>5. InOrder(r)'
    BY <1>9, <2>4 DEF InOrder
  <2>6. \A i \in 1..Len(q) : streams'[q[i]].op = "N2N"
    BY <2>2, <1>1, <1>5, <1>9, OrderKept DEF Forwarded, S
  <2>7. \A i \in 1..Len(r) : streams'[r[i]].op = "N2N"
    BY <2>1, <2>4, <2>6
  <2> QED
    BY <2>4, <2>5, <2>7 DEF Forwarded
<1>10. CASE UNCHANGED <<got, request, counter>>
  BY <1>1, <1>5, <1>6, <1>7, <1>10 DEF Handed
<1>11. ASSUME NEW s, StartJob(s)
       PROVE  Handed'
  <2>0. PICK new \in Ids : new = counter + 1
    BY <1>11, StepCases, StartJobFrame
  <2>1. /\ counter' = new /\ UNCHANGED got
        /\ \A id \in Ids : id # new => request'[id] = request[id]
    BY <1>1, <1>11, <2>0 DEF StartJob, NewJob
  <2>2. got[new] = [in |-> <<>>, n2n |-> <<>>]
    BY <1>1, <1>5, <2>0
  <2>3. got'[new].in = <<>> /\ got'[new].n2n = <<>>
    BY <2>1, <2>2
  <2>4. Copied(got[new].in, request[new])' /\ Forwarded(got[new].n2n)'
    BY <2>3 DEF Copied, Forwarded, InOrder
  <2>5. \A id \in Ids : id > counter' => id # new /\ id > counter
    BY <1>1, <2>0, <2>1
  <2>6. ASSUME NEW id \in Ids, id # new
        PROVE  Copied(got[id].in, request[id])' /\ Forwarded(got[id].n2n)'
    BY <1>6, <1>7, <2>1, <2>6
  <2>7. ASSUME NEW id \in Ids, id > counter'
        PROVE  got'[id] = [in |-> <<>>, n2n |-> <<>>]
    BY <1>5, <2>1, <2>5, <2>7
  <2>8. ASSUME NEW id \in Ids
        PROVE  Copied(got[id].in, request[id])' /\ Forwarded(got[id].n2n)'
    BY <2>4, <2>6
  <2> QED
    BY <1>1, <2>7, <2>8 DEF Handed
<1>12. CASE ForwardToScriptJobs
  <2>1. /\ UNCHANGED <<request, counter>>
        /\ \A id \in Ids : got'[id] = IF id \in Listed /\ capture[id]
             THEN [in |-> Append(got[id].in, Now), n2n |-> got[id].n2n] ELSE got[id]
    BY <1>12 DEF ForwardToScriptJobs
  <2>5. ASSUME NEW id \in Ids
        PROVE  /\ got'[id].n2n = got[id].n2n
               /\ got'[id].in = got[id].in \/ got'[id].in = Append(got[id].in, Now)
    <3>1. CASE id \in Listed /\ capture[id]
      <4>1. got'[id] = [in |-> Append(got[id].in, Now), n2n |-> got[id].n2n]
        BY <2>1, <3>1
      <4> QED
        BY <4>1
    <3>2. CASE ~(id \in Listed /\ capture[id])
      BY <2>1, <3>2
    <3> QED
      BY <3>1, <3>2
  <2>2. \A id \in Ids : id \in Listed => ~(id > counter)
    BY <1>1, ListedIds DEF JobsInv
  <2>3. ASSUME NEW id \in Ids
        PROVE  Copied(got[id].in, request[id])'
    <3>1. CASE got'[id].in = got[id].in
      BY <1>6, <2>1, <3>1
    <3>2. CASE got'[id].in = Append(got[id].in, Now)
      <4>1. PICK q \in S, n \in Nat : q = got[id].in /\ n = request[id]
        BY <1>3, <1>5
      <4>2. Copied(Append(q, Now), n)'
        BY <1>8, <1>12, <4>1
      <4>3. UNCHANGED Now
        BY <1>12 DEF ForwardToScriptJobs, Now
      <4> QED
        BY <2>1, <3>2, <4>1, <4>2, <4>3
    <3> QED
      BY <2>5, <3>1, <3>2
  <2>4. ASSUME NEW id \in Ids
        PROVE  Forwarded(got[id].n2n)'
    BY <1>7, <2>5
  <2> QED
    BY <1>1, <1>5, <2>1, <2>2, <2>3, <2>4 DEF Handed
<1>13. ASSUME NEW s, ForwardN2N(s)
       PROVE  Handed'
  <2>1. PICK n \in Nat : n = Now'
    BY <1>4
  <2>2. /\ UNCHANGED <<request, counter>>
        /\ \A id \in Ids :
             \/ got'[id] = got[id]
             \/ id \in Listed /\ got'[id] = [in |-> got[id].in, n2n |-> Append(got[id].n2n, n)]
    BY <1>13, <2>1 DEF ForwardN2N
  <2>6. ASSUME NEW id \in Ids
        PROVE  /\ got'[id].in = got[id].in
               /\ got'[id].n2n = got[id].n2n \/ got'[id].n2n = Append(got[id].n2n, n)
    <3>1. CASE got'[id] = got[id]
      BY <3>1
    <3>2. CASE got'[id] = [in |-> got[id].in, n2n |-> Append(got[id].n2n, n)]
      BY <3>2
    <3> QED
      BY <2>2, <3>1, <3>2
  <2>3. \A id \in Ids : id \in Listed => ~(id > counter)
    BY <1>1, ListedIds DEF JobsInv
  <2>4. ASSUME NEW id \in Ids
        PROVE  Forwarded(got[id].n2n)'
    <3>1. CASE got'[id].n2n = got[id].n2n
      BY <1>7, <3>1
    <3>2. CASE got'[id].n2n = Append(got[id].n2n, n)
      <4>1. PICK q \in S : q = got[id].n2n
        BY <1>5
      <4>2. Forwarded(Append(q, n))'
        BY <1>9, <1>13, <2>1, <4>1
      <4> QED
        BY <3>2, <4>1, <4>2
    <3> QED
      BY <2>6, <3>1, <3>2
  <2>5. ASSUME NEW id \in Ids
        PROVE  Copied(got[id].in, request[id])'
    BY <1>6, <2>2, <2>6
  <2> QED
    BY <1>1, <1>5, <2>2, <2>3, <2>4, <2>5 DEF Handed
<1>14. ASSUME UNCHANGED got, ~\E s : StartJob(s)
       PROVE  Handed'
  BY <1>10, <1>14, RequestKept
<1> QED
  BY GotKept, <1>11, <1>12, <1>13, <1>14

\* Why the process may end.
LEMMA DownKept ==
  ASSUME JobsInv, JobsNext
  PROVE  \/ UNCHANGED down
         \/ down' \in {"exit", "updated", "entry", "short", "vanished"}
         \/ \E id \in Ids : WaitPop(id) /\ n2n[id] = <<>> /\ posts[id] > 0 /\ UNCHANGED polled
         \/ down' = "unloaded" /\ ~scripts
              /\ \E id \in Ids : step[id] = "at" /\ op[id] = "MOD_EXECFUNC"
<1>1. ASSUME NEW s, ForwardN2N(s) \/ AtOnceStep(s) \/ HandleSleep(s) \/ StartJob(s) \/ HandleKill(s)
      PROVE  UNCHANGED down \/ down' = "exit"
  BY <1>1, AtOnceFrame DEF ForwardN2N, HandleSleep, StartJob, HandleKill
<1>2. CASE KillFirst \/ ForwardToScriptJobs \/ ProcessCompletedJobs
  BY <1>2 DEF KillFirst, ForwardToScriptJobs, ProcessCompletedJobs
<1>3. CASE Joined \/ KillDone \/ Sweep
  BY <1>3 DEF Joined, KillDone, Sweep
<1>4. ASSUME NEW id \in Ids, JobStep(id)
      PROVE  \/ UNCHANGED down
             \/ down' \in {"entry", "short", "vanished"}
             \/ WaitPop(id) /\ n2n[id] = <<>> /\ posts[id] > 0 /\ UNCHANGED polled
             \/ down' = "unloaded" /\ ~scripts /\ step[id] = "at" /\ op[id] = "MOD_EXECFUNC"
  <2>1. CASE Enter(id) \/ LockDirectory(id) \/ Snippet(id)
    BY <2>1 DEF Enter, LockDirectory, Snippet
  <2>2. CASE Take(id)
    BY <2>2 DEF Take
  <2>3. CASE Work(id)
    BY <2>3, WorkFrame
  <2>4. CASE ChangeDirectory(id) \/ UnloadScript(id)
    BY <2>4 DEF ChangeDirectory, UnloadScript
  <2>5. CASE LoadScript(id) \/ StoreScript(id)
    BY <2>5 DEF LoadScript, StoreScript
  <2>6. CASE FindScript(id)
    BY <2>6 DEF FindScript
  <2>7. CASE WaitPop(id)
    BY <2>7 DEF WaitPop
  <2>8. CASE InitScriptFails(id) \/ ScriptReturns(id)
    BY <2>8 DEF InitScriptFails, ScriptReturns, ScriptOver
  <2> QED
    BY <1>4, <2>1, <2>2, <2>3, <2>4, <2>5, <2>6, <2>7, <2>8 DEF JobStep
<1>5. ASSUME NEW id \in Ids, ScriptCall(id) \/ Cancelled(id)
      PROVE  UNCHANGED down
  BY <1>5 DEF ScriptCall, SetCaptureIncomingStreams, SetN2NState, RecvStream, RecvN2N, WaitN2N,
    ScriptChdir, Cancelled
<1>6. ASSUME NEW id \in Ids, Thread(id)
      PROVE  JobStep(id) \/ ScriptCall(id) \/ Cancelled(id)
  BY <1>6 DEF Thread
<1> QED
  BY StepCases, <1>1, <1>2, <1>3, <1>4, <1>5, <1>6

LEMMA UnloadedStays ==
  ASSUME JobsInv, JobsNext, Unloaded
  PROVE  Unloaded'
<1>1. PICK n \in 1..Now : streams[n].op = "MOD_UNLOADSCRIPT"
  BY DEF Unloaded
<1>2. Now \in Nat /\ Now' \in Nat /\ Now <= Now' /\ streams'[n] = streams[n]
  BY StreamsKept DEF TakesOne
<1>3. n \in 1..Now'
  BY <1>2
<1> QED
  BY <1>1, <1>2, <1>3 DEF Unloaded

\* A working directory that was reached by its own name is reached from itself.
LEMMA DirectoryStep ==
  ASSUME JobsInv, JobsNext
  PROVE  (~strayed => cwd = path)'
<1>1. cwd \in Dirs /\ path \in Targets /\ (~strayed => cwd = path)
  BY DEF JobsInv, JobsTypeOK, Shared
<1>2. ASSUME UNCHANGED <<cwd, path, strayed>>
      PROVE  (~strayed => cwd = path)'
  BY <1>1, <1>2
<1>3. ASSUME NEW s, ForwardN2N(s) \/ AtOnceStep(s) \/ HandleSleep(s) \/ StartJob(s) \/ HandleKill(s)
      PROVE  UNCHANGED <<cwd, path, strayed>>
  BY <1>3, AtOnceFrame DEF ForwardN2N, HandleSleep, StartJob, HandleKill
<1>4. ASSUME KillFirst \/ ForwardToScriptJobs \/ ProcessCompletedJobs
      PROVE  UNCHANGED <<cwd, path, strayed>>
  BY <1>4 DEF KillFirst, ForwardToScriptJobs, ProcessCompletedJobs
<1>5. ASSUME Joined \/ KillDone \/ Sweep
      PROVE  UNCHANGED <<cwd, path, strayed>>
  BY <1>5 DEF Joined, KillDone, Sweep
<1>6. ASSUME NEW id \in Ids, Thread(id)
      PROVE  (~strayed => cwd = path)'
  <2>1. CASE Enter(id)
    <3>1. UNCHANGED <<path, strayed>> /\ (cwd' = cwd \/ cwd' = Chdir(path))
      BY <2>1 DEF Enter
    <3>2. ASSUME cwd = path
          PROVE  Chdir(path) = cwd
      <4>1. path \in Dirs \cap Targets
        BY <1>1, <3>2
      <4>2. Leads[<<path, path>>] \in {path, Nothing}
        BY <4>1, JobsAssumption
      <4> QED
        BY <3>2, <4>2 DEF Chdir, Reached
    <3> QED
      BY <1>1, <3>1, <3>2
  <2>2. CASE LockDirectory(id) \/ Snippet(id)
    BY <1>2, <2>2 DEF LockDirectory, Snippet
  <2>3. CASE Take(id)
    BY <1>2, <2>3 DEF Take
  <2>4. CASE Work(id)
    BY <1>2, <2>4, WorkFrame
  <2>5. CASE ChangeDirectory(id)
    <3>1. PICK target : path' = target /\ strayed' = (strayed \/ target # cwd')
      BY <2>5 DEF ChangeDirectory
    <3> QED
      BY <3>1
  <2>6. CASE UnloadScript(id)
    BY <1>2, <2>6 DEF UnloadScript
  <2>7. CASE LoadScript(id) \/ StoreScript(id)
    BY <1>2, <2>7 DEF LoadScript, StoreScript
  <2>8. CASE FindScript(id)
    BY <1>2, <2>8 DEF FindScript
  <2>9. CASE WaitPop(id)
    BY <1>2, <2>9 DEF WaitPop
  <2>10. CASE InitScriptFails(id) \/ ScriptReturns(id)
    BY <1>2, <2>10 DEF InitScriptFails, ScriptReturns, ScriptOver
  <2>11. CASE SetCaptureIncomingStreams(id) \/ SetN2NState(id) \/ RecvStream(id) \/ RecvN2N(id)
            \/ WaitN2N(id)
    BY <1>2, <2>11 DEF SetCaptureIncomingStreams, SetN2NState, RecvStream, RecvN2N, WaitN2N
  <2>12. CASE ScriptChdir(id)
    BY <2>12 DEF ScriptChdir
  <2>13. CASE Cancelled(id)
    BY <1>2, <2>13 DEF Cancelled
  <2> QED
    BY <1>6, <2>1, <2>2, <2>3, <2>4, <2>5, <2>6, <2>7, <2>8, <2>9, <2>10, <2>11, <2>12, <2>13
       DEF Thread, JobStep, ScriptCall
<1> QED
  BY StepCases, <1>2, <1>3, <1>4, <1>5, <1>6

\* A post for each stream, as long as the job waits for each.
PostOf(id) == ~polled[id] => posts[id] = Len(n2n[id])

LEMMA PostsStep ==
  ASSUME JobsInv, JobsNext
  PROVE  \A id \in Ids : PostOf(id)'
<1>1. /\ n2n \in [Ids -> Seq(1..MaxStreams)] /\ posts \in [Ids -> Nat] /\ polled \in [Ids -> BOOLEAN]
      /\ \A id \in Ids : PostOf(id)
  BY DEF JobsInv, JobsTypeOK, Queue, Shared, WaitFindsStream, PostOf
<1> USE DEF PostOf
<1>2. ASSUME UNCHANGED <<n2n, posts, polled>>
      PROVE  \A id \in Ids : PostOf(id)'
  BY <1>1, <1>2
<1>3. ASSUME NEW s, ForwardN2N(s), NEW id \in Ids
      PROVE  PostOf(id)'
  <2>1. PICK n \in 1..MaxStreams : n = Now'
    BY <1>3, StepCases, TakesFrame DEF ForwardN2N, JobsInv
  <2>2. polled'[id] = polled[id]
    BY <1>3 DEF ForwardN2N
  <2>3. \/ n2n'[id] = n2n[id] /\ posts'[id] = posts[id]
        \/ n2n'[id] = Append(n2n[id], n) /\ posts'[id] = posts[id] + 1
    BY <1>3, <2>1 DEF ForwardN2N
  <2>4. PICK q \in Seq(1..MaxStreams) : q = n2n[id]
    BY <1>1
  <2>5. Len(Append(q, n)) = Len(q) + 1
    BY AppendProperties
  <2> QED
    BY <1>1, <2>2, <2>3, <2>4, <2>5
<1>4. ASSUME NEW s, AtOnceStep(s) \/ HandleSleep(s) \/ StartJob(s) \/ HandleKill(s)
      PROVE  UNCHANGED <<n2n, posts, polled>>
  BY <1>4, AtOnceFrame DEF HandleSleep, StartJob, HandleKill
<1>5. ASSUME KillFirst \/ ForwardToScriptJobs \/ ProcessCompletedJobs
      PROVE  UNCHANGED <<n2n, posts, polled>>
  BY <1>5 DEF KillFirst, ForwardToScriptJobs, ProcessCompletedJobs
<1>6. ASSUME Joined \/ KillDone \/ Sweep
      PROVE  UNCHANGED <<n2n, posts, polled>>
  BY <1>6 DEF Joined, KillDone, Sweep
<1>7. ASSUME NEW t \in Ids, Thread(t), NEW id \in Ids
      PROVE  PostOf(id)'
  <2>1. \/ UNCHANGED <<n2n, posts, polled>>
        \/ /\ TakesN2N(t) /\ posts[t] > 0
           /\ posts' = [posts EXCEPT ![t] = @ - 1] /\ UNCHANGED polled
        \/ /\ TakesN2N(t)
           /\ polled' = [polled EXCEPT ![t] = TRUE] /\ UNCHANGED posts
    BY <1>7, ThreadQueues DEF JobsInv
  <2>2. TakesN2N(t) => Len(Tail(n2n[t])) = Len(n2n[t]) - 1
    <3>1. PICK q \in Seq(1..MaxStreams) : q = n2n[t]
      BY <1>1
    <3>2. q # <<>> => Len(Tail(q)) = Len(q) - 1
      BY HeadTailProperties
    <3> QED
      BY <3>1, <3>2 DEF TakesN2N
  <2>3. CASE id # t
    BY <1>1, <2>1, <2>3 DEF TakesN2N
  <2>4. CASE id = t
    BY <1>1, <2>1, <2>2, <2>4 DEF TakesN2N
  <2> QED
    BY <2>3, <2>4
<1> QED
  BY StepCases, <1>2, <1>3, <1>4, <1>5, <1>6, <1>7

\* A job that has found its script finds it again, unless it was unloaded.
AtScript(id) == op[id] = "MOD_EXECFUNC" /\ step[id] = "at" => scripts \/ Unloaded

LEMMA ScriptThread ==
  ASSUME JobsInv, NEW t \in Ids, Thread(t)
  PROVE  /\ scripts => scripts' \/ (op[t] = "MOD_UNLOADSCRIPT" /\ UnloadScript(t))
         /\ step'[t] = "at" => step[t] = "at" \/ op[t] = "MOD_LOADSCRIPT" \/ scripts'
<1>1. step \in [Ids -> Running \cup {"none", "ended", "joined"}]
  BY DEF JobsInv, JobsTypeOK
<1>2. CASE Enter(t) \/ LockDirectory(t) \/ Snippet(t)
  BY <1>1, <1>2 DEF Enter, LockDirectory, Snippet
<1>3. CASE Take(t)
  BY <1>1, <1>3 DEF Take
<1>4. CASE Work(t)
  BY <1>1, <1>4, WorkFrame DEF Answers1
<1>5. CASE ChangeDirectory(t) \/ UnloadScript(t)
  BY <1>1, <1>5 DEF ChangeDirectory, UnloadScript
<1>6. CASE LoadScript(t) \/ StoreScript(t)
  BY <1>1, <1>6 DEF LoadScript, StoreScript
<1>7. CASE FindScript(t)
  BY <1>1, <1>7 DEF FindScript
<1>8. CASE WaitPop(t)
  BY <1>1, <1>8 DEF WaitPop
<1>9. CASE InitScriptFails(t) \/ ScriptReturns(t)
  BY <1>1, <1>9 DEF InitScriptFails, ScriptReturns, ScriptOver
<1>10. CASE ScriptCall(t)
  BY <1>1, <1>10 DEF ScriptCall, SetCaptureIncomingStreams, SetN2NState, RecvStream, RecvN2N,
    WaitN2N, ScriptChdir
<1>11. CASE Cancelled(t)
  BY <1>1, <1>11 DEF Cancelled
<1> QED
  BY <1>2, <1>3, <1>4, <1>5, <1>6, <1>7, <1>8, <1>9, <1>10, <1>11 DEF Thread, JobStep

LEMMA ScriptsStep ==
  ASSUME JobsInv, JobsNext
  PROVE  \A id \in Ids : AtScript(id)'
<1>1. /\ step \in [Ids -> Running \cup {"none", "ended", "joined"}] /\ op \in [Ids -> Ops \cup {"none"}]
      /\ \A id \in Ids : AtScript(id)
  BY DEF JobsInv, JobsTypeOK, Shared, AtScript
<1> USE DEF AtScript
<1>2. ASSUME NEW t \in Ids, Thread(t), NEW id \in Ids
      PROVE  AtScript(id)'
  <2>1. UNCHANGED op /\ \A x \in Ids \ {t} : step'[x] = step[x]
    BY <1>1, <1>2, ThreadFrame DEF Continues, Answers1, Silent
  <2>2. op[t] = "MOD_UNLOADSCRIPT" => Unloaded
    <3>1. op[t] = "MOD_UNLOADSCRIPT" =>
            request[t] \in 1..Now /\ streams[request[t]].op = "MOD_UNLOADSCRIPT"
      <4>1. request[t] \in 0..MaxStreams /\ request[t] <= Now /\ Now \in Nat
        BY StreamsKnown DEF JobsInv, JobsTypeOK, Asked
      <4> QED
        BY <4>1 DEF JobsInv, Asked
    <3> QED
      BY <3>1 DEF Unloaded
  <2>3. Unloaded => Unloaded'
    BY UnloadedStays
  <2>4. /\ scripts => scripts' \/ Unloaded
        /\ step'[t] = "at" => step[t] = "at" \/ op[t] = "MOD_LOADSCRIPT" \/ scripts'
    BY <1>2, <2>2, ScriptThread
  <2>5. CASE id = t
    BY <1>1, <2>1, <2>3, <2>4, <2>5
  <2>6. CASE id # t
    BY <1>1, <2>1, <2>3, <2>4, <2>6
  <2> QED
    BY <2>5, <2>6
<1>3. ASSUME ~\E t \in Ids : Thread(t)
      PROVE  UNCHANGED scripts
  <2>1. ASSUME NEW s, ForwardN2N(s) \/ AtOnceStep(s) \/ HandleSleep(s) \/ StartJob(s) \/ HandleKill(s)
        PROVE  UNCHANGED scripts
    BY <2>1, AtOnceFrame DEF ForwardN2N, HandleSleep, StartJob, HandleKill
  <2>2. CASE KillFirst \/ ForwardToScriptJobs \/ ProcessCompletedJobs
    BY <2>2 DEF KillFirst, ForwardToScriptJobs, ProcessCompletedJobs
  <2>3. CASE Joined \/ KillDone \/ Sweep
    BY <2>3 DEF Joined, KillDone, Sweep
  <2> QED
    BY StepCases, <1>3, <2>1, <2>2, <2>3
<1>4. ASSUME ~\E t \in Ids : Thread(t), NEW id \in Ids
      PROVE  AtScript(id)'
  <2>1. UNCHANGED scripts /\ (Unloaded => Unloaded')
    BY <1>3, <1>4, UnloadedStays
  <2>2. CASE UNCHANGED <<op, step>>
    BY <1>1, <2>1, <2>2
  <2>3. ASSUME NEW s, StartJob(s)
        PROVE  AtScript(id)'
    <3>1. PICK new \in Ids : new = counter + 1
      BY <2>3, StepCases, StartJobFrame
    <3>2. /\ \A x \in Ids \ {new} : step'[x] = step[x] /\ op'[x] = op[x]
          /\ step'[new] \in {"take", "enter"}
      BY <1>1, <2>3, <3>1 DEF StartJob, NewJob
    <3> QED
      BY <1>1, <2>1, <3>2
  <2>4. ASSUME ~\E s : StartJob(s)
        PROVE  UNCHANGED op /\ \A x \in Ids : step'[x] = "at" => step[x] = "at"
    <3>1. UNCHANGED op
      BY <2>4, RequestKept
    <3>2. UNCHANGED step \/ (victim \in Ids /\ step' = [step EXCEPT ![victim] = "joined"])
      BY <1>4, <2>4, StepKept
    <3> QED
      BY <1>1, <3>1, <3>2
  <2> QED
    BY <1>1, <2>1, <2>3, <2>4
<1> QED
  BY <1>2, <1>4

LEMMA SharedStep ==
  ASSUME JobsInv, JobsNext
  PROVE  Shared'
<1>1. /\ Ids' = Ids /\ polled \in [Ids -> BOOLEAN] /\ \A id \in Ids : PostOf(id)
      /\ \A id \in Ids : AtScript(id)
      /\ down = "empty" => \E id \in Ids : polled[id]
      /\ down = "unloaded" => Unloaded
      /\ n2n \in [Ids -> Seq(1..MaxStreams)] /\ posts \in [Ids -> Nat]
  BY DEF JobsInv, JobsTypeOK, Ids, Shared, WaitFindsStream, OnlyUnloadKills, PostOf, AtScript,
    Unloaded, Queue
<1>2. \A id \in Ids : PostOf(id)' /\ AtScript(id)'
  BY PostsStep, ScriptsStep
<1>3. \A id \in Ids : polled[id] => polled'[id]
  <2>1. ASSUME NEW t \in Ids, Thread(t), NEW id \in Ids, polled[id]
        PROVE  polled'[id]
    <3>1. UNCHANGED polled \/ polled' = [polled EXCEPT ![t] = TRUE]
      BY <2>1, ThreadQueues DEF JobsInv
    <3> QED
      BY <1>1, <2>1, <3>1
  <2>2. ASSUME NEW s, ForwardN2N(s) \/ AtOnceStep(s) \/ HandleSleep(s) \/ StartJob(s) \/ HandleKill(s)
        PROVE  UNCHANGED polled
    BY <2>2, AtOnceFrame DEF ForwardN2N, HandleSleep, StartJob, HandleKill
  <2>3. ASSUME KillFirst \/ ForwardToScriptJobs \/ ProcessCompletedJobs
        PROVE  UNCHANGED polled
    BY <2>3 DEF KillFirst, ForwardToScriptJobs, ProcessCompletedJobs
  <2>4. ASSUME Joined \/ KillDone \/ Sweep
        PROVE  UNCHANGED polled
    BY <2>4 DEF Joined, KillDone, Sweep
  <2> QED
    BY StepCases, <2>1, <2>2, <2>3, <2>4
<1>4. (down = "empty" => \E id \in Ids : polled[id])'
  <2>1. CASE UNCHANGED down
    BY <1>1, <1>3, <2>1
  <2>2. ASSUME NEW t \in Ids, n2n[t] = <<>>, posts[t] > 0
        PROVE  polled[t]
    <3>1. Len(n2n[t]) = 0
      BY <2>2
    <3> QED
      BY <1>1, <2>2, <3>1 DEF PostOf
  <2>3. CASE \E id \in Ids : WaitPop(id) /\ n2n[id] = <<>> /\ posts[id] > 0 /\ UNCHANGED polled
    BY <1>1, <2>2, <2>3
  <2> QED
    BY DownKept, <2>1, <2>3
<1>5. (down = "unloaded" => Unloaded)'
  <2>1. CASE UNCHANGED down
    BY <1>1, <2>1, UnloadedStays
  <2>2. CASE ~scripts /\ \E id \in Ids : step[id] = "at" /\ op[id] = "MOD_EXECFUNC"
    BY <1>1, <2>2, UnloadedStays DEF AtScript
  <2>3. CASE \E id \in Ids : WaitPop(id) /\ n2n[id] = <<>> /\ posts[id] > 0 /\ UNCHANGED polled
    BY <2>3 DEF WaitPop
  <2> QED
    BY DownKept, <2>1, <2>2, <2>3
<1>6. WaitFindsStream'
  BY <1>1, <1>2, <1>4 DEF WaitFindsStream, PostOf
<1>7. OnlyUnloadKills'
  BY <1>5 DEF OnlyUnloadKills, Unloaded
<1> QED
  BY <1>1, <1>2, <1>6, <1>7, DirectoryStep DEF Shared, AtScript

-----------------------------------------------------------------------------
(* The theorems.                                                           *)

LEMMA JobsInitInv ==
  ASSUME JobsInit
  PROVE  JobsInv
<1> USE DEF JobsInit
<1>1. /\ MaxStreams \in Nat /\ plan \in Plans /\ plan.startup \in BOOLEAN
      /\ Ids \subseteq Nat /\ 1 \in Ids /\ 0 \notin Ids
      /\ plan.sent \in Seq(Range(plan.sent)) /\ Home \in Dirs \cap Targets /\ Nothing \notin Reasons
  BY JobsAssumption DEF Ids
<1>2. Len(plan.sent) \in Nat
  BY <1>1, LenProperties
<1>3. streams = <<>> /\ Now = 0
  BY DEF Now
<1>4. <<>> \in Queue /\ <<>> \in Seq(1..counter) /\ Len(<<>>) = 0
  BY EmptySeq DEF Queue
<1>5. ListOK /\ ((Listed = {1} /\ counter = 1) \/ (Listed = {} /\ counter = 0))
  <2>1. CASE plan.startup
    <3>1. list = <<1>> /\ counter = 1
      BY <2>1
    <3>2. <<1>> \in Seq(1..1) /\ Len(<<1>>) = 1 /\ <<1>>[1] = 1
      OBVIOUS
    <3>3. Listed = {1}
      BY <3>1, <3>2 DEF Listed
    <3>4. ListOK
      BY <1>1, <3>1, <3>2 DEF ListOK
    <3> QED
      BY <3>1, <3>3, <3>4
  <2>2. CASE ~plan.startup
    BY <1>4, <2>2 DEF ListOK, Listed
  <2> QED
    BY <2>1, <2>2
<1>6. \A id \in Ids : /\ request[id] = 0 /\ inbox[id] = <<>> /\ n2n[id] = <<>> /\ posts[id] = 0
                      /\ capture[id] = FALSE /\ receive[id] = FALSE /\ polled[id] = FALSE
                      /\ got[id] = [in |-> <<>>, n2n |-> <<>>]
  BY DEF Blank
<1>7. /\ step \in [Ids -> {"none", "enter"}] /\ op \in [Ids -> {"none", "STARTUP"}]
      /\ \A id \in Ids :
           IF id <= counter THEN step[id] = "enter" /\ op[id] = "STARTUP" /\ id = 1 /\ counter = 1
           ELSE step[id] = "none" /\ op[id] = "none"
  <2>1. CASE plan.startup
    <3>1. /\ counter = 1 /\ step = [[id \in Ids |-> "none"] EXCEPT ![1] = "enter"]
          /\ op = [[id \in Ids |-> "none"] EXCEPT ![1] = "STARTUP"]
      BY <2>1 DEF Blank
    <3>2. \A id \in Ids : id \in Nat /\ id >= 1
      BY DEF Ids
    <3> QED
      BY <1>1, <3>1, <3>2
  <2>2. CASE ~plan.startup
    BY <1>1, <2>2 DEF Blank, Ids
  <2> QED
    BY <2>1, <2>2
<1>8. counter \in Nat /\ counter <= 1
  BY <1>5
<1>9. StreamsOK
  <2>1. SubSeq(plan.sent, 1, 0) = <<>>
    BY SubSeqEmpty
  <2> QED
    BY <1>1, <1>2, <1>3, <2>1 DEF StreamsOK
<1>10. MainOK
  BY <1>1 DEF MainOK
<1>11. StepOK
  BY <1>1, <1>7, <1>8 DEF StepOK, Running
<1>12. AskOK
  BY <1>1, <1>7 DEF AskOK, Blank, Ops
<1>13. QueuesOK
  BY <1>4 DEF QueuesOK, Blank
<1>14. DirsOK
  BY <1>1 DEF DirsOK
<1>15. JobsTypeOK
  BY <1>5, <1>9, <1>10, <1>11, <1>12, <1>13, <1>14, TypeParts
<1>16. Asked
  <2>1. ASSUME NEW id \in Ids
        PROVE  /\ request[id] <= Now /\ request[id] = 0
               /\ op[id] \in {"STARTUP", "none"} /\ (op[id] = "none" <=> id > counter)
    <3>1. request[id] <= Now /\ request[id] = 0
      <4>1. request[id] = 0
        BY DEF Blank
      <4> QED
        BY <1>3, <4>1
    <3>2. id \in Nat
      BY <1>1
    <3>3. CASE id <= counter
      BY <1>7, <1>8, <3>1, <3>2, <3>3
    <3>4. CASE ~(id <= counter)
      BY <1>7, <1>8, <3>1, <3>2, <3>4
    <3> QED
      BY <3>3, <3>4
  <2> QED
    BY <1>3, <1>8, <2>1 DEF Asked
<1>17. Handling
  BY DEF Handling
<1>18. Places
  BY <1>1, <1>5, <1>6, <1>7, <1>8 DEF Places, ThreadHasJob, Running
<1>19. Answers
  BY <1>3, <1>6 DEF Answers, AnswerOf
<1>20. Handed
  <2>1. \A n : Copied(<<>>, n) /\ Forwarded(<<>>)
    BY <1>4 DEF Copied, Forwarded, InOrder
  <2>2. \A id \in Ids : got[id].in = <<>> /\ got[id].n2n = <<>>
    <3>1. \A id \in Ids : got[id] = [in |-> <<>>, n2n |-> <<>>]
      BY DEF Blank
    <3> QED
      BY <3>1
  <2> QED
    BY <1>6, <2>1, <2>2 DEF Handed
<1>21. Shared
  BY <1>1, <1>4, <1>6, <1>7 DEF Shared, WaitFindsStream, OnlyUnloadKills, Reasons
<1> QED
  BY <1>15, <1>16, <1>17, <1>18, <1>19, <1>20, <1>21 DEF JobsInv

LEMMA JobsStep ==
  ASSUME JobsInv, [JobsNext]_jobsVars
  PROVE  JobsInv'
<1>1. CASE JobsNext
  BY <1>1, TypeStep, AskedStep, HandlingStep, PlacesStep, AnswersStep, HandedStep, SharedStep
     DEF JobsInv
<1>2. CASE UNCHANGED jobsVars
  <2>1. JobsTypeOK'
    BY <1>2 DEF JobsInv, JobsTypeOK, jobsVars, Ids, Queue, Running, Now, Dirs, Targets
  <2>2. Asked' /\ Handling'
    BY <1>2 DEF JobsInv, Asked, Handling, jobsVars, Ids, Now, Cur
  <2>3. Places'
    BY <1>2 DEF JobsInv, Places, ThreadHasJob, jobsVars, Ids, Listed
  <2>4. Answers'
    BY <1>2 DEF JobsInv, Answers, AnswerOf, jobsVars, Ids, Now
  <2>5. Handed'
    BY <1>2 DEF JobsInv, Handed, Copied, Forwarded, InOrder, Busy, jobsVars, Ids, Now
  <2>6. Shared'
    BY <1>2 DEF JobsInv, Shared, WaitFindsStream, OnlyUnloadKills, Unloaded, jobsVars, Ids, Now
  <2> QED
    BY <2>1, <2>2, <2>3, <2>4, <2>5, <2>6 DEF JobsInv
<1> QED
  BY <1>1, <1>2

\* The invariant that the proofs rest on: whose request is whose, where the
\* main thread and the jobs are, what was answered and what was handed on.
THEOREM JobsInvariant == JobsSpec => []JobsInv
<1>1. JobsInit => JobsInv
  BY JobsInitInv
<1>2. JobsInv /\ [JobsNext]_jobsVars => JobsInv'
  BY JobsStep
<1> QED
  BY <1>1, <1>2, PTL DEF JobsSpec

LEMMA JobsInvSafe == JobsInv => JobsSafe
<1> SUFFICES ASSUME JobsInv PROVE JobsSafe
  OBVIOUS
<1>1. HandedOnce
  BY DEF JobsInv, Handed, HandedOnce, Copied, Forwarded, InOrder
<1>2. CwdIsPath
  BY DEF JobsInv, Shared, CwdIsPath
<1> QED
  BY <1>1, <1>2 DEF JobsInv, JobsSafe, Places, Shared

\* However the main thread (node/interface.cpp, node/cmdhandling.cpp), the jobs'
\* threads (node/jobs.cpp) and their scripts (node/script.cpp) interleave: no
\* thread runs without its Job in JobsList, each job is handed every stream once
\* and in order, WaitPop never meets an empty queue in a job that only waits,
\* future jobs start where the process is, and only an unload ends a node that
\* runs a script it has found.
THEOREM JobsAreSafe == JobsSpec => []JobsSafe
BY JobsInvariant, JobsInvSafe, PTL

\* Each request is answered exactly once, by the job or by the main thread,
\* unless its job was killed before.
THEOREM JobsAnswerOnce == JobsSpec => []AnsweredOnce
<1>1. JobsInv => AnsweredOnce
  <2> SUFFICES ASSUME JobsInv, NEW id \in Ids, request[id] # 0
               PROVE  /\ step[id] \in Running => Len(answers[request[id]]) = 0
                      /\ step[id] \in {"ended", "joined"} =>
                           \/ Len(answers[request[id]]) = 1
                           \/ (Len(answers[request[id]]) = 0 /\ id \in cancelled)
    BY DEF AnsweredOnce
  <2>1. AnswerOf(id)
    BY DEF JobsInv, Answers
  <2>2. Len(<<>>) = 0 /\ \A status : Len(<<status>>) = 1
    OBVIOUS
  <2> QED
    BY <2>1, <2>2 DEF AnswerOf
<1> QED
  BY <1>1, JobsInvariant, PTL

\* KillJobByCmdCode is over only when no job of the code is left in JobsList,
\* and MurderAllThreads of an update only when no thread of a job runs.
THEOREM JobsKillsAll == JobsSpec => KillsAll
<1>1. JobsInv /\ [JobsNext]_jobsVars =>
        [main = "kill" /\ main' = "forward" =>
           /\ Cur.op = "KILLJOBBYCMDCODE" => \A i \in 1..Len(list') : op[list'[i]] # Cur.arg
           /\ Cur.op = "USEUPDATE" => list' = <<>> /\ \A id \in Ids : step[id] \notin Running]_jobsVars
  <2> SUFFICES ASSUME JobsInv, JobsNext, main = "kill", main' = "forward"
               PROVE  /\ Cur.op = "KILLJOBBYCMDCODE" => \A i \in 1..Len(list') : op[list'[i]] # Cur.arg
                      /\ Cur.op = "USEUPDATE" => list' = <<>> /\ \A id \in Ids : step[id] \notin Running
    OBVIOUS
  <2>1. KillDone
    <3>1. ASSUME NEW s
          PROVE  ~(ForwardN2N(s) \/ AtOnceStep(s) \/ HandleSleep(s) \/ StartJob(s) \/ HandleKill(s))
      BY AtOnceFrame DEF ForwardN2N, HandleSleep, StartJob, HandleKill
    <3>2. ~KillFirst /\ ~Joined /\ ~ForwardToScriptJobs /\ ~Sweep /\ ~ProcessCompletedJobs
      BY DEF KillFirst, Joined, ForwardToScriptJobs, Sweep, ProcessCompletedJobs
    <3>3. ASSUME NEW id \in Ids, Thread(id)
          PROVE  FALSE
      BY <3>3, ThreadFrame
    <3> QED
      BY StepCases, <3>1, <3>2, <3>3
  <2>2. CASE Cur.op = "KILLJOBBYCMDCODE"
    <3>1. Meant = {id \in Listed : ByCmdCode(id)} /\ Meant = {} /\ list' = list
      BY <2>1, <2>2 DEF Meant, KillDone
    <3> QED
      BY <2>2, <3>1 DEF ByCmdCode, Listed
  <2>3. CASE Cur.op = "USEUPDATE"
    BY <2>1, <2>3, UpdateAlone DEF KillDone
  <2> QED
    BY <2>2, <2>3
<1> QED
  BY <1>1, JobsInvariant, PTL DEF JobsSpec, KillsAll

=============================================================================
