------------------------------- MODULE Update -------------------------------
(***************************************************************************)
(* How a node gets a new binary: the administrator gives the server one    *)
(* for a platform (server/cmdhandling.cpp, server/db.cpp); at a login the  *)
(* server compares revisions and orders the update, branded for the node   *)
(* (server/nodeupdates.cpp, libvolition/brander.cpp); the node writes the  *)
(* binary to a temporary path and executes it, that process copies itself  *)
(* over the node's own path and executes that, and the new process reports *)
(* to the server (node/updates.cpp, node/main.cpp).  The process may end   *)
(* between any two of these steps, and every call on the disk may fail.    *)
(*                                                                         *)
(* One node, whose queues are taken as ReadQueue and WriteQueue show them. *)
(***************************************************************************)
EXTENDS Integers, Sequences, Functions

CONSTANTS
  Binaries,     \* what the administrator may provide: [Attributes -> value]
  Forced,       \* what he may force upon the node
  First,        \* the binary the node is installed with
  Address,      \* the server's address
  Token,        \* the authorization token that the server knows
  Unset,        \* the brand is there, and empty
  None,         \* it is not there; no file, no row, no client
  Torn,         \* a file that holds a part of a binary
  MaxStarts,    \* bound: how often the node is started
  MaxAdmin,     \* bound: how often the administrator does something
  MaxFaults     \* bound: crashes, lost connections and failed calls

\* Brander::AttributeTypes, those that a decision rests on.
Attributes == {"PLATFORMSTRING", "REVISION", "SERVERADDR", "AUTHTOKEN", "IDENTITY"}

\* What there may be of a binary on the node's disk: branded with the token the
\* node was installed with and with an identity, of its own or made up.
Identities == {First.IDENTITY} \cup 1..MaxStarts
Branded(b, values) ==
  [a \in DOMAIN b |-> IF a \in DOMAIN values THEN values[a] ELSE b[a]]
Image(b, i) == Branded(b, [IDENTITY |-> i, AUTHTOKEN |-> Token])
Images ==
  {Image(b, i) : b \in Binaries \cup Forced \cup {First}, i \in Identities}

ASSUME ConstantsAssumption ==
  /\ \A b \in Binaries \cup Forced \cup {First} : b = [a \in Attributes |-> b[a]]
  /\ \A b \in Forced \cup {First} : b.SERVERADDR = Address
  /\ First.AUTHTOKEN = Token /\ First.IDENTITY # None
  /\ Images \cap {None, Torn} = {} /\ None # Torn
  /\ MaxStarts \in Nat /\ MaxAdmin \in Nat /\ MaxFaults \in Nat

VARIABLES
  platformbinaries, \* the server's table: PlatformString -> [Revision, Binary]
  server,       \* is the server's process there
  client,       \* its ClientObj of the node, or None
  nodeinfo,     \* NodeRevision in its row of the node
  asking,       \* a login that the server has not read
  link,         \* the node's connection: "none", "asked", "up", "broken"
  toNode,       \* what the server has sent over it
  toServer,     \* what the node has sent to that ClientObj
  pc,           \* where the node's process is
  own,          \* the file at the node's own path
  temp,         \* the file at the temporary path
  running,      \* what the process runs, with the identity it goes by
  queues,       \* the queue threads: "off", "on", "error"
  rq,           \* MasterReadQueue
  wq,           \* MasterWriteQueue
  starts, admin, faults,
  fresh,        \* history: the login was after the last change of the table
  dropped       \* history: since the login, did an order leave MasterReadQueue
                \* without being handled

serverVars == <<platformbinaries, server, client, nodeinfo, fresh>>
netVars == <<asking, link, toNode, toServer>>
diskVars == <<own, temp>>
memoryVars == <<running, queues, rq, wq>>
bounds == <<starts, admin, faults>>
vars == <<serverVars, netVars, pc, diskVars, memoryVars, bounds, dropped>>

-----------------------------------------------------------------------------
(* Mistakes one could make in this code, named in PROJECT.json "mutants".  *)

\* Sending the binary on as it came.
BrandNothing(b, values) == b

NodeBinaryNeedsUpdateNewer(c) ==
  /\ c.PlatformString \in DOMAIN platformbinaries
  /\ platformbinaries[c.PlatformString].Revision > c.NodeRevision

\* Logging in with what the node was installed as.
LoginAsInstalled ==
  [ID |-> running.IDENTITY, AuthToken |-> running.AUTHTOKEN,
   PlatformString |-> running.PLATFORMSTRING, NodeRevision |-> First.REVISION]

\* Not trying again after a login that failed.
EstablishFailsForGood == FALSE /\ UNCHANGED vars

\* Moving the temporary file over the node's own path, piece by piece.
CopyEndsByMove ==
  /\ pc = "copying"
  /\ \/ faults' = faults /\ own' = temp
     \/ faults < MaxFaults /\ faults' = faults + 1 /\ own' = own
  /\ pc' = "copied" /\ temp' = None
  /\ UNCHANGED <<serverVars, netVars, memoryVars, starts, admin, dropped>>

-----------------------------------------------------------------------------
Goes == UNCHANGED faults
Fails == faults < MaxFaults /\ faults' = faults + 1

\* ReadBrandedBinaryViaBuffer, and BrandBinaryViaBuffer, which finds every
\* brand it is to set or fails.
ReadBrand(b, attribute) == b[attribute]

Brand(b, values) ==
  IF \E a \in DOMAIN values : b[a] = None THEN None ELSE Branded(b, values)

\* The order that makes client c use binary b.
Order(b, forced) == [op |-> "update", binary |-> b, forced |-> forced]
BrandFor(c, b) == Brand(b, [IDENTITY |-> c.ID, AUTHTOKEN |-> c.AuthToken])

-----------------------------------------------------------------------------
(* The server's table.                                                     *)

LookupPlatformBinaryEntry(p) ==
  IF p \in DOMAIN platformbinaries THEN platformbinaries[p] ELSE None

UpdateExistingPlatformBinaryEntry(p, entry) ==
  platformbinaries' = [platformbinaries EXCEPT ![p] = entry]

\* The column is unique.
SaveNewPlatformBinaryEntry(p, entry) ==
  /\ p \notin DOMAIN platformbinaries
  /\ platformbinaries' =
       [q \in DOMAIN platformbinaries \cup {p} |->
          IF q = p THEN entry ELSE platformbinaries[q]]

DeletePlatformBinaryEntry(p) ==
  platformbinaries' = Restrict(platformbinaries, DOMAIN platformbinaries \ {p})

UpdatePlatformBinaryDB(p, revision, b) ==
  LET entry == [Revision |-> revision, Binary |-> b]
  IN IF LookupPlatformBinaryEntry(p) # None
     THEN UpdateExistingPlatformBinaryEntry(p, entry)
     ELSE SaveNewPlatformBinaryEntry(p, entry)

NodeBinaryNeedsUpdate(c) ==
  LET row == LookupPlatformBinaryEntry(c.PlatformString)
  IN row # None /\ row.Revision # c.NodeRevision

\* GetNodeBinaryBrandInfo, which PROVIDEUPDATE asks for platform and revision.
GetNodeBinaryBrandInfo(b) ==
  ReadBrand(b, "PLATFORMSTRING") # None /\ ReadBrand(b, "REVISION") # None

-----------------------------------------------------------------------------
(* What the administrator orders.                                          *)

AdminActs ==
  /\ server
  /\ admin < MaxAdmin /\ admin' = admin + 1
  /\ UNCHANGED <<starts, pc, diskVars, memoryVars, asking, link, dropped>>

\* A2S_PROVIDEUPDATE; a failed write to the table leaves it as it is.
ProvideUpdate(b) ==
  /\ AdminActs
  /\ GetNodeBinaryBrandInfo(b)
  /\ \/ /\ Goes
        /\ UpdatePlatformBinaryDB(b.PLATFORMSTRING, b.REVISION, b)
        /\ fresh' = FALSE
     \/ Fails /\ UNCHANGED <<platformbinaries, fresh>>
  /\ UNCHANGED <<server, client, nodeinfo, toNode, toServer>>

\* A2S_REMOVEUPDATE.
RemoveUpdate(p) ==
  /\ AdminActs
  /\ DeletePlatformBinaryEntry(p)
  /\ fresh' = FALSE
  /\ UNCHANGED <<server, client, nodeinfo, toNode, toServer, faults>>

\* B2C_USEUPDATE of the administrator: branded on its way and passed on.
ForceUpdate(b) ==
  /\ AdminActs
  /\ client # None
  /\ BrandFor(client, b) # None
  /\ toNode' = IF link = "up" THEN Append(toNode, Order(BrandFor(client, b), TRUE))
               ELSE toNode
  /\ UNCHANGED <<serverVars, toServer, faults>>

\* Any other order that the server passes on.
OtherOrder ==
  /\ AdminActs
  /\ client # None
  /\ toNode' = IF link = "up" THEN Append(toNode, [op |-> "other"]) ELSE toNode
  /\ UNCHANGED <<serverVars, toServer, faults>>

-----------------------------------------------------------------------------
(* The server's side of a login and of a report.                           *)

\* CorruptedBinary is thrown, and nothing catches it.
Corrupted(c, b, revision) ==
  \/ \E a \in Attributes \ {"IDENTITY"} : ReadBrand(b, a) = None
  \/ ReadBrand(b, "REVISION") # revision
  \/ ReadBrand(b, "PLATFORMSTRING") # c.PlatformString

\* HandleUpdatesForNode as far as it sends something.
HandleUpdatesForNode(c) ==
  LET row == LookupPlatformBinaryEntry(c.PlatformString)
      b == BrandFor(c, row.Binary)
  IN IF ~NodeBinaryNeedsUpdate(c) \/ b = None THEN <<>> ELSE <<Order(b, FALSE)>>

ServerDies == server' = FALSE /\ client' = None /\ toServer' = <<>>

\* AcceptClient_Auth of a node that it lets in; a lookup that fails finds no row.
AcceptClient ==
  LET c == asking
      row == LookupPlatformBinaryEntry(c.PlatformString)
  IN /\ server /\ asking # None /\ client = None
     /\ c.AuthToken = Token
     /\ asking' = None
     /\ dropped' = FALSE
     /\ UNCHANGED <<platformbinaries, pc, diskVars, memoryVars, starts, admin>>
     /\ \/ /\ Goes /\ NodeBinaryNeedsUpdate(c) /\ Corrupted(c, row.Binary, row.Revision)
           /\ ServerDies
           /\ nodeinfo' = c.NodeRevision
           /\ link' = "broken"
           /\ UNCHANGED <<toNode, fresh>>
        \/ /\ Goes
           /\ ~(NodeBinaryNeedsUpdate(c) /\ Corrupted(c, row.Binary, row.Revision))
           /\ toNode' = <<[op |-> "accepted"]>> \o HandleUpdatesForNode(c)
           /\ client' = c /\ nodeinfo' = c.NodeRevision
           /\ link' = "up" /\ toServer' = <<>>
           /\ fresh' = TRUE
           /\ UNCHANGED server
        \/ /\ Fails
           /\ toNode' = <<[op |-> "accepted"]>>
           /\ client' = c /\ nodeinfo' = c.NodeRevision
           /\ link' = "up" /\ toServer' = <<>>
           /\ fresh' = FALSE
           /\ UNCHANGED server

\* The token is unknown, or the node is still on the list of clients.
RefuseClient ==
  /\ server /\ asking # None
  /\ client # None \/ asking.AuthToken # Token
  /\ asking' = None /\ link' = "broken"
  /\ UNCHANGED <<serverVars, toNode, toServer, pc, diskVars, memoryVars, bounds, dropped>>

ReceiveFrom(op) ==
  /\ server /\ client # None
  /\ toServer # <<>> /\ Head(toServer).op = op
  /\ UNCHANGED <<platformbinaries, server, fresh, asking, link, toNode, pc, diskVars,
                 memoryVars, bounds, dropped>>

\* HandleReport of B2C_USEUPDATE: of a success, that is, and of a failure.
HandleReport ==
  \/ /\ ReceiveFrom("updated")
     /\ toServer' = Tail(toServer)
     /\ client' = [client EXCEPT !.NodeRevision = Head(toServer).revision]
     /\ nodeinfo' = Head(toServer).revision
  \/ /\ ReceiveFrom("failed")
     /\ toServer' = Tail(toServer)
     /\ UNCHANGED <<client, nodeinfo>>

\* ANY_DISCONNECT.
HandleDisconnect ==
  /\ ReceiveFrom("disconnect")
  /\ client' = None /\ toServer' = <<>>
  /\ UNCHANGED nodeinfo

\* The server sees that the connection of its ClientObj has ended.
ServerDrops ==
  /\ server /\ client # None /\ link # "up"
  /\ client' = None /\ toServer' = <<>>
  /\ UNCHANGED <<platformbinaries, server, nodeinfo, fresh, asking, link, toNode, pc,
                 diskVars, memoryVars, bounds, dropped>>

ServerStarts ==
  /\ ~server /\ server' = TRUE
  /\ UNCHANGED <<platformbinaries, client, nodeinfo, fresh, netVars, pc, diskVars,
                 memoryVars, bounds, dropped>>

-----------------------------------------------------------------------------
(* The connection, and the node's queue threads on it.                     *)

LinkBreaks ==
  /\ link \in {"asked", "up"} /\ Fails
  /\ link' = "broken" /\ asking' = None /\ toNode' = <<>>
  /\ UNCHANGED <<serverVars, toServer, pc, diskVars, memoryVars, starts, admin, dropped>>

ServerCrashes ==
  /\ server /\ Fails
  /\ ServerDies
  /\ link' = IF link = "none" THEN "none" ELSE "broken"
  /\ asking' = None /\ toNode' = <<>>
  /\ UNCHANGED <<platformbinaries, nodeinfo, fresh, pc, diskVars, memoryVars, starts,
                 admin, dropped>>

QueueStep ==
  /\ queues = "on"
  /\ UNCHANGED <<serverVars, asking, link, pc, diskVars, running, bounds, dropped>>

Download ==
  /\ QueueStep
  /\ link = "up" /\ toNode # <<>>
  /\ toNode' = Tail(toNode) /\ rq' = Append(rq, Head(toNode))
  /\ UNCHANGED <<toServer, queues, wq>>

\* A stream leaves the write queue when it is written.
Upload ==
  /\ QueueStep
  /\ link = "up" /\ wq # <<>>
  /\ wq' = Tail(wq)
  /\ toServer' = Append(toServer, Head(wq))
  /\ UNCHANGED <<toNode, queues, rq>>

\* HasError of one of the queues.
QueueError ==
  /\ QueueStep
  /\ link = "broken"
  /\ queues' = "error"
  /\ UNCHANGED <<toNode, toServer, rq, wq>>

-----------------------------------------------------------------------------
(* The node: Interface::Establish, in a loop wherever it is called.        *)

NodeStep ==
  UNCHANGED <<serverVars, starts, admin>>

Establishing == {"begin", "beginUpdated", "reconnect", "retry"}

\* LoginStream, with what IdentityModule says of this process.
Login ==
  [ID |-> running.IDENTITY, AuthToken |-> running.AUTHTOKEN,
   PlatformString |-> running.PLATFORMSTRING, NodeRevision |-> running.REVISION]

EstablishAsks ==
  /\ NodeStep
  /\ pc \in Establishing /\ link = "none" /\ server
  /\ asking' = Login /\ link' = "asked"
  /\ UNCHANGED <<toNode, toServer, pc, diskVars, memoryVars, faults, dropped>>

EstablishFails ==
  /\ NodeStep
  /\ pc \in Establishing /\ link = "broken"
  /\ link' = "none" /\ toNode' = <<>>
  /\ UNCHANGED <<asking, toServer, pc, diskVars, memoryVars, faults, dropped>>

\* The server's answer is there: Establish returns the connection.
Established ==
  /\ NodeStep
  /\ link = "up" /\ toNode # <<>>
  /\ toNode' = Tail(toNode)
  /\ UNCHANGED <<asking, link, toServer, diskVars, running, faults>>

\* Main::Begin behind Establish, with the report of an update that went through.
Begin ==
  /\ pc \in {"begin", "beginUpdated"}
  /\ Established
  /\ queues' = "on"
  /\ wq' = IF pc = "beginUpdated"
           THEN Append(wq, [op |-> "updated", revision |-> running.REVISION]) ELSE wq
  /\ pc' = "main"
  /\ UNCHANGED <<rq, dropped>>

-----------------------------------------------------------------------------
(* The node: MasterLoop.                                                   *)

\* The queues are stopped, the connection is closed; both keep their streams.
Reconnect ==
  /\ NodeStep
  /\ pc = "main" /\ queues = "error"
  /\ pc' = "reconnect" /\ queues' = "off"
  /\ link' = "none" /\ toNode' = <<>>
  /\ UNCHANGED <<asking, toServer, diskVars, running, rq, wq, faults, dropped>>

Reconnected ==
  /\ pc = "reconnect"
  /\ Established
  /\ pc' = "main" /\ queues' = "on"
  /\ UNCHANGED <<rq, wq, dropped>>

HandleOther ==
  /\ NodeStep
  /\ pc = "main" /\ rq # <<>> /\ Head(rq).op = "other"
  /\ rq' = Tail(rq)
  /\ UNCHANGED <<netVars, pc, diskVars, running, queues, wq, faults, dropped>>

HandleUpdate ==
  /\ NodeStep
  /\ pc = "main" /\ rq # <<>> /\ Head(rq).op = "update"
  /\ pc' = "handling"
  /\ UNCHANGED <<netVars, diskVars, memoryVars, faults, dropped>>

-----------------------------------------------------------------------------
(* The node: AttemptUpdate in the old process.                             *)

MurderAllThreads ==
  /\ NodeStep
  /\ pc = "handling"
  /\ pc' = "murdered" /\ queues' = "off"
  /\ UNCHANGED <<netVars, diskVars, running, rq, wq, faults, dropped>>

\* Transmit of ANY_DISCONNECT, and Net::Close.
Disconnect ==
  /\ NodeStep
  /\ pc = "murdered"
  /\ pc' = "closed"
  /\ toServer' = IF link = "up" THEN Append(toServer, [op |-> "disconnect"]) ELSE toServer
  /\ link' = "none" /\ toNode' = <<>>
  /\ UNCHANGED <<asking, diskVars, memoryVars, faults, dropped>>

\* InitStage1 up to ExecuteBinary: WriteFile does not look at what fwrite says.
WriteTemp ==
  /\ NodeStep
  /\ pc = "closed"
  /\ \/ Goes /\ pc' = "written" /\ temp' = Head(rq).binary
     \/ Fails /\ pc' = "written" /\ temp' = Torn
     \/ Fails /\ pc' = "retry" /\ UNCHANGED temp
  /\ UNCHANGED <<netVars, own, memoryVars, dropped>>

\* execvp() leaves nothing of the old process.
Executes(b) ==
  /\ running' = b
  /\ queues' = "off" /\ rq' = <<>> /\ wq' = <<>>

Ends ==
  /\ pc' = "off"
  /\ running' = None
  /\ queues' = "off" /\ rq' = <<>> /\ wq' = <<>>

\* A part of a binary may be refused, or may start and be killed.
ExecTemp ==
  /\ NodeStep
  /\ pc = "written"
  /\ \/ temp # Torn /\ Goes /\ pc' = "stage1" /\ Executes(temp)
     \/ temp # Torn /\ Fails /\ pc' = "retry" /\ UNCHANGED memoryVars
     \/ temp = Torn /\ Goes /\ pc' = "retry" /\ UNCHANGED memoryVars
     \/ temp = Torn /\ Goes /\ Ends
  /\ UNCHANGED <<netVars, diskVars, dropped>>

\* AttemptUpdate returns: the order is discarded, InitNetQueues starts the
\* queues on an SSL object that Net::Close has freed, which may have become
\* that of the new connection, and the failure is reported.
ReturnFailed ==
  /\ pc = "retry"
  /\ Established
  /\ rq' = Tail(rq)
  /\ wq' = Append(wq, [op |-> "failed"])
  /\ pc' = "returned" /\ queues' \in {"on", "error"}
  /\ UNCHANGED dropped

\* MasterLoop goes on as after any stream: Head_Release(true).
ReleaseAgain ==
  /\ NodeStep
  /\ pc = "returned" /\ pc' = "main"
  /\ rq' = IF rq = <<>> THEN <<>> ELSE Tail(rq)
  /\ dropped' = (dropped \/ rq # <<>>)
  /\ UNCHANGED <<netVars, diskVars, running, queues, wq, faults>>

-----------------------------------------------------------------------------
(* The node: the processes that HandleUpdateRecovery finds itself in.      *)

\* InitStage2: Files::Copy opens the node's own path for writing, or exit(1).
CopyBegins ==
  /\ NodeStep
  /\ pc = "stage1"
  /\ \/ Goes /\ pc' = "copying" /\ own' = Torn /\ UNCHANGED memoryVars
     \/ Fails /\ Ends /\ UNCHANGED own
  /\ UNCHANGED <<netVars, temp, dropped>>

\* CopyFileSub returns true also when the last bytes never reach the disk.
CopyEnds ==
  /\ NodeStep
  /\ pc = "copying"
  /\ \/ Goes /\ pc' = "copied" /\ own' = temp /\ UNCHANGED memoryVars
     \/ Fails /\ pc' = "copied" /\ UNCHANGED <<own, memoryVars>>
     \/ Fails /\ Ends /\ UNCHANGED own
  /\ UNCHANGED <<netVars, temp, dropped>>

\* VLCRITICAL aborts behind an execvp() that returns.
ExecOwn ==
  /\ NodeStep
  /\ pc = "copied"
  /\ \/ own # Torn /\ Goes /\ pc' = "stage2" /\ Executes(own)
     \/ own # Torn /\ Fails /\ Ends
     \/ own = Torn /\ Goes /\ Ends
  /\ UNCHANGED <<netVars, diskVars, dropped>>

\* Files::Delete, whose result is not looked at.
CompleteUpdate ==
  /\ NodeStep
  /\ pc = "stage2" /\ pc' = "beginUpdated"
  /\ \/ Goes /\ temp' = None
     \/ Fails /\ UNCHANGED temp
  /\ UNCHANGED <<netVars, own, memoryVars, dropped>>

-----------------------------------------------------------------------------
(* The node's process ends, and whoever starts it starts its own path.     *)

Crashes ==
  /\ pc # "off" /\ Fails
  /\ Ends
  /\ link' = "none" /\ asking' = None /\ toNode' = <<>>
  /\ UNCHANGED <<serverVars, toServer, diskVars, starts, admin, dropped>>

\* GetNodeIdentity makes a name up for a binary that has none.
Identify(b, n) == IF b.IDENTITY = Unset THEN [b EXCEPT !.IDENTITY = n] ELSE b

Starts ==
  /\ pc = "off" /\ own # Torn
  /\ starts < MaxStarts /\ starts' = starts + 1
  /\ pc' = "begin" /\ running' = Identify(own, starts')
  /\ UNCHANGED <<serverVars, netVars, diskVars, queues, rq, wq, admin, faults, dropped>>

Init ==
  /\ platformbinaries = <<>> /\ server = TRUE /\ client = None /\ nodeinfo = None
  /\ asking = None /\ link = "none" /\ toNode = <<>> /\ toServer = <<>>
  /\ pc = "off" /\ own = First /\ temp = None
  /\ running = None /\ queues = "off" /\ rq = <<>> /\ wq = <<>>
  /\ starts = 0 /\ admin = 0 /\ faults = 0
  /\ fresh = FALSE /\ dropped = FALSE

Node ==
  \/ EstablishAsks \/ EstablishFails \/ Begin
  \/ Reconnect \/ Reconnected \/ HandleOther \/ HandleUpdate
  \/ MurderAllThreads \/ Disconnect \/ WriteTemp \/ ExecTemp \/ ReturnFailed \/ ReleaseAgain
  \/ CopyBegins \/ CopyEnds \/ ExecOwn \/ CompleteUpdate

Next ==
  \/ \E b \in Binaries : ProvideUpdate(b)
  \/ \E p \in DOMAIN platformbinaries : RemoveUpdate(p)
  \/ \E b \in Forced : ForceUpdate(b)
  \/ OtherOrder
  \/ AcceptClient \/ RefuseClient \/ HandleReport \/ HandleDisconnect \/ ServerDrops
  \/ ServerStarts \/ ServerCrashes \/ LinkBreaks
  \/ Download \/ Upload \/ QueueError
  \/ Node \/ Crashes \/ Starts

\* The threads of both programs go on; nobody need start a program again.
Spec ==
  /\ Init /\ [][Next]_vars
  /\ WF_vars(Node)
  /\ WF_vars(AcceptClient \/ RefuseClient) /\ WF_vars(HandleReport)
  /\ WF_vars(HandleDisconnect \/ ServerDrops)
  /\ WF_vars(Download) /\ WF_vars(Upload) /\ WF_vars(QueueError)

-----------------------------------------------------------------------------
(* Properties.                                                             *)

Whole(f) == f \notin {None, Torn}

TypeOK ==
  /\ \A p \in DOMAIN platformbinaries :
       platformbinaries[p].Revision = platformbinaries[p].Binary.REVISION
  /\ server \in BOOLEAN /\ fresh \in BOOLEAN /\ dropped \in BOOLEAN
  /\ link \in {"none", "asked", "up", "broken"}
  /\ (asking # None) => link = "asked"
  /\ \A i \in 1..Len(toNode) : toNode[i].op \in {"accepted", "update", "other"}
  /\ \A i \in 1..Len(rq) : rq[i].op \in {"update", "other"}
  /\ \A i \in 1..Len(toServer) : toServer[i].op \in {"updated", "failed", "disconnect"}
  /\ \A i \in 1..Len(wq) : wq[i].op \in {"updated", "failed"}
  /\ pc \in Establishing \cup
       {"off", "main", "handling", "murdered", "closed", "written", "returned", "stage1",
        "copying", "copied", "stage2"}
  /\ own \in Images \cup {Torn} /\ temp \in Images \cup {Torn, None}
  /\ running \in Images \cup {None} /\ (running = None) = (pc = "off")
  /\ queues \in {"off", "on", "error"}
  /\ starts \in 0..MaxStarts /\ admin \in 0..MaxAdmin /\ faults \in 0..MaxFaults

\* Whatever fails and whenever the machine stops, a whole binary of the node
\* is on its disk: the temporary file is complete before the node's own path
\* is opened for writing, and is deleted only by the process that the copy
\* has become (updates.cpp: InitStage2, CompleteUpdate).
WholeSomewhere == Whole(own) \/ Whole(temp)

\* A node that is in touch with its server runs the binary that is at its own
\* path, so that it comes back as the same after a restart (updates.cpp:
\* HandleUpdateRecovery never goes on to Begin from the temporary file).
RunsWhatStarts ==
  pc \in Establishing \cup {"main", "handling", "murdered", "closed", "written", "returned"}
    => Whole(own) /\ running.REVISION = own.REVISION
                  /\ own.IDENTITY \in {Unset, running.IDENTITY}

\* What the server holds of a connected node, in its ClientObj and in its
\* table, is what that process runs, across updates, failed updates,
\* reconnects and late reports (clients.cpp: AcceptClient_Auth,
\* cmdhandling.cpp: HandleReport).
ServerKnows ==
  link = "up" /\ pc \in {"main", "handling", "murdered"}
    => /\ client = Login
       /\ nodeinfo = running.REVISION

\* An update that the server ordered by itself is never one to what the node
\* runs already, however many orders of earlier connections are still on its
\* queue: the node does not update in circles (db.cpp: NodeBinaryNeedsUpdate,
\* and the queues end with the process).
NeverReinstalls ==
  \A q \in {rq, toNode} : \A i \in 1..Len(q) :
    q[i].op = "update" /\ ~q[i].forced => q[i].binary.REVISION # running.REVISION

\* What holds at every point of an update, a crash at that point included: a
\* whole binary is on the disk, the node runs what it would start, and no order
\* is to what it runs.
Safe == TypeOK /\ WholeSomewhere /\ RunsWhatStarts /\ NeverReinstalls

\* From its start until its process ends for good, through all the programs
\* it executes, a node goes by one identity (nodeupdates.cpp brands the binary
\* with the identity of the client it is for, B2C_USEUPDATE alike).
KeepsIdentity ==
  [][pc # "off" /\ pc' # "off" => running'.IDENTITY = running.IDENTITY]_vars

\* An update that a node has begun ends in the main loop, of the old binary
\* or of the new one, or with the process, while there is a server.
UpdateEnds ==
  (pc = "handling") ~> (pc \in {"main", "off"} \/ ~server)

\* The table has another binary for the node, and one that can be sent: with
\* one that cannot be branded nothing happens, and with one that lacks the
\* server's address the server ends at every login.
Due ==
  LET row == LookupPlatformBinaryEntry(running.PLATFORMSTRING)
  IN /\ row # None /\ row.Revision # running.REVISION
     /\ ~Corrupted(Login, row.Binary, row.Revision)
     /\ BrandFor(Login, row.Binary) # None

\* In the end a node that is there runs what the table of its server has for
\* its platform, if it logged in after the last change, which alone makes the
\* server look (nodeupdates.cpp), and if no order was dropped by the second
\* Head_Release behind a failed update (main.cpp: MasterLoop).
Converges ==
  <>[](pc = "off" \/ ~server \/ ~fresh \/ dropped \/ ~Due)

\* A failed update takes the update off the read queue and nothing else
\* (updates.cpp:304).  It does not hold: see README, "Seen while reading".
OnlyUpdateDiscarded == ~dropped
=============================================================================
