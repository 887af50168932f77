----------------------------- MODULE ServerLoop -----------------------------
(***************************************************************************)
(* The server's main thread (server/core.cpp and server/clients.cpp): it   *)
(* accepts clients, goes through ClientMap, handles the stream at the head *)
(* of each client's read queue, and disconnects clients, from the loop or  *)
(* from inside a handler, while the read thread of every client adds       *)
(* streams under the mutex of its queue.                                   *)
(*                                                                         *)
(* A ReadQueue appears here as its mutex, the number of its streams and    *)
(* whether its thread is in the locked part (module ReadQueue has the      *)
(* rest); a handler appears as the clients it disconnects (module Registry *)
(* has the rest).                                                          *)
(***************************************************************************)
EXTENDS Integers, FiniteSets

CONSTANTS
  Nodes,        \* identities of nodes
  Admin,        \* the identity "ADMIN"
  Rank,         \* the order of the identities in ClientMap, a std::map
  Clients,      \* ClientObj objects, one for each connection
  None,         \* a null pointer, no identity, the end() of ClientMap
  MaxStreams    \* bound: how many streams one connection carries

IDs == Nodes \cup {Admin}

ASSUME ConstantsAssumption ==
  /\ Admin \notin Nodes
  /\ None \notin IDs \cup Clients
  /\ Rank \in [IDs -> Nat]
  /\ \A i, j \in IDs : Rank[i] = Rank[j] => i = j
  /\ MaxStreams \in Nat

VARIABLES
  clientMap,    \* Clients::ClientMap
  currentAdmin, \* Clients::CurrentAdmin
  skipRelease,  \* SkipHeadRelease
  resetAfter,   \* ResetLoopAfter
  inside,       \* InsideHandleInterface
  active,       \* ActiveClient
  pc,           \* where the main thread is
  iter,         \* Iter of MasterLoop, an identity in ClientMap or its end
  client,       \* Client of MasterLoop
  kill,         \* the clients a handler has yet to disconnect
  victim,       \* Client of ProcessNodeDisconnect
  newcomer,     \* ClientDesc, later NewClient and StoredClient, of
                \* AcceptClient_Auth
  ret,          \* where ProcessNodeDisconnect returns to
  id,           \* ClientObj::ID
  life,         \* "unused", "waiting" to be accepted, "alive", "deleted"
  mutex,        \* who holds the mutex of the read queue
  critical,     \* is the read thread in its locked part?
  inbox,        \* the number of streams on the read queue
  netError,     \* ClientObj::HasNetworkError()
  sent          \* history: how many streams the connection carried

loopVars == <<skipRelease, resetAfter, inside, active, iter, client>>
mapVars == <<clientMap, currentAdmin>>
callVars == <<kill, victim, newcomer, ret>>
queueVars == <<mutex, critical, inbox, netError, sent>>
vars == <<mapVars, loopVars, callVars, pc, id, life, queueVars>>

-----------------------------------------------------------------------------
Registered == {i \in IDs : clientMap[i] # None}
OnMap == {clientMap[i] : i \in Registered}

\* The first identity of a set in the order of the map, or its end.
First(S) == IF S = {} THEN None
            ELSE CHOOSE i \in S : \A j \in S : Rank[i] <= Rank[j]

After(i) == {j \in Registered : Rank[j] > Rank[i]}

Init ==
  /\ clientMap = [i \in IDs |-> None]
  /\ currentAdmin = None
  /\ skipRelease = FALSE
  /\ resetAfter = FALSE
  /\ inside = FALSE
  /\ active = None
  /\ pc = "accept"
  /\ iter = None
  /\ client = None
  /\ kill = {}
  /\ victim = None
  /\ newcomer = None
  /\ ret = "scan"
  /\ id = [c \in Clients |-> None]
  /\ life = [c \in Clients |-> "unused"]
  /\ mutex = [c \in Clients |-> "free"]
  /\ critical = [c \in Clients |-> FALSE]
  /\ inbox = [c \in Clients |-> 0]
  /\ netError = [c \in Clients |-> FALSE]
  /\ sent = [c \in Clients |-> 0]

-----------------------------------------------------------------------------
(* The clients and their read threads.                                     *)

\* A node or an administrator connects and sends B2S_AUTH.
Connect(c, i) ==
  /\ life[c] = "unused"
  /\ life' = [life EXCEPT ![c] = "waiting"]
  /\ id' = [id EXCEPT ![c] = i]
  /\ UNCHANGED <<mapVars, loopVars, callVars, pc, queueVars>>

\* The thread has a stream and takes the mutex.
ThreadLock(c) ==
  /\ c \in OnMap
  /\ ~critical[c] /\ ~netError[c]
  /\ mutex[c] = "free"
  /\ sent[c] < MaxStreams
  /\ mutex' = [mutex EXCEPT ![c] = "thread"]
  /\ critical' = [critical EXCEPT ![c] = TRUE]
  /\ UNCHANGED <<mapVars, loopVars, callVars, pc, id, life, inbox, netError,
                 sent>>

ThreadPush(c) ==
  /\ life[c] = "alive"
  /\ critical[c]
  /\ inbox' = [inbox EXCEPT ![c] = @ + 1]
  /\ sent' = [sent EXCEPT ![c] = @ + 1]
  /\ mutex' = [mutex EXCEPT ![c] = "free"]
  /\ critical' = [critical EXCEPT ![c] = FALSE]
  /\ UNCHANGED <<mapVars, loopVars, callVars, pc, id, life, netError>>

\* One of the two threads meets a broken connection.
LinkBreaks(c) ==
  /\ c \in OnMap
  /\ ~critical[c] /\ ~netError[c]
  /\ netError' = [netError EXCEPT ![c] = TRUE]
  /\ UNCHANGED <<mapVars, loopVars, callVars, pc, id, life, mutex, critical,
                 inbox, sent>>

-----------------------------------------------------------------------------
(* Pieces of the main thread.                                              *)

RestartLoop(m) ==
  /\ pc' = "scan"
  /\ iter' = First({i \in IDs : m[i] # None})

\* ReadQueue::Head_Release(true): it does not look who holds the mutex.
Head_Release(c) ==
  /\ mutex' = [mutex EXCEPT ![c] = "free"]
  /\ inbox' = [inbox EXCEPT ![c] = IF @ > 0 THEN @ - 1 ELSE 0]

\* A client is connected, and the main thread is in SSL_accept() or downloads
\* its login.
LoggingIn(c) == pc = "login" /\ newcomer = c

CallDisconnect(c, from) ==
  /\ victim' = c
  /\ ret' = from
  /\ pc' = "disconnect"

-----------------------------------------------------------------------------
(* Mistakes one could make in this code, named in PROJECT.json "mutants".  *)

\* Leaving the socket of a refused client open.
AcceptFailsOpen(c) ==
  /\ LoggingIn(c)
  /\ newcomer' = None
  /\ RestartLoop(clientMap)
  /\ UNCHANGED <<mapVars, skipRelease, resetAfter, inside, active, client,
                 kill, victim, ret, id, life, queueVars>>

\* Not asking for network errors.
LookAtAny ==
  /\ pc = "scan"
  /\ iter # None
  /\ client' = clientMap[iter]
  /\ pc' = "acquire"
  /\ UNCHANGED <<mapVars, skipRelease, resetAfter, inside, active, iter,
                 callVars, id, life, queueVars>>

\* RecvStream_Release(false).
FinishKeep ==
  /\ pc = "finish"
  /\ ~skipRelease
  /\ mutex' = [mutex EXCEPT ![client] = "free"]
  /\ resetAfter' = FALSE
  /\ pc' = "scan"
  /\ iter' = First(IF resetAfter THEN Registered ELSE After(iter))
  /\ client' = None
  /\ UNCHANGED <<mapVars, skipRelease, inside, active, callVars, id, life,
                 critical, inbox, netError, sent>>

\* Restarting the loop where ProcessNodeDisconnect must keep it from releasing.
DisconnectNoSkip ==
  /\ pc = "disconnect"
  /\ currentAdmin' = IF victim = currentAdmin THEN None ELSE currentAdmin
  /\ IF inside
       THEN /\ resetAfter' = TRUE
            /\ Head_Release(victim)
       ELSE UNCHANGED <<resetAfter, mutex, inbox>>
  /\ pc' = "delete"
  /\ UNCHANGED <<clientMap, inside, skipRelease, active, iter, client,
                 callVars, id, life, critical, netError, sent>>

-----------------------------------------------------------------------------
(* AcceptClient_Auth.                                                      *)

NobodyWaits ==
  /\ pc = "accept"
  /\ \A c \in Clients : life[c] # "waiting"
  /\ RestartLoop(clientMap)
  /\ UNCHANGED <<mapVars, skipRelease, resetAfter, inside, active, client,
                 callVars, id, life, queueVars>>

\* accept().  From here on the main thread waits for this client alone, with no
\* time limit: Accept(c) is the client's to let happen.
AcceptClient(c) ==
  /\ pc = "accept"
  /\ life[c] = "waiting"
  /\ newcomer' = c
  /\ pc' = "login"
  /\ UNCHANGED <<mapVars, loopVars, kill, victim, ret, id, life, queueVars>>

\* The handshake fails, or EasyError: no stream, the wrong stream, the wrong
\* protocol version, the wrong password, or a node that is connected already.
AcceptFails(c) ==
  /\ LoggingIn(c)
  /\ life' = [life EXCEPT ![c] = "deleted"]
  /\ newcomer' = None
  /\ RestartLoop(clientMap)
  /\ UNCHANGED <<mapVars, skipRelease, resetAfter, inside, active, client,
                 kill, victim, ret, id, queueVars>>

\* A node whose authentication token is unknown.
AcceptBadToken(c) ==
  /\ LoggingIn(c) /\ id[c] \in Nodes
  /\ clientMap[id[c]] = None
  /\ life' = [life EXCEPT ![c] = "alive"]
  /\ CallDisconnect(c, "refuse")
  /\ UNCHANGED <<mapVars, loopVars, kill, newcomer, id, queueVars>>

AcceptNode(c) ==
  /\ LoggingIn(c) /\ id[c] \in Nodes
  /\ clientMap[id[c]] = None
  /\ life' = [life EXCEPT ![c] = "alive"]
  /\ pc' = "register"
  /\ UNCHANGED <<mapVars, loopVars, callVars, id, queueVars>>

\* An administrator, in place of the one there is.
AcceptAdmin(c) ==
  /\ LoggingIn(c) /\ id[c] = Admin
  /\ life' = [life EXCEPT ![c] = "alive"]
  /\ IF currentAdmin # None
       THEN CallDisconnect(currentAdmin, "register")
       ELSE pc' = "register" /\ UNCHANGED <<victim, ret>>
  /\ UNCHANGED <<mapVars, loopVars, kill, newcomer, id, queueVars>>

\* AddClient() and the start of the queues.
Register ==
  /\ pc = "register"
  /\ IF clientMap[id[newcomer]] = None
       THEN /\ clientMap' = [clientMap EXCEPT ![id[newcomer]] = newcomer]
            /\ currentAdmin' = IF id[newcomer] = Admin THEN newcomer
                                                       ELSE currentAdmin
       ELSE UNCHANGED mapVars
  /\ newcomer' = None
  /\ RestartLoop(clientMap')
  /\ UNCHANGED <<skipRelease, resetAfter, inside, active, client, kill, victim,
                 ret, id, life, queueVars>>

-----------------------------------------------------------------------------
(* The loop over ClientMap.                                                *)

LoopEnds ==
  /\ pc = "scan"
  /\ iter = None
  /\ pc' = "pings"
  /\ UNCHANGED <<mapVars, loopVars, callVars, id, life, queueVars>>

DropBroken ==
  /\ pc = "scan"
  /\ iter # None
  /\ netError[clientMap[iter]]
  /\ CallDisconnect(clientMap[iter], "scan")
  /\ UNCHANGED <<mapVars, loopVars, kill, newcomer, id, life, queueVars>>

LookAt ==
  /\ pc = "scan"
  /\ iter # None
  /\ ~netError[clientMap[iter]]
  /\ client' = clientMap[iter]
  /\ pc' = "acquire"
  /\ UNCHANGED <<mapVars, skipRelease, resetAfter, inside, active, iter,
                 callVars, id, life, queueVars>>

\* RecvStream_Acquire(); the mutex is kept when there is no stream, too.
Acquire ==
  /\ pc = "acquire"
  /\ mutex[client] = "free"
  /\ mutex' = [mutex EXCEPT ![client] = "main"]
  /\ IF inbox[client] = 0
       THEN pc' = "finish" /\ UNCHANGED <<inside, active>>
       ELSE pc' = "handle" /\ inside' = TRUE /\ active' = client
  /\ UNCHANGED <<mapVars, skipRelease, resetAfter, iter, client, callVars, id,
                 life, critical, inbox, netError, sent>>

\* Handlers that disconnect nobody.
HandleStay ==
  /\ pc = "handle"
  /\ pc' = "after"
  /\ UNCHANGED <<mapVars, loopVars, callVars, id, life, queueVars>>

\* ANY_DISCONNECT, and every request that costs a client its connection.
HandleLeave ==
  /\ pc = "handle"
  /\ kill' = {client}
  /\ pc' = "kill"
  /\ UNCHANGED <<mapVars, loopVars, victim, newcomer, ret, id, life,
                 queueVars>>

\* A2S_FORGETNODE for a node that is connected.
HandleForget(n) ==
  /\ pc = "handle" /\ client = currentAdmin
  /\ clientMap[n] # None
  /\ kill' = {clientMap[n]}
  /\ pc' = "kill"
  /\ UNCHANGED <<mapVars, loopVars, victim, newcomer, ret, id, life,
                 queueVars>>

\* A2S_AUTHTOKEN_REVOKE with KillAffectedNodes, for the nodes N that use it.
HandleRevoke(N) ==
  /\ pc = "handle" /\ client = currentAdmin
  /\ kill' = {clientMap[n] : n \in N \cap Registered}
  /\ pc' = "kill"
  /\ UNCHANGED <<mapVars, loopVars, victim, newcomer, ret, id, life,
                 queueVars>>

KillNext ==
  /\ pc = "kill"
  /\ kill # {}
  /\ LET c == clientMap[First({i \in Registered : clientMap[i] \in kill})]
     IN /\ kill' = kill \ {c}
        /\ CallDisconnect(c, "kill")
  /\ UNCHANGED <<mapVars, loopVars, newcomer, id, life, queueVars>>

KillsDone ==
  /\ pc = "kill"
  /\ kill = {}
  /\ pc' = "after"
  /\ UNCHANGED <<mapVars, loopVars, callVars, id, life, queueVars>>

AfterHandler ==
  /\ pc = "after"
  /\ inside' = FALSE
  /\ active' = None
  /\ pc' = "finish"
  /\ UNCHANGED <<mapVars, skipRelease, resetAfter, iter, client, callVars, id,
                 life, queueVars>>

\* NothingToDo, when the client is gone.
FinishGone ==
  /\ pc = "finish"
  /\ skipRelease
  /\ skipRelease' = FALSE
  /\ client' = None
  /\ RestartLoop(clientMap)
  /\ UNCHANGED <<mapVars, resetAfter, inside, active, callVars, id, life,
                 queueVars>>

\* NothingToDo: RecvStream_Release(), and on to the next client.
Finish ==
  /\ pc = "finish"
  /\ ~skipRelease
  /\ Head_Release(client)
  /\ resetAfter' = FALSE
  /\ pc' = "scan"
  /\ iter' = First(IF resetAfter THEN Registered ELSE After(iter))
  /\ client' = None
  /\ UNCHANGED <<mapVars, skipRelease, inside, active, callVars, id, life,
                 critical, netError, sent>>

-----------------------------------------------------------------------------
(* ProcessNodeDisconnect.                                                  *)

\* Up to and including the release of the head.
Disconnect ==
  /\ pc = "disconnect"
  /\ currentAdmin' = IF victim = currentAdmin THEN None ELSE currentAdmin
  /\ IF inside
       THEN /\ IF victim = active
                 THEN skipRelease' = TRUE /\ UNCHANGED resetAfter
                 ELSE resetAfter' = TRUE /\ UNCHANGED skipRelease
            /\ Head_Release(victim)
       ELSE UNCHANGED <<skipRelease, resetAfter, mutex, inbox>>
  /\ pc' = "delete"
  /\ UNCHANGED <<clientMap, inside, active, iter, client, callVars, id, life,
                 critical, netError, sent>>

\* DeleteClient(), by identity, whose erase() destroys the client, stops its
\* threads within a second, and frees both queues.
Delete ==
  /\ pc = "delete"
  /\ LET gone == {clientMap[id[victim]]} \ {None}
         dead == gone \cup (IF ret = "refuse" THEN {newcomer} ELSE {})
     IN /\ clientMap' = [clientMap EXCEPT ![id[victim]] = None]
        /\ life' = [c \in Clients |-> IF c \in dead THEN "deleted" ELSE life[c]]
        /\ mutex' = [c \in Clients |-> IF c \in dead THEN "free" ELSE mutex[c]]
        /\ critical' = [c \in Clients |-> c \notin dead /\ critical[c]]
        /\ inbox' = [c \in Clients |-> IF c \in dead THEN 0 ELSE inbox[c]]
        /\ netError' = [c \in Clients |-> c \notin dead /\ netError[c]]
        /\ currentAdmin' = IF gone # {} /\ victim = currentAdmin
                             THEN None ELSE currentAdmin
  /\ IF ret \in {"scan", "refuse"}
       THEN RestartLoop(clientMap')
       ELSE pc' = ret /\ UNCHANGED iter
  /\ newcomer' = IF ret = "refuse" THEN None ELSE newcomer
  /\ victim' = None
  /\ UNCHANGED <<skipRelease, resetAfter, inside, active, client, kill, ret,
                 id, sent>>

-----------------------------------------------------------------------------
(* CheckPingsAndQueues.                                                    *)

PingOut(c) ==
  /\ pc = "pings"
  /\ c \in OnMap
  /\ CallDisconnect(c, "pings")
  /\ UNCHANGED <<mapVars, loopVars, kill, newcomer, id, life, queueVars>>

PingsDone ==
  /\ pc = "pings"
  /\ pc' = "accept"
  /\ UNCHANGED <<mapVars, loopVars, callVars, id, life, queueVars>>

-----------------------------------------------------------------------------
Accept(c) == AcceptFails(c) \/ AcceptBadToken(c) \/ AcceptNode(c)
             \/ AcceptAdmin(c)

Handle == HandleStay \/ HandleLeave \/ (\E n \in Nodes : HandleForget(n))
          \/ (\E N \in SUBSET Nodes : HandleRevoke(N))

Loop == LoopEnds \/ DropBroken \/ LookAt \/ KillNext \/ KillsDone
        \/ AfterHandler \/ FinishGone \/ Finish

\* All of the main thread but its waits for a mutex and for a client's login.
MainStep ==
  \/ NobodyWaits \/ (\E c \in Clients : AcceptClient(c)) \/ Register
  \/ Loop \/ Handle \/ Disconnect \/ Delete
  \/ (\E c \in Clients : PingOut(c)) \/ PingsDone

\* What happens when a client lets it happen.
Peer(c) == (\E i \in IDs : Connect(c, i)) \/ Accept(c) \/ LinkBreaks(c)
           \/ ThreadLock(c)

Next == MainStep \/ Acquire
        \/ \E c \in Clients : Peer(c) \/ ThreadPush(c)

Spec == Init /\ [][Next]_vars

\* The main thread runs and gets a mutex that is free again and again; a read
\* thread leaves its locked part.  Nothing makes a client send its login.
Fairness == /\ WF_vars(MainStep)
            /\ SF_vars(Acquire)
            /\ \A c \in Clients : WF_vars(ThreadPush(c))

FairSpec == Spec /\ Fairness

-----------------------------------------------------------------------------
TypeOK ==
  /\ clientMap \in [IDs -> Clients \cup {None}]
  /\ currentAdmin \in Clients \cup {None}
  /\ skipRelease \in BOOLEAN /\ resetAfter \in BOOLEAN /\ inside \in BOOLEAN
  /\ active \in Clients \cup {None}
  /\ pc \in {"accept", "login", "register", "scan", "acquire", "handle", "kill",
             "after", "finish", "disconnect", "delete", "pings"}
  /\ iter \in IDs \cup {None}
  /\ client \in Clients \cup {None}
  /\ kill \subseteq Clients
  /\ victim \in Clients \cup {None}
  /\ newcomer \in Clients \cup {None}
  /\ ret \in {"scan", "kill", "register", "refuse", "pings"}
  /\ id \in [Clients -> IDs \cup {None}]
  /\ life \in [Clients -> {"unused", "waiting", "alive", "deleted"}]
  /\ mutex \in [Clients -> {"free", "thread", "main"}]
  /\ critical \in [Clients -> BOOLEAN]
  /\ inbox \in [Clients -> 0 .. MaxStreams]
  /\ netError \in [Clients -> BOOLEAN]
  /\ sent \in [Clients -> 0 .. MaxStreams]

\* CurrentAdmin is the client that ClientMap has as ADMIN, and null when it has
\* none: what the assertions in AcceptClient_Auth and in the index handlers
\* rely on.
AdminPointer == pc # "delete" => currentAdmin = clientMap[Admin]

\* Whatever the main thread will dereference has not been deleted: the clients
\* on the map, the one it is handling, the one it is disconnecting, and the
\* element of the map its iterator stands on when it goes to the next one.
NoDangling ==
  /\ \A c \in OnMap : life[c] = "alive"
  /\ pc = "scan" => iter = None \/ iter \in Registered
  /\ pc \in {"acquire", "handle"} \/ (pc = "finish" /\ ~skipRelease)
       => iter \in Registered /\ clientMap[iter] = client
  /\ pc \in {"disconnect", "delete"} => life[victim] = "alive"

\* The main thread holds at most one mutex, that of the client it handles, and
\* none when it waits for one.
OneLock ==
  \A c \in OnMap : mutex[c] = "main" =>
    c = client /\ pc \in {"handle", "kill", "after", "finish", "disconnect",
                          "delete"}

\* The stream being handled stays on its queue, locked, until the handler has
\* returned or has disconnected its own client.
StreamHeld ==
  pc \in {"handle", "kill", "after"} /\ ~skipRelease
    => mutex[client] = "main" /\ inbox[client] > 0

\* No client object is lost: one that is not deleted is on the map or is being
\* accepted.
NoLeak == \A c \in Clients : life[c] = "alive" => c \in OnMap \/ c = newcomer

\* What the main thread relies on wherever it stands, whomever its handlers
\* disconnect: no pointer dangles, at most one lock is held, the stream being
\* handled is there, and every client is owned.
Safe ==
  /\ TypeOK /\ AdminPointer /\ NoDangling
  /\ OneLock /\ StreamHeld /\ NoLeak

\* No client that connects stays silent for ever: the main thread comes back
\* from every login that it waits for (netcore.cpp:159, clients.cpp:129).  The
\* code does not see to it, so what follows is conditional on it.
LoginsEnd == []<>(pc # "login")

\* A stream that arrived is taken off its queue, unless its client goes or a
\* silent client keeps the main thread for ever.
Served ==
  LoginsEnd => \A c \in Clients :
    c \in OnMap /\ inbox[c] > 0 ~> inbox[c] = 0 \/ life[c] = "deleted"

\* A client with a broken connection is removed, unless a silent client keeps
\* the main thread for ever.
BrokenRemoved ==
  LoginsEnd => \A c \in Clients :
    c \in OnMap /\ netError[c] ~> life[c] = "deleted"

\* Who connects gets an answer or is turned away, unless it is itself silent,
\* or a client that the main thread waits for is: then neither it nor anybody
\* behind it is answered, for the wait has no limit.
Answered ==
  LoginsEnd => \A c \in Clients : life[c] = "waiting" ~> life[c] # "waiting"

\* The comment at clients.cpp:501: the head that ProcessNodeDisconnect
\* releases from inside a handler is one "the primary loop has ... locked".  It
\* does not hold: see README, "Seen while reading".
ReleasesWhatItLocked ==
  pc = "disconnect" /\ inside => mutex[victim] = "main"
=============================================================================
