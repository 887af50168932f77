----------------------------- MODULE Heartbeat -----------------------------
(***************************************************************************)
(* How a node and the server find out that they have lost each other, and  *)
(* how the node comes back: the pings of server/clients.cpp (SendPing,     *)
(* CompletePing, CheckPingsAndQueues), the ping tracker of the node        *)
(* (libvolition/netcore.h, node/main.cpp) and its reconnects, against the  *)
(* server's rule that a node is let in only when ClientMap does not hold   *)
(* it.                                                                     *)
(*                                                                         *)
(* Time is counted in the whole seconds of time(), as the ages of the      *)
(* timestamps that the code compares.  A Tick waits for everything the two *)
(* main loops do at once when it is due: they go round every 5 and 50      *)
(* milliseconds.  Ages stop at the largest value that is compared.         *)
(*                                                                         *)
(* A connection may be cut with no word to either side: a host that loses  *)
(* power, a router that forgets.  A connection that breaks with an error   *)
(* seen by both sides is in ServerLoop.                                    *)
(***************************************************************************)
EXTENDS Integers

CONSTANTS
  Interval,     \* PING_INTERVAL_TIME_SECS
  Pingout,      \* PING_PINGOUT_TIME_SECS
  Delay,        \* most seconds until a short stream is received and handled
  Handshake     \* most seconds that one attempt to log in takes

ASSUME ConstantsAssumption ==
  /\ Interval \in Nat /\ Pingout \in Nat /\ Delay \in Nat /\ Handshake \in Nat
  /\ Pingout >= 1 /\ Pingout <= Interval

\* What the network and the two hosts must keep for the pings to work.
ASSUME TimelyAssumption ==
  /\ 2 * Delay < Pingout
  /\ Handshake + Delay <= Pingout

VARIABLES
  node,         \* where the node's main thread is
  attempt,      \* seconds it has slept, or tried to log in
  pinged,       \* age of PingTrack.LastPing
  nodeIdle,     \* age of the later LastActivity of the node's queues
  nodeBusy,     \* what a queue of the node is transferring
  client,       \* the node's ClientObj is on ClientMap
  sent,         \* age of its Ping.SentTime
  waiting,      \* its Ping.Waiting
  clientIdle,   \* age of the later LastActivity of its queues
  clientBusy,   \* what one of its queues is transferring
  joined,       \* the node's connection is the one of that ClientObj
  cut,          \* nothing passes the connection any more
  flying,       \* ages of the short streams and closings on their way
  quiet,        \* history: seconds the server has kept a dead client
  away          \* history: seconds the node has had no working session

nodeVars == <<node, attempt, pinged, nodeIdle, nodeBusy>>
clientVars == <<client, sent, waiting, clientIdle, clientBusy>>
linkVars == <<joined, cut, flying>>
history == <<quiet, away>>
vars == <<nodeVars, clientVars, linkVars, history>>

Messages == {"welcome", "ping", "answer", "nodeClosing", "clientClosing"}
Absent == -1

\* The oldest age that PingTracker tells from others, and the bounds that
\* DeadClientDropped and NodeComesBack state.
Oldest == Interval + Pingout + 1
QuietBound == Interval + Pingout
AwayBound == Oldest + Handshake + Delay

Older(age, bound) == IF age < bound THEN age + 1 ELSE age

-----------------------------------------------------------------------------
Through == joined /\ ~cut
Live == Through /\ node = "up"

\* Somebody is in a transfer that nothing will finish, or waits for one.
Stuck ==
  \/ ~Through /\ (clientBusy # "none" \/ nodeBusy # "none")
  \/ ~Through /\ node = "awaiting"

\* PingedOut() of the node, the control program's PrimaryLoop alike, and the
\* two conditions of CheckPingsAndQueues.
NodePingedOut ==
  node = "up" /\ pinged > Interval + Pingout /\ nodeIdle >= Pingout
PingDue ==
  client /\ ~waiting /\ sent >= Interval /\ clientBusy = "none"
ClientPingedOutLate ==
  client /\ waiting /\ sent >= Interval /\ clientIdle >= Pingout

ClientPingedOut ==
  client /\ waiting /\ sent >= Pingout /\ clientIdle >= Pingout

\* A closed connection tells the other side, unless it is cut.
Closing(f, m) ==
  [k \in Messages |-> IF k # m THEN Absent ELSE IF Through THEN 0 ELSE f[m]]

\* The answer to a ping is queued behind what the node is sending.
Moves(m) == flying[m] # Absent /\ ~(m = "answer" /\ nodeBusy = "send")

-----------------------------------------------------------------------------
Init ==
  /\ node = "connecting" /\ attempt = 0 /\ pinged = 0
  /\ nodeIdle = 0 /\ nodeBusy = "none"
  /\ client = FALSE /\ sent = 0 /\ waiting = FALSE
  /\ clientIdle = 0 /\ clientBusy = "none"
  /\ joined = FALSE /\ cut = FALSE
  /\ flying = [m \in Messages |-> Absent]
  /\ quiet = 0 /\ away = 0

\* Interface::Establish begins: it registers a ping before it connects.
Establish ==
  node' = "connecting" /\ attempt' = 0 /\ pinged' = 0

\* MasterLoop gives the connection up: queues stopped, Net::Close, Establish.
Leave ==
  /\ Establish
  /\ nodeBusy' = "none"
  /\ joined' = FALSE
  /\ flying' = Closing(flying, "clientClosing")

\* ProcessNodeDisconnect: the ClientObj is deleted, its connection closed.
Drop ==
  /\ client' = FALSE /\ waiting' = FALSE /\ clientBusy' = "none"
  /\ joined' = FALSE
  /\ flying' = Closing(flying, "nodeClosing")
  /\ quiet' = 0

NodeWakes ==
  /\ node = "asleep"
  /\ Establish
  /\ UNCHANGED <<nodeIdle, nodeBusy, clientVars, linkVars, history>>

\* "trying to connect twice": closed without an answer.
NodeRefused ==
  /\ node = "connecting" /\ client
  /\ node' = "asleep" /\ attempt' = 0
  /\ UNCHANGED <<pinged, nodeIdle, nodeBusy, clientVars, linkVars, history>>

\* AcceptClient_Auth.  The ClientObj is made, and SentTime set, when the
\* connection is accepted; the login is downloaded after that.
NodeAccepted ==
  /\ node = "connecting" /\ ~client
  /\ node' = "awaiting"
  /\ client' = TRUE /\ waiting' = FALSE
  /\ sent' \in 0..attempt
  /\ clientIdle' = 0 /\ clientBusy' = "none"
  /\ joined' = TRUE /\ cut' = FALSE
  /\ flying' = [flying EXCEPT !["welcome"] = 0]
  /\ UNCHANGED <<attempt, pinged, nodeIdle, nodeBusy, history>>

WelcomeArrives ==
  /\ flying["welcome"] # Absent /\ node = "awaiting"
  /\ node' = "up" /\ attempt' = 0
  /\ flying' = [flying EXCEPT !["welcome"] = Absent]
  /\ UNCHANGED <<pinged, nodeIdle, nodeBusy, clientVars, joined, cut, history>>

-----------------------------------------------------------------------------
SendPingNotWaiting ==
  /\ PingDue
  /\ sent' = 0 /\ clientIdle' = 0
  /\ flying' = IF Through THEN [flying EXCEPT !["ping"] = 0] ELSE flying
  /\ UNCHANGED <<nodeVars, client, waiting, clientBusy, joined, cut, history>>

SendPing ==
  /\ PingDue
  /\ waiting' = TRUE /\ sent' = 0 /\ clientIdle' = 0
  /\ flying' = IF Through THEN [flying EXCEPT !["ping"] = 0] ELSE flying
  /\ UNCHANGED <<nodeVars, client, clientBusy, joined, cut, history>>

\* The node's HandleRequest registers the ping and pushes the answer.
PingArrives ==
  /\ flying["ping"] # Absent /\ node = "up"
  /\ pinged' = 0 /\ nodeIdle' = 0
  /\ flying' = [flying EXCEPT !["ping"] = Absent, !["answer"] = 0]
  /\ UNCHANGED <<node, attempt, nodeBusy, clientVars, joined, cut, history>>

AnswerArrivesUnnoted ==
  /\ flying["answer"] # Absent
  /\ clientIdle' = 0
  /\ flying' = [flying EXCEPT !["answer"] = Absent]
  /\ UNCHANGED <<nodeVars, client, sent, waiting, clientBusy, joined, cut,
                 history>>

\* The server's HandleReport: CompletePing.
AnswerArrives ==
  /\ flying["answer"] # Absent
  /\ waiting' = FALSE /\ clientIdle' = 0
  /\ flying' = [flying EXCEPT !["answer"] = Absent]
  /\ UNCHANGED <<nodeVars, client, sent, clientBusy, joined, cut, history>>

ClientPingOut ==
  /\ ClientPingedOut
  /\ Drop
  /\ UNCHANGED <<nodeVars, sent, clientIdle, cut, away>>

\* MasterLoop of the node: StopThread waits for a thread in a transfer, and
\* only then is the connection given up.
NodePingOut ==
  /\ NodePingedOut
  /\ node' = "stopping"
  /\ UNCHANGED <<attempt, pinged, nodeIdle, nodeBusy, clientVars, linkVars,
                 history>>

NodeStopped ==
  /\ node = "stopping" /\ nodeBusy = "none"
  /\ Leave
  /\ UNCHANGED <<nodeIdle, clientVars, cut, history>>

\* HasNetworkError() of the server: the node closed, or TCP gave up.
ClientError ==
  /\ client /\ ~Through
  /\ Drop
  /\ UNCHANGED <<nodeVars, sent, clientIdle, cut, away>>

\* HasError() of the node's queues, which also ends the transfer that a
\* StopThread waits for, or a login that fails.
NodeError ==
  /\ ~Through
  /\ \/ /\ node \in {"up", "stopping"}
        /\ Leave
        /\ UNCHANGED <<nodeIdle, clientVars, cut, history>>
     \/ /\ node = "awaiting"
        /\ node' = "asleep" /\ attempt' = 0 /\ joined' = FALSE
        /\ flying' = Closing(flying, "clientClosing")
        /\ UNCHANGED <<pinged, nodeIdle, nodeBusy, clientVars, cut, history>>

-----------------------------------------------------------------------------
\* A long stream, one at a time: both sides note activity as it passes.  On a
\* dead connection the sender starts all the same.
NodeSends ==
  /\ node = "up" /\ nodeBusy = "none"
  /\ nodeBusy' = "send" /\ nodeIdle' = 0
  /\ \/ /\ Through /\ clientBusy = "none"
        /\ clientBusy' = "recv" /\ clientIdle' = 0
        /\ UNCHANGED away
     \/ /\ ~Through
        /\ away' = 0
        /\ UNCHANGED <<clientBusy, clientIdle>>
  /\ UNCHANGED <<node, attempt, pinged, client, sent, waiting, linkVars, quiet>>

ServerSends ==
  /\ client /\ clientBusy = "none"
  /\ clientBusy' = "send" /\ clientIdle' = 0
  /\ \/ /\ Live /\ nodeBusy = "none"
        /\ nodeBusy' = "recv" /\ nodeIdle' = 0
        /\ UNCHANGED history
     \/ /\ ~Through
        /\ quiet' = 0 /\ away' = 0
        /\ UNCHANGED <<nodeBusy, nodeIdle>>
  /\ UNCHANGED <<node, attempt, pinged, client, sent, waiting, linkVars>>

TransferEnds ==
  /\ Through /\ clientBusy # "none" /\ nodeBusy # "none"
  /\ clientBusy' = "none" /\ clientIdle' = 0
  /\ nodeBusy' = "none" /\ nodeIdle' = 0
  /\ UNCHANGED <<node, attempt, pinged, client, sent, waiting, linkVars, history>>

\* The last of a stream fits the buffer of the kernel, and is never received.
NodeBuffers ==
  /\ ~Through /\ nodeBusy = "send"
  /\ nodeBusy' = "none" /\ nodeIdle' = 0 /\ away' = 0
  /\ UNCHANGED <<node, attempt, pinged, clientVars, linkVars, quiet>>

ServerBuffers ==
  /\ ~Through /\ clientBusy = "send"
  /\ clientBusy' = "none" /\ clientIdle' = 0 /\ quiet' = 0 /\ away' = 0
  /\ UNCHANGED <<nodeVars, client, sent, waiting, linkVars>>

-----------------------------------------------------------------------------
\* The connection goes silent.
Cut ==
  /\ ~cut /\ (client \/ node \in {"awaiting", "up", "stopping"})
  /\ cut' = TRUE /\ flying' = [m \in Messages |-> Absent] /\ away' = 0
  /\ UNCHANGED <<nodeVars, clientVars, joined, quiet>>

NodeRestarts ==
  /\ Leave
  /\ nodeIdle' = 0 /\ away' = 0
  /\ UNCHANGED <<clientVars, cut, quiet>>

ServerRestarts ==
  /\ client
  /\ Drop
  /\ away' = 0
  /\ UNCHANGED <<nodeVars, sent, clientIdle, cut>>

-----------------------------------------------------------------------------
\* What has to happen before the clock moves on.
Due ==
  \/ \E m \in Messages : Moves(m) /\ flying[m] = Delay
  \/ NodePingedOut \/ PingDue \/ ClientPingedOut
  \/ node = "stopping" /\ nodeBusy = "none"
  \/ node = "asleep" /\ attempt = 1
  \/ node = "connecting" /\ attempt = Handshake

Tick ==
  /\ ~Due
  /\ attempt' = IF node \in {"asleep", "connecting"} THEN attempt + 1 ELSE 0
  /\ pinged' = Older(pinged, Oldest)
  /\ nodeIdle' =
       IF Through /\ nodeBusy # "none" THEN 0 ELSE Older(nodeIdle, Pingout)
  /\ sent' = Older(sent, Interval)
  /\ clientIdle' =
       IF Through /\ clientBusy # "none" THEN 0 ELSE Older(clientIdle, Pingout)
  /\ flying' =
       [m \in Messages |-> IF Moves(m) THEN flying[m] + 1 ELSE flying[m]]
  /\ quiet' = IF client /\ ~Through /\ clientBusy = "none"
              THEN Older(quiet, QuietBound + 1) ELSE 0
  /\ away' = IF Live \/ Stuck THEN 0 ELSE Older(away, AwayBound + 1)
  /\ UNCHANGED <<node, nodeBusy, client, waiting, clientBusy, joined, cut>>

Next ==
  \/ NodeWakes \/ NodeRefused \/ NodeAccepted \/ WelcomeArrives
  \/ SendPing \/ PingArrives \/ AnswerArrives
  \/ ClientPingOut \/ NodePingOut \/ NodeStopped \/ ClientError \/ NodeError
  \/ NodeSends \/ ServerSends \/ TransferEnds \/ NodeBuffers \/ ServerBuffers
  \/ Cut \/ NodeRestarts \/ ServerRestarts
  \/ Tick

Spec == Init /\ [][Next]_vars

-----------------------------------------------------------------------------
(* Properties *)

\* The type invariant: every age stays within what the code compares it to,
\* and a connection has a ClientObj at one end and the node at the other.
TypeOK ==
  /\ node \in {"asleep", "connecting", "awaiting", "up", "stopping"}
  /\ attempt \in 0..(Handshake + 1)
  /\ pinged \in 0..Oldest /\ nodeIdle \in 0..Pingout
  /\ nodeBusy \in {"none", "send", "recv"}
  /\ client \in BOOLEAN /\ waiting \in BOOLEAN
  /\ sent \in 0..Interval /\ clientIdle \in 0..Pingout
  /\ clientBusy \in {"none", "send", "recv"}
  /\ joined \in BOOLEAN /\ cut \in BOOLEAN
  /\ flying \in [Messages -> {Absent} \cup 0..Delay]
  /\ quiet \in 0..(QuietBound + 1) /\ away \in 0..(AwayBound + 1)
  /\ joined => client /\ node \in {"awaiting", "up", "stopping"}

\* CheckPingsAndQueues drops only clients that are gone: whatever is being
\* transferred, the ping of a working connection is answered in time.
OnlyDeadClientsPingOut == ClientPingedOut => ~Through

\* PingedOut() gives up only connections that are dead: the server's pings
\* come often enough, transfers and slow logins included.
OnlyDeadServersPingOut == NodePingedOut => ~Through

\* Neither side gives up a connection that works.
Safe == TypeOK /\ OnlyDeadClientsPingOut /\ OnlyDeadServersPingOut

\* The server keeps a client that is gone no longer than one interval and one
\* ping-out, counted from when its queues are idle: while one of them is in a
\* transfer that will not end, no ping is sent and the client stays.
DeadClientDropped == quiet <= QuietBound

\* A node that lost its session has one again after the time both sides need
\* to notice, and a last attempt to log in, unless it or the server is stuck
\* in a transfer or a login.
NodeComesBack == away <= AwayBound
=============================================================================
