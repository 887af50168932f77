------------------------------ MODULE Registry ------------------------------
(***************************************************************************)
(* What the server knows of its nodes, in three places that have to agree: *)
(* the ClientObj of each connected node (server/clients.cpp), the table    *)
(* nodeinfo of its database (server/db.cpp), and the list in the           *)
(* administrator's control program (control/clienttracker.cpp), which is   *)
(* filled by an index and kept up to date by notifications.  The           *)
(* authentication tokens that let nodes in are part of it.                 *)
(*                                                                         *)
(* Handlers run one at a time on the main thread, so each is one action;   *)
(* ServerLoop has the loop around them.  The administrator's write queue   *)
(* keeps the order of messages (module Outbox), so adminView is what the   *)
(* control program will show once it has received all that was sent: every *)
(* send updates it at once.  The database does what it is asked.           *)
(***************************************************************************)
EXTENDS Integers

CONSTANTS
  Nodes,        \* identities of nodes
  Tokens,       \* authentication tokens
  Groups,       \* node groups
  NoGroup,      \* the group of a node that has none, one of Groups
  Revisions,    \* revisions of the node program
  None          \* no row, no client, no record

ASSUME ConstantsAssumption == NoGroup \in Groups

VARIABLES
  nodeinfo,     \* table nodeinfo: a row for each node ever registered
  authtokens,   \* table authtokens
  online,       \* the ClientObj of each node on ClientMap
  admin,        \* CurrentAdmin: "none", "new", or "indexed" when it was sent
                \* an index since it came
  adminView,    \* ClientTracker's Records
  untold,       \* history: nodes that changed with no word to the admin
  killed        \* history: tokens revoked together with their nodes

nodeVars == <<nodeinfo, online>>
adminVars == <<admin, adminView, untold>>
tokenVars == <<authtokens, killed>>
vars == <<nodeVars, adminVars, tokenVars>>

Row == [group : Groups, revision : Revisions]
Client == [token : Tokens, group : Groups, revision : Revisions]
Record == [online : BOOLEAN, group : Groups, revision : Revisions]

ASSUME NoneAssumption == None \notin Row \cup Client \cup Record

-----------------------------------------------------------------------------
Online == {n \in Nodes : online[n] # None}

\* A row or a ClientObj with another group or revision.
SetGroup(x, g) == [x EXCEPT !.group = g]
SetRevision(x, r) == [x EXCEPT !.revision = r]

RecordOf(up, x) == [online |-> up, group |-> x.group, revision |-> x.revision]

\* HandleIndexRequest: the clients, then GetOfflineNodes().
IndexOf(clients, rows) ==
  [n \in Nodes |-> IF clients[n] # None THEN RecordOf(TRUE, clients[n])
                   ELSE IF rows[n] # None THEN RecordOf(FALSE, rows[n])
                   ELSE None]

Index == IndexOf(online, nodeinfo)

\* NotifyAdmin_NodeChange for the nodes N: nothing without an administrator or
\* a row, and all it says but the online flag comes from the row.
Notify(N, up, rows) ==
  LET told == {n \in N : admin # "none" /\ rows[n] # None}
  IN /\ adminView' = [n \in Nodes |-> IF n \in told THEN RecordOf(up, rows[n])
                                                    ELSE adminView[n]]
     /\ untold' = untold \ told

\* What ProcessIndex of the control program makes of an index: every record of
\* it added, and the others deleted.
Redraw(index) ==
  /\ admin' = "indexed"
  /\ adminView' = index
  /\ untold' = {}

\* DeleteClient, the end of ProcessNodeDisconnect, for the nodes N.
DeleteClients(N) ==
  online' = [n \in Nodes |-> IF n \in N THEN None ELSE online[n]]

\* DB::DeleteNode for the nodes N.
DeleteNodes(N) ==
  nodeinfo' = [n \in Nodes |-> IF n \in N THEN None ELSE nodeinfo[n]]

Users(t) == {n \in Online : online[n].token = t}

Init ==
  /\ nodeinfo = [n \in Nodes |-> None]
  /\ authtokens \in SUBSET Tokens
  /\ online = [n \in Nodes |-> None]
  /\ admin = "none"
  /\ adminView = [n \in Nodes |-> None]
  /\ untold = {}
  /\ killed = {}

-----------------------------------------------------------------------------
(* Mistakes one could make in this code, named in PROJECT.json "mutants".  *)

\* AcceptClient_Auth with the group it registers and the rows it notifies from.
ConnectWith(n, t, r, g, notified) ==
  /\ online[n] = None
  /\ t \in authtokens
  /\ online' = [online EXCEPT ![n] = [token |-> t, group |-> g,
                                      revision |-> r]]
  /\ nodeinfo' = [nodeinfo EXCEPT ![n] = [group |-> g, revision |-> r]]
  /\ IF notified THEN Notify({n}, TRUE, nodeinfo')
                 ELSE Notify({n}, TRUE, nodeinfo)
  /\ UNCHANGED <<admin, tokenVars>>

StoredGroup(n) == IF nodeinfo[n] = None THEN NoGroup ELSE nodeinfo[n].group

\* Not looking up the group of a node that is known.
NodeConnectsNoGroup(n, t, r) == ConnectWith(n, t, r, NoGroup, TRUE)

\* Notifying the administrator before the database is updated.
NodeConnectsEarlyNotice(n, t, r) ==
  ConnectWith(n, t, r, StoredGroup(n), FALSE)

\* Deleting the row before the notification, which then finds none.
TokenRevokeKillRowFirst(t) ==
  /\ admin # "none"
  /\ authtokens' = authtokens \ {t}
  /\ DeleteClients(Users(t))
  /\ DeleteNodes(Users(t))
  /\ untold' = untold \cup Users(t)
  /\ killed' = killed \cup {t}
  /\ UNCHANGED <<admin, adminView>>

\* Leaving the loop over the clients after the first.
TokenRevokeKillOne(t) ==
  /\ admin # "none"
  /\ authtokens' = authtokens \ {t}
  /\ LET first == IF Users(t) = {} THEN {}
                  ELSE {CHOOSE n \in Users(t) : TRUE}
     IN /\ DeleteClients(first)
        /\ DeleteNodes(first)
        /\ Notify(first, FALSE, nodeinfo)
  /\ killed' = killed \cup {t}
  /\ UNCHANGED admin

-----------------------------------------------------------------------------
(* Nodes.                                                                  *)

\* AcceptClient_Auth for a node with a good token: the group comes from the
\* row, the row is written, the administrator is told.
NodeConnects(n, t, r) ==
  /\ online[n] = None
  /\ t \in authtokens
  /\ LET g == IF nodeinfo[n] = None THEN NoGroup ELSE nodeinfo[n].group
     IN /\ online' = [online EXCEPT ![n] = [token |-> t, group |-> g,
                                            revision |-> r]]
        /\ nodeinfo' = [nodeinfo EXCEPT ![n] = [group |-> g, revision |-> r]]
  /\ Notify({n}, TRUE, nodeinfo')
  /\ UNCHANGED <<admin, tokenVars>>

\* AcceptClient_Auth for a node with a bad one: ProcessNodeDisconnect, for a
\* client that is on no map.
NodeRefused(n, t) ==
  /\ online[n] = None
  /\ t \notin authtokens
  /\ Notify({n}, FALSE, nodeinfo)
  /\ UNCHANGED <<nodeVars, admin, tokenVars>>

\* A broken connection, a ping-out, or ANY_DISCONNECT.
NodeLost(n) ==
  /\ online[n] # None
  /\ Notify({n}, FALSE, nodeinfo)
  /\ DeleteClients({n})
  /\ UNCHANGED <<nodeinfo, admin, tokenVars>>

\* Any request of a node whose token has been revoked.
NodeRequestRevoked(n) ==
  /\ online[n] # None
  /\ online[n].token \notin authtokens
  /\ Notify({n}, FALSE, nodeinfo)
  /\ DeleteClients({n})
  /\ UNCHANGED <<nodeinfo, admin, tokenVars>>

\* HandleReport of ANY_PING: whether or not a ping was sent, a notification.
PingReport(n) ==
  /\ online[n] # None
  /\ Notify({n}, TRUE, nodeinfo)
  /\ UNCHANGED <<nodeVars, admin, tokenVars>>

\* HandleReport of B2C_USEUPDATE with success, which a node sends when it comes
\* back from an update (node/main.cpp:122): it names the revision the node has
\* logged in with.  A node never sets the routine bit on it.
UpdateReport(n) ==
  /\ online[n] # None
  /\ LET r == online[n].revision
     IN /\ nodeinfo' = IF nodeinfo[n] = None THEN nodeinfo
                       ELSE [nodeinfo EXCEPT ![n] = SetRevision(@, r)]
        /\ online' = [online EXCEPT ![n] = SetRevision(@, r)]
  /\ Notify({n}, TRUE, nodeinfo')
  /\ UNCHANGED <<admin, tokenVars>>

-----------------------------------------------------------------------------
(* The administrator.                                                      *)

\* A control program logs in, in place of the one there was; its list is empty.
AdminConnects ==
  /\ admin' = "new"
  /\ adminView' = [n \in Nodes |-> None]
  /\ untold' = {}
  /\ UNCHANGED <<nodeVars, tokenVars>>

AdminLost ==
  /\ admin # "none"
  /\ admin' = "none"
  /\ UNCHANGED <<nodeVars, adminView, untold, tokenVars>>

\* A2S_INDEXDL.
IndexDownload ==
  /\ admin # "none"
  /\ Redraw(Index)
  /\ UNCHANGED <<nodeVars, tokenVars>>

\* A2S_CHGNODEGROUP, which fails for a node that has no row.
ChangeGroup(n, g) ==
  /\ admin # "none"
  /\ nodeinfo[n] # None
  /\ nodeinfo' = [nodeinfo EXCEPT ![n] = SetGroup(@, g)]
  /\ online' = IF online[n] = None THEN online
               ELSE [online EXCEPT ![n] = SetGroup(@, g)]
  /\ Notify({n}, online[n] # None, nodeinfo')
  /\ UNCHANGED <<admin, tokenVars>>

\* A2S_FORGETNODE: DISCONNECT to the node, ProcessNodeDisconnect, DeleteNode,
\* and an index nobody asked for.
ForgetNode(n) ==
  /\ admin # "none"
  /\ DeleteClients({n})
  /\ DeleteNodes({n})
  /\ Redraw(Index')
  /\ UNCHANGED <<tokenVars>>

\* A2S_AUTHTOKEN_ADD, refused when the token is there.
TokenAdd(t) ==
  /\ admin # "none"
  /\ t \notin authtokens
  /\ authtokens' = authtokens \cup {t}
  /\ killed' = killed \ {t}
  /\ UNCHANGED <<nodeVars, adminVars>>

\* A2S_AUTHTOKEN_REVOKE without KillAffectedNodes.
TokenRevoke(t) ==
  /\ admin # "none"
  /\ authtokens' = authtokens \ {t}
  /\ UNCHANGED <<nodeVars, adminVars, killed>>

\* A2S_AUTHTOKEN_REVOKE with KillAffectedNodes: for every node that uses it,
\* ProcessNodeDisconnect with its notification, then DeleteNode with none.
TokenRevokeKill(t) ==
  /\ admin # "none"
  /\ authtokens' = authtokens \ {t}
  /\ DeleteClients(Users(t))
  /\ DeleteNodes(Users(t))
  /\ adminView' = [n \in Nodes |-> IF n \in Users(t) /\ nodeinfo[n] # None
                                     THEN RecordOf(FALSE, nodeinfo[n])
                                     ELSE adminView[n]]
  /\ untold' = untold \cup Users(t)
  /\ killed' = killed \cup {t}
  /\ UNCHANGED admin

\* The server stops or is killed, and starts again on the same database.
ServerRestart ==
  /\ DeleteClients(Nodes)
  /\ admin' = "none"
  /\ UNCHANGED <<nodeinfo, adminView, untold, tokenVars>>

-----------------------------------------------------------------------------
NodeStep(n) ==
  \/ \E t \in Tokens, r \in Revisions : NodeConnects(n, t, r)
  \/ \E t \in Tokens : NodeRefused(n, t)
  \/ NodeLost(n) \/ NodeRequestRevoked(n)
  \/ PingReport(n) \/ UpdateReport(n)

AdminStep ==
  \/ AdminConnects \/ AdminLost \/ IndexDownload
  \/ \E n \in Nodes : ForgetNode(n)
  \/ \E n \in Nodes, g \in Groups : ChangeGroup(n, g)
  \/ \E t \in Tokens : TokenAdd(t) \/ TokenRevoke(t) \/ TokenRevokeKill(t)

Next == (\E n \in Nodes : NodeStep(n)) \/ AdminStep \/ ServerRestart

Spec == Init /\ [][Next]_vars

-----------------------------------------------------------------------------
TypeOK ==
  /\ nodeinfo \in [Nodes -> Row \cup {None}]
  /\ authtokens \subseteq Tokens
  /\ online \in [Nodes -> Client \cup {None}]
  /\ admin \in {"none", "new", "indexed"}
  /\ adminView \in [Nodes -> Record \cup {None}]
  /\ untold \subseteq Nodes
  /\ killed \subseteq Tokens

\* A connected node has a row, and the row and the ClientObj tell the same of
\* it: an index (from the ClientObj) says of a node what a notification (from
\* the row) would.
RowMatchesClient ==
  \A n \in Online : /\ nodeinfo[n] # None
                    /\ nodeinfo[n].group = online[n].group
                    /\ nodeinfo[n].revision = online[n].revision

\* An administrator that has had an index shows every node as the server has
\* it, through connects, losses, refusals, group changes and reports; the only
\* exceptions are the nodes deleted by AUTHTOKEN_REVOKE.
AdminViewCurrent ==
  admin = "indexed" => \A n \in Nodes \ untold : adminView[n] = Index[n]

\* Even with those, a node that is shown as online is online.
ShownOnlineIsOnline ==
  admin = "indexed" =>
    \A n \in Nodes : adminView[n] # None /\ adminView[n].online => n \in Online

\* Client list and table agree, and nobody is shown as online who is not.
Safe == TypeOK /\ RowMatchesClient /\ ShownOnlineIsOnline

\* Once a token has been revoked together with its nodes, no node is connected
\* on the strength of it until it is added again.
KilledStaysOut == \A n \in Online : online[n].token \notin killed

\* The group of a node that is known outlives disconnects, logins, updates and
\* restarts: only A2S_CHGNODEGROUP alters it.
GroupKept ==
  [][\A n \in Nodes :
       nodeinfo[n] # None /\ nodeinfo'[n] # None
         /\ nodeinfo'[n].group # nodeinfo[n].group
       => \E g \in Groups : ChangeGroup(n, g)]_vars
=============================================================================
