-------------------------- MODULE Registry_proofs --------------------------
(***************************************************************************)
(* Proofs about Registry, for any nodes, tokens, groups and revisions.     *)
(* TypeOK and RowMatchesClient are inductive together; the others follow   *)
(* from them by one more pass over the actions.                            *)
(***************************************************************************)
EXTENDS Registry, TLAPS

USE DEF nodeVars, adminVars, tokenVars

Rows == [Nodes -> Row \cup {None}]
Clients == [Nodes -> Client \cup {None}]
Records == [Nodes -> Record \cup {None}]

-----------------------------------------------------------------------------
\* A record of a row or of a client is a record.
LEMMA RecordOfType ==
  ASSUME NEW up \in BOOLEAN, NEW x \in Row \cup Client
  PROVE  RecordOf(up, x) \in Record
  BY DEF RecordOf, Row, Client, Record

\* What Notify does to the administrator's list, and that it keeps its type.
LEMMA NotifyEffect ==
  ASSUME TypeOK, NEW N \in SUBSET Nodes, NEW up \in BOOLEAN,
         NEW rows \in Rows, Notify(N, up, rows)
  PROVE  /\ adminView' \in Records
         /\ untold' \subseteq untold
         /\ \A n \in Nodes :
              IF n \in N /\ admin # "none" /\ rows[n] # None
                THEN adminView'[n] = RecordOf(up, rows[n]) /\ n \notin untold'
                ELSE /\ adminView'[n] = adminView[n]
                     /\ n \in untold' <=> n \in untold
<1>1. ASSUME NEW n \in Nodes, rows[n] # None
      PROVE  RecordOf(up, rows[n]) \in Record
  BY <1>1, RecordOfType DEF Rows
<1> QED
  BY <1>1 DEF Notify, TypeOK, Records

\* An index has a record, or none, for each node.
LEMMA IndexType ==
  ASSUME NEW clients \in Clients, NEW rows \in Rows
  PROVE  IndexOf(clients, rows) \in Records
<1>1. ASSUME NEW n \in Nodes
      PROVE  /\ clients[n] # None => RecordOf(TRUE, clients[n]) \in Record
             /\ rows[n] # None => RecordOf(FALSE, rows[n]) \in Record
  BY <1>1, RecordOfType DEF Clients, Rows
<1> QED
  BY <1>1 DEF IndexOf, Records

\* What a row and a client are with another group or revision.
LEMMA SetRow ==
  ASSUME NEW x \in Row, NEW g \in Groups, NEW r \in Revisions
  PROVE  /\ SetGroup(x, g) \in Row
         /\ SetGroup(x, g).group = g
         /\ SetGroup(x, g).revision = x.revision
         /\ SetRevision(x, r) \in Row
         /\ SetRevision(x, r).revision = r
         /\ SetRevision(x, r).group = x.group
  BY DEF SetGroup, SetRevision, Row

LEMMA SetClient ==
  ASSUME NEW x \in Client, NEW g \in Groups, NEW r \in Revisions
  PROVE  /\ SetGroup(x, g) \in Client
         /\ SetGroup(x, g).group = g
         /\ SetGroup(x, g).revision = x.revision
         /\ SetGroup(x, g).token = x.token
         /\ SetRevision(x, r) \in Client
         /\ SetRevision(x, r).revision = r
         /\ SetRevision(x, r).group = x.group
         /\ SetRevision(x, r).token = x.token
  BY DEF SetGroup, SetRevision, Client

\* The revision of a row and of a client.
LEMMA Revision ==
  ASSUME TypeOK, NEW n \in Nodes
  PROVE  /\ nodeinfo[n] # None => /\ nodeinfo[n] \in Row
                                  /\ nodeinfo[n].revision \in Revisions
                                  /\ nodeinfo[n].group \in Groups
         /\ online[n] # None => /\ online[n] \in Client
                                /\ online[n].revision \in Revisions
  BY DEF TypeOK, Row, Client

-----------------------------------------------------------------------------
(* Types.                                                                  *)

LEMMA TypeStep == TypeOK /\ [Next]_vars => TypeOK'
<1> SUFFICES ASSUME TypeOK, [Next]_vars PROVE TypeOK'
  OBVIOUS
<1>a. nodeinfo \in Rows /\ online \in Clients /\ adminView \in Records
  BY DEF TypeOK, Rows, Clients, Records
<1>b. TypeOK' <=>
        /\ nodeinfo' \in Rows
        /\ authtokens' \subseteq Tokens
        /\ online' \in Clients
        /\ admin' \in {"none", "new", "indexed"}
        /\ adminView' \in Records
        /\ untold' \subseteq Nodes
        /\ killed' \subseteq Tokens
  BY DEF TypeOK, Rows, Clients, Records
<1>c. \A N : /\ DeleteClients(N) => online' \in Clients
             /\ DeleteNodes(N) => nodeinfo' \in Rows
  BY <1>a DEF DeleteClients, DeleteNodes, Rows, Clients
<1>1. ASSUME NEW n \in Nodes, NEW t \in Tokens, NEW r \in Revisions,
             NodeConnects(n, t, r)
      PROVE  TypeOK'
  <2>1. nodeinfo' \in Rows /\ online' \in Clients
    BY <1>a, <1>1, ConstantsAssumption
    DEF NodeConnects, Rows, Clients, Row, Client
  <2> QED
    BY <1>b, <1>1, <2>1, NotifyEffect DEF NodeConnects, TypeOK
<1>2. ASSUME NEW n \in Nodes, NEW t \in Tokens, NodeRefused(n, t)
      PROVE  TypeOK'
  BY <1>a, <1>b, <1>2, NotifyEffect DEF NodeRefused, TypeOK
<1>3. ASSUME NEW n \in Nodes, NodeLost(n)
      PROVE  TypeOK'
  BY <1>a, <1>b, <1>c, <1>3, NotifyEffect DEF NodeLost, TypeOK
<1>4. ASSUME NEW n \in Nodes, NodeRequestRevoked(n)
      PROVE  TypeOK'
  BY <1>a, <1>b, <1>c, <1>4, NotifyEffect DEF NodeRequestRevoked, TypeOK
<1>5. ASSUME NEW n \in Nodes, PingReport(n)
      PROVE  TypeOK'
  BY <1>a, <1>b, <1>5, NotifyEffect DEF PingReport, TypeOK
<1>6. ASSUME NEW n \in Nodes, UpdateReport(n)
      PROVE  TypeOK'
  <2>1. online[n].revision \in Revisions
    BY <1>6, Revision DEF UpdateReport
  <2>2. nodeinfo' \in Rows /\ online' \in Clients
    BY <1>a, <1>6, <2>1, Revision, SetRow, SetClient, NoneAssumption,
       ConstantsAssumption
    DEF UpdateReport, Rows, Clients
  <2> QED
    BY <1>b, <1>6, <2>2, NotifyEffect DEF UpdateReport, TypeOK
<1>7. CASE AdminConnects
  BY <1>b, <1>7 DEF AdminConnects, TypeOK, Rows, Clients, Records
<1>8. CASE AdminLost
  BY <1>a, <1>b, <1>8 DEF AdminLost, TypeOK
<1>9. CASE IndexDownload
  BY <1>a, <1>b, <1>9, IndexType DEF IndexDownload, Redraw, Index, TypeOK
<1>10. ASSUME NEW n \in Nodes, NEW g \in Groups, ChangeGroup(n, g)
      PROVE  TypeOK'
  <2>1. nodeinfo' \in Rows /\ online' \in Clients
    BY <1>a, <1>10, Revision, SetRow, SetClient
    DEF ChangeGroup, Rows, Clients
  <2>2. (online[n] # None) \in BOOLEAN
    OBVIOUS
  <2> QED
    BY <1>b, <1>10, <2>1, <2>2, NotifyEffect DEF ChangeGroup, TypeOK
<1>11. ASSUME NEW n \in Nodes, ForgetNode(n)
      PROVE  TypeOK'
  BY <1>b, <1>c, <1>11, IndexType DEF ForgetNode, Redraw, Index, TypeOK
<1>12. ASSUME NEW t \in Tokens, TokenAdd(t)
      PROVE  TypeOK'
  BY <1>a, <1>b, <1>12 DEF TokenAdd, TypeOK
<1>13. ASSUME NEW t \in Tokens, TokenRevoke(t)
      PROVE  TypeOK'
  BY <1>a, <1>b, <1>13 DEF TokenRevoke, TypeOK
<1>14. ASSUME NEW t \in Tokens, TokenRevokeKill(t)
      PROVE  TypeOK'
  <2>1. adminView' \in Records
    BY <1>a, <1>14, RecordOfType DEF TokenRevokeKill, Records, Rows
  <2> QED
    BY <1>b, <1>c, <1>14, <2>1 DEF TokenRevokeKill, Users, Online, TypeOK
<1>15. CASE ServerRestart
  BY <1>a, <1>b, <1>c, <1>15 DEF ServerRestart, TypeOK
<1>16. CASE UNCHANGED vars
  BY <1>16 DEF TypeOK, vars
<1> QED
  BY <1>1, <1>2, <1>3, <1>4, <1>5, <1>6, <1>7, <1>8, <1>9, <1>10,
     <1>11, <1>12, <1>13, <1>14, <1>15, <1>16
  DEF Next, NodeStep, AdminStep

\* The types of the tables, the clients and the administrator's list.
THEOREM TypeCorrect == Spec => []TypeOK
<1>1. Init => TypeOK
  BY DEF Init, TypeOK
<1> QED
  BY <1>1, TypeStep, PTL DEF Spec

-----------------------------------------------------------------------------
(* Rows and clients.                                                       *)

\* RowMatchesClient for one node.
Matches(n) == online[n] # None => /\ nodeinfo[n] # None
                                  /\ nodeinfo[n].group = online[n].group
                                  /\ nodeinfo[n].revision = online[n].revision

LEMMA MatchesStep ==
  TypeOK /\ RowMatchesClient /\ [Next]_vars => RowMatchesClient'
<1> SUFFICES ASSUME TypeOK, RowMatchesClient, [Next]_vars,
                    NEW m \in Nodes
             PROVE  Matches(m)'
  BY DEF RowMatchesClient, Matches, Online
<1>a. nodeinfo \in Rows /\ online \in Clients /\ Matches(m)
  BY DEF TypeOK, Rows, Clients, RowMatchesClient, Matches, Online
<1>b. \A N : /\ DeleteClients(N) =>
                 online'[m] = IF m \in N THEN None ELSE online[m]
             /\ DeleteNodes(N) =>
                 nodeinfo'[m] = IF m \in N THEN None ELSE nodeinfo[m]
  BY DEF DeleteClients, DeleteNodes
<1> USE DEF Matches
<1>1. ASSUME NEW n \in Nodes, NEW t \in Tokens, NEW r \in Revisions,
             NodeConnects(n, t, r)
      PROVE  Matches(m)'
  <2>1. CASE m = n
    BY <1>a, <1>1, <2>1, NoneAssumption, ConstantsAssumption
    DEF NodeConnects, Rows, Clients, Row
  <2>2. CASE m # n
    BY <1>a, <1>1, <2>2 DEF NodeConnects, Rows, Clients
  <2> QED
    BY <2>1, <2>2
<1>2. ASSUME NEW n \in Nodes, NEW t \in Tokens, NodeRefused(n, t)
      PROVE  Matches(m)'
  BY <1>a, <1>2 DEF NodeRefused
<1>3. ASSUME NEW n \in Nodes, NodeLost(n)
      PROVE  Matches(m)'
  BY <1>a, <1>b, <1>3 DEF NodeLost
<1>4. ASSUME NEW n \in Nodes, NodeRequestRevoked(n)
      PROVE  Matches(m)'
  BY <1>a, <1>b, <1>4 DEF NodeRequestRevoked
<1>5. ASSUME NEW n \in Nodes, PingReport(n)
      PROVE  Matches(m)'
  BY <1>a, <1>5 DEF PingReport
<1>6. ASSUME NEW n \in Nodes, UpdateReport(n)
      PROVE  Matches(m)'
  <2>1. online[n].revision \in Revisions
    BY <1>6, Revision DEF UpdateReport
  <2> QED
    BY <1>a, <1>6, <2>1, Revision, SetRow, SetClient, NoneAssumption,
       ConstantsAssumption
    DEF UpdateReport, Rows, Clients
<1>7. CASE AdminConnects
  BY <1>a, <1>7 DEF AdminConnects
<1>8. CASE AdminLost
  BY <1>a, <1>8 DEF AdminLost
<1>9. CASE IndexDownload
  BY <1>a, <1>9 DEF IndexDownload
<1>10. ASSUME NEW n \in Nodes, NEW g \in Groups, ChangeGroup(n, g)
      PROVE  Matches(m)'
  <2>1. nodeinfo[n].revision \in Revisions
    BY <1>10, Revision DEF ChangeGroup
  <2>2. /\ nodeinfo'[n] # None
        /\ nodeinfo'[n].group = g
        /\ nodeinfo'[n].revision = nodeinfo[n].revision
        /\ \A j \in Nodes \ {n} : nodeinfo'[j] = nodeinfo[j]
    BY <1>a, <1>10, <2>1, Revision, SetRow, NoneAssumption
    DEF ChangeGroup, Rows
  <2>3. /\ online[n] # None => /\ online'[n].group = g
                               /\ online'[n].revision = online[n].revision
        /\ online[n] = None => online'[n] = None
        /\ \A j \in Nodes \ {n} : online'[j] = online[j]
    BY <1>a, <1>10, <2>1, Revision, SetClient DEF ChangeGroup, Clients
  <2> QED
    BY <1>a, <2>2, <2>3
<1>11. ASSUME NEW n \in Nodes, ForgetNode(n)
      PROVE  Matches(m)'
  BY <1>a, <1>b, <1>11 DEF ForgetNode
<1>12. ASSUME NEW t \in Tokens, TokenAdd(t)
      PROVE  Matches(m)'
  BY <1>a, <1>12 DEF TokenAdd
<1>13. ASSUME NEW t \in Tokens, TokenRevoke(t)
      PROVE  Matches(m)'
  BY <1>a, <1>13 DEF TokenRevoke
<1>14. ASSUME NEW t \in Tokens, TokenRevokeKill(t)
      PROVE  Matches(m)'
  BY <1>a, <1>b, <1>14 DEF TokenRevokeKill
<1>15. CASE ServerRestart
  BY <1>a, <1>b, <1>15 DEF ServerRestart
<1>16. CASE UNCHANGED vars
  BY <1>a, <1>16 DEF vars
<1> QED
  BY <1>1, <1>2, <1>3, <1>4, <1>5, <1>6, <1>7, <1>8, <1>9, <1>10,
     <1>11, <1>12, <1>13, <1>14, <1>15, <1>16
  DEF Next, NodeStep, AdminStep

\* A connected node has a row, and the row and the ClientObj agree.
THEOREM RowsMatch == Spec => []RowMatchesClient
<1>1. Init => RowMatchesClient
  BY DEF Init, RowMatchesClient, Online
<1> QED
  BY <1>1, TypeCorrect, MatchesStep, PTL DEF Spec

-----------------------------------------------------------------------------
(* Revoked tokens.                                                         *)

\* KilledStaysOut for one node, and what makes it inductive: a token that was
\* revoked is in no table.
StaysOut(n) == online[n] # None => online[n].token \notin killed
KilledRevoked == killed \cap authtokens = {}

LEMMA StaysOutStep ==
  TypeOK /\ KilledRevoked /\ KilledStaysOut /\ [Next]_vars
    => KilledRevoked' /\ KilledStaysOut'
<1> SUFFICES ASSUME TypeOK, KilledRevoked, KilledStaysOut, [Next]_vars
             PROVE  KilledRevoked' /\ \A m \in Nodes : StaysOut(m)'
  BY DEF KilledStaysOut, StaysOut, Online
<1>a. online \in Clients /\ \A m \in Nodes : StaysOut(m)
  BY DEF TypeOK, Clients, KilledStaysOut, StaysOut, Online
<1>b. \A N : DeleteClients(N) => \A m \in Nodes :
               online'[m] = IF m \in N THEN None ELSE online[m]
  BY DEF DeleteClients
<1> USE DEF StaysOut, KilledRevoked
<1>1. ASSUME NEW n \in Nodes, NEW t \in Tokens, NEW r \in Revisions,
             NodeConnects(n, t, r)
      PROVE  KilledRevoked' /\ \A m \in Nodes : StaysOut(m)'
  BY <1>a, <1>1 DEF NodeConnects, Clients
<1>2. ASSUME NEW n \in Nodes, NEW t \in Tokens, NodeRefused(n, t)
      PROVE  KilledRevoked' /\ \A m \in Nodes : StaysOut(m)'
  BY <1>a, <1>2 DEF NodeRefused
<1>3. ASSUME NEW n \in Nodes, NodeLost(n)
      PROVE  KilledRevoked' /\ \A m \in Nodes : StaysOut(m)'
  BY <1>a, <1>b, <1>3 DEF NodeLost
<1>4. ASSUME NEW n \in Nodes, NodeRequestRevoked(n)
      PROVE  KilledRevoked' /\ \A m \in Nodes : StaysOut(m)'
  BY <1>a, <1>b, <1>4 DEF NodeRequestRevoked
<1>5. ASSUME NEW n \in Nodes, PingReport(n)
      PROVE  KilledRevoked' /\ \A m \in Nodes : StaysOut(m)'
  BY <1>a, <1>5 DEF PingReport
<1>6. ASSUME NEW n \in Nodes, UpdateReport(n)
      PROVE  KilledRevoked' /\ \A m \in Nodes : StaysOut(m)'
  <2>1. online[n].revision \in Revisions
    BY <1>6, Revision DEF UpdateReport
  <2>2. \A m \in Nodes : online'[m] = None <=> online[m] = None
    BY <1>a, <1>6, <2>1, Revision, SetClient, NoneAssumption,
       ConstantsAssumption
    DEF UpdateReport, Clients
  <2>3. \A m \in Nodes : online[m] # None =>
                            online'[m].token = online[m].token
    BY <1>a, <1>6, <2>1, Revision, SetClient, NoneAssumption,
       ConstantsAssumption
    DEF UpdateReport, Clients
  <2> QED
    BY <1>a, <1>6, <2>2, <2>3 DEF UpdateReport
<1>7. CASE AdminConnects
  BY <1>a, <1>7 DEF AdminConnects
<1>8. CASE AdminLost
  BY <1>a, <1>8 DEF AdminLost
<1>9. CASE IndexDownload
  BY <1>a, <1>9 DEF IndexDownload
<1>10. ASSUME NEW n \in Nodes, NEW g \in Groups, ChangeGroup(n, g)
      PROVE  KilledRevoked' /\ \A m \in Nodes : StaysOut(m)'
  <2>1. CASE online[n] = None
    BY <1>a, <1>10, <2>1 DEF ChangeGroup
  <2>2. CASE online[n] # None
    <3>1. online[n].revision \in Revisions
      BY <2>2, Revision
    <3>2. /\ online'[n].token = online[n].token
          /\ \A m \in Nodes \ {n} : online'[m] = online[m]
      BY <1>a, <1>10, <2>2, <3>1, Revision, SetClient
      DEF ChangeGroup, Clients
    <3> QED
      BY <1>a, <1>10, <2>2, <3>2 DEF ChangeGroup
  <2> QED
    BY <2>1, <2>2
<1>11. ASSUME NEW n \in Nodes, ForgetNode(n)
      PROVE  KilledRevoked' /\ \A m \in Nodes : StaysOut(m)'
  BY <1>a, <1>b, <1>11 DEF ForgetNode
<1>12. ASSUME NEW t \in Tokens, TokenAdd(t)
      PROVE  KilledRevoked' /\ \A m \in Nodes : StaysOut(m)'
  BY <1>a, <1>12 DEF TokenAdd
<1>13. ASSUME NEW t \in Tokens, TokenRevoke(t)
      PROVE  KilledRevoked' /\ \A m \in Nodes : StaysOut(m)'
  BY <1>a, <1>13 DEF TokenRevoke
<1>14. ASSUME NEW t \in Tokens, TokenRevokeKill(t)
      PROVE  KilledRevoked' /\ \A m \in Nodes : StaysOut(m)'
  BY <1>a, <1>b, <1>14 DEF TokenRevokeKill, Users, Online
<1>15. CASE ServerRestart
  BY <1>a, <1>b, <1>15 DEF ServerRestart
<1>16. CASE UNCHANGED vars
  BY <1>a, <1>16 DEF vars
<1> QED
  BY <1>1, <1>2, <1>3, <1>4, <1>5, <1>6, <1>7, <1>8, <1>9, <1>10,
     <1>11, <1>12, <1>13, <1>14, <1>15, <1>16
  DEF Next, NodeStep, AdminStep

\* A token revoked together with its nodes lets no node stay.
THEOREM KilledOut == Spec => []KilledStaysOut
<1>1. Init => KilledRevoked /\ KilledStaysOut
  BY DEF Init, KilledRevoked, KilledStaysOut, Online
<1> QED
  BY <1>1, TypeCorrect, StaysOutStep, PTL DEF Spec

-----------------------------------------------------------------------------
(* The administrator's list.                                               *)

\* What AdminViewCurrent and ShownOnlineIsOnline say of one node.  Of a node in
\* untold the list may say what it likes, but not that it is online when it is
\* not.
Shown(n) ==
  admin = "indexed" =>
    /\ n \notin untold => adminView[n] = Index[n]
    /\ adminView[n] # None /\ adminView[n].online => online[n] # None

LEMMA ShownParts ==
  (\A n \in Nodes : Shown(n)) <=> AdminViewCurrent /\ ShownOnlineIsOnline
  BY DEF Shown, AdminViewCurrent, ShownOnlineIsOnline, Online

LEMMA ShownStep ==
  ASSUME TypeOK, TypeOK', RowMatchesClient, RowMatchesClient',
         \A n \in Nodes : Shown(n), [Next]_vars
  PROVE  \A n \in Nodes : Shown(n)'
<1> SUFFICES ASSUME NEW m \in Nodes PROVE Shown(m)'
  OBVIOUS
<1>a. /\ nodeinfo \in Rows /\ online \in Clients
      /\ nodeinfo' \in Rows /\ online' \in Clients
      /\ Matches(m) /\ Matches(m)' /\ Shown(m)
  BY DEF TypeOK, Rows, Clients, RowMatchesClient, Matches, Online
<1>b. \A N : DeleteClients(N) =>
               online'[m] = IF m \in N THEN None ELSE online[m]
  BY DEF DeleteClients
<1>c. Shown(m)' <=>
        (admin' = "indexed" =>
           /\ m \notin untold' => adminView'[m] = Index'[m]
           /\ adminView'[m] # None /\ adminView'[m].online
                => online'[m] # None)
  BY DEF Shown
<1>i. /\ Index[m] = IF online[m] # None THEN RecordOf(TRUE, online[m])
                 ELSE IF nodeinfo[m] # None THEN RecordOf(FALSE, nodeinfo[m])
                 ELSE None
      /\ Index'[m] = IF online'[m] # None THEN RecordOf(TRUE, online'[m])
                  ELSE IF nodeinfo'[m] # None
                         THEN RecordOf(FALSE, nodeinfo'[m])
                         ELSE None
  BY DEF Index, IndexOf
\* Nothing happens to m.
<1>d. /\ online'[m] = online[m] /\ nodeinfo'[m] = nodeinfo[m]
      /\ admin' = admin /\ adminView'[m] = adminView[m]
      /\ m \in untold' <=> m \in untold
      => Shown(m)'
  BY <1>a, <1>c, <1>i DEF Shown
\* m is shown as it is.
<1>e. ASSUME NEW up \in BOOLEAN, nodeinfo'[m] # None,
             adminView'[m] = RecordOf(up, nodeinfo'[m]),
             up <=> online'[m] # None
      PROVE  Shown(m)'
  <2>1. Index'[m] = RecordOf(up, nodeinfo'[m])
    BY <1>a, <1>e, <1>i DEF RecordOf, Matches
  <2>2. adminView'[m].online = up
    BY <1>e DEF RecordOf
  <2> QED
    BY <1>c, <1>e, <2>1, <2>2
\* m is told of, or has no row before and after.
<1>f. ASSUME NEW up \in BOOLEAN, Notify({m}, up, nodeinfo'),
             admin' = admin,
             up <=> online'[m] # None,
             nodeinfo'[m] = None => nodeinfo[m] = None
      PROVE  Shown(m)'
  <2>1. CASE admin = "none"
    BY <1>c, <1>f, <2>1
  <2>2. CASE admin # "none" /\ nodeinfo'[m] # None
    BY <1>a, <1>e, <1>f, <2>2, NotifyEffect
  <2>3. CASE admin # "none" /\ nodeinfo'[m] = None
    <3>1. online[m] = None /\ online'[m] = None
      BY <1>a, <1>f, <2>3 DEF Matches
    <3> QED
      BY <1>a, <1>d, <1>f, <2>3, <3>1, NotifyEffect
  <2> QED
    BY <2>1, <2>2, <2>3
\* Another node is told of.
<1>g. ASSUME NEW n \in Nodes, n # m, NEW up \in BOOLEAN, NEW rows \in Rows,
             Notify({n}, up, rows)
      PROVE  /\ adminView'[m] = adminView[m]
             /\ m \in untold' <=> m \in untold
  <2>1. {n} \in SUBSET Nodes /\ m \notin {n}
    BY <1>g
  <2> QED
    BY <1>g, <2>1, NotifyEffect
<1>1. ASSUME NEW n \in Nodes, NEW t \in Tokens, NEW r \in Revisions,
             NodeConnects(n, t, r)
      PROVE  Shown(m)'
  <2>1. CASE m = n
    <3>1. online'[m] # None /\ nodeinfo'[m] # None
      BY <1>a, <1>1, <2>1, NoneAssumption, ConstantsAssumption, Revision
      DEF NodeConnects, Rows, Clients, Row, Client
    <3> QED
      BY <1>f, <1>1, <2>1, <3>1 DEF NodeConnects
  <2>2. CASE m # n
    <3>1. online'[m] = online[m] /\ nodeinfo'[m] = nodeinfo[m]
      BY <1>a, <1>1, <2>2 DEF NodeConnects, Rows, Clients
    <3> QED
      BY <1>a, <1>d, <1>g, <1>1, <2>2, <3>1 DEF NodeConnects
  <2> QED
    BY <2>1, <2>2
<1>2. ASSUME NEW n \in Nodes, NEW t \in Tokens, NodeRefused(n, t)
      PROVE  Shown(m)'
  <2>1. CASE m = n
    BY <1>a, <1>b, <1>f, <1>2, <2>1 DEF NodeRefused
  <2>2. CASE m # n
    <3>1. online'[m] = online[m] /\ nodeinfo'[m] = nodeinfo[m]
      BY <1>b, <1>2, <2>2 DEF NodeRefused
    <3> QED
      BY <1>a, <1>d, <1>g, <1>2, <2>2, <3>1 DEF NodeRefused
  <2> QED
    BY <2>1, <2>2
<1>3. ASSUME NEW n \in Nodes, NodeLost(n)
      PROVE  Shown(m)'
  <2>1. CASE m = n
    BY <1>a, <1>b, <1>f, <1>3, <2>1 DEF NodeLost
  <2>2. CASE m # n
    <3>1. online'[m] = online[m] /\ nodeinfo'[m] = nodeinfo[m]
      BY <1>b, <1>3, <2>2 DEF NodeLost
    <3> QED
      BY <1>a, <1>d, <1>g, <1>3, <2>2, <3>1 DEF NodeLost
  <2> QED
    BY <2>1, <2>2
<1>4. ASSUME NEW n \in Nodes, NodeRequestRevoked(n)
      PROVE  Shown(m)'
  <2>1. CASE m = n
    BY <1>a, <1>b, <1>f, <1>4, <2>1 DEF NodeRequestRevoked
  <2>2. CASE m # n
    <3>1. online'[m] = online[m] /\ nodeinfo'[m] = nodeinfo[m]
      BY <1>b, <1>4, <2>2 DEF NodeRequestRevoked
    <3> QED
      BY <1>a, <1>d, <1>g, <1>4, <2>2, <3>1 DEF NodeRequestRevoked
  <2> QED
    BY <2>1, <2>2
<1>5. ASSUME NEW n \in Nodes, PingReport(n)
      PROVE  Shown(m)'
  <2>1. CASE m = n
    BY <1>a, <1>b, <1>f, <1>5, <2>1 DEF PingReport
  <2>2. CASE m # n
    <3>1. online'[m] = online[m] /\ nodeinfo'[m] = nodeinfo[m]
      BY <1>b, <1>5, <2>2 DEF PingReport
    <3> QED
      BY <1>a, <1>d, <1>g, <1>5, <2>2, <3>1 DEF PingReport
  <2> QED
    BY <2>1, <2>2
<1>6. ASSUME NEW n \in Nodes, UpdateReport(n)
      PROVE  Shown(m)'
  <2>1. CASE m = n
    <3>1. /\ online'[m] # None
          /\ nodeinfo'[m] = None => nodeinfo[m] = None
      BY <1>a, <1>6, <2>1, Revision, SetRow, SetClient, NoneAssumption,
         ConstantsAssumption
      DEF UpdateReport, Rows, Clients, Matches
    <3> DEFINE up == TRUE
    <3>2. up \in BOOLEAN /\ Notify({m}, up, nodeinfo') /\ admin' = admin
      BY <1>6, <2>1 DEF UpdateReport
    <3>3. up <=> online'[m] # None
      BY <1>6, <2>1, <3>1
    <3> HIDE DEF up
    <3> QED
      BY <1>f, <3>1, <3>2, <3>3
  <2>2. CASE m # n
    <3>1. online'[m] = online[m] /\ nodeinfo'[m] = nodeinfo[m]
      BY <1>a, <1>6, <2>2 DEF UpdateReport, Rows, Clients
    <3> QED
      BY <1>a, <1>d, <1>g, <1>6, <2>2, <3>1 DEF UpdateReport
  <2> QED
    BY <2>1, <2>2
<1>7. CASE AdminConnects
  BY <1>c, <1>7 DEF AdminConnects
<1>8. CASE AdminLost
  BY <1>c, <1>8 DEF AdminLost
<1>9. CASE IndexDownload
  <2>1. adminView' = Index'
    BY <1>9 DEF IndexDownload, Redraw, Index
  <2>2. adminView'[m] # None /\ adminView'[m].online => online'[m] # None
    BY <1>i, <2>1 DEF RecordOf
  <2> QED
    BY <1>c, <2>1, <2>2
<1>10. ASSUME NEW n \in Nodes, NEW g \in Groups, ChangeGroup(n, g)
      PROVE  Shown(m)'
  <2>1. CASE m = n
    <3>1. /\ online'[m] # None <=> online[m] # None
          /\ nodeinfo'[m] = None => nodeinfo[m] = None
      BY <1>a, <1>10, <2>1, Revision, SetRow, SetClient, NoneAssumption,
         ConstantsAssumption
      DEF ChangeGroup, Rows, Clients, Matches
    <3> DEFINE up == (online[n] # None)
    <3>2. up \in BOOLEAN /\ Notify({m}, up, nodeinfo') /\ admin' = admin
      BY <1>10, <2>1 DEF ChangeGroup
    <3>3. up <=> online'[m] # None
      BY <1>10, <2>1, <3>1
    <3> HIDE DEF up
    <3> QED
      BY <1>f, <3>1, <3>2, <3>3
  <2>2. CASE m # n
    <3>1. online'[m] = online[m] /\ nodeinfo'[m] = nodeinfo[m]
      BY <1>a, <1>10, <2>2 DEF ChangeGroup, Rows, Clients
    <3> QED
      BY <1>a, <1>d, <1>g, <1>10, <2>2, <3>1 DEF ChangeGroup
  <2> QED
    BY <2>1, <2>2
<1>11. ASSUME NEW n \in Nodes, ForgetNode(n)
      PROVE  Shown(m)'
  <2>1. adminView' = Index'
    BY <1>11 DEF ForgetNode, Redraw, Index
  <2>2. adminView'[m] # None /\ adminView'[m].online => online'[m] # None
    BY <1>i, <2>1 DEF RecordOf
  <2> QED
    BY <1>c, <2>1, <2>2
<1>12. ASSUME NEW t \in Tokens, TokenAdd(t)
      PROVE  Shown(m)'
  BY <1>d, <1>12 DEF TokenAdd
<1>13. ASSUME NEW t \in Tokens, TokenRevoke(t)
      PROVE  Shown(m)'
  BY <1>d, <1>13 DEF TokenRevoke
<1>14. ASSUME NEW t \in Tokens, TokenRevokeKill(t)
      PROVE  Shown(m)'
  <2>1. CASE m \in Users(t)
    <3>1. m \in untold' /\ nodeinfo[m] # None
      BY <1>a, <1>14, <2>1 DEF TokenRevokeKill, Users, Online, Matches
    <3>2. adminView'[m] = RecordOf(FALSE, nodeinfo[m])
      BY <1>14, <2>1, <3>1 DEF TokenRevokeKill
    <3> QED
      BY <1>c, <3>1, <3>2 DEF RecordOf
  <2>2. CASE m \notin Users(t)
    <3>1. online'[m] = online[m] /\ nodeinfo'[m] = nodeinfo[m]
      BY <1>a, <1>b, <1>14, <2>2 DEF TokenRevokeKill, DeleteNodes
    <3> QED
      BY <1>d, <1>14, <2>2, <3>1 DEF TokenRevokeKill
  <2> QED
    BY <2>1, <2>2
<1>15. CASE ServerRestart
  BY <1>c, <1>15 DEF ServerRestart
<1>16. CASE UNCHANGED vars
  BY <1>d, <1>16 DEF vars
<1> QED
  BY <1>1, <1>2, <1>3, <1>4, <1>5, <1>6, <1>7, <1>8, <1>9, <1>10,
     <1>11, <1>12, <1>13, <1>14, <1>15, <1>16
  DEF Next, NodeStep, AdminStep

\* The administrator's list is what the server knows, save for the nodes of
\* revoked tokens, and even of those it shows none as online that is not.
THEOREM ViewCurrent == Spec => [](AdminViewCurrent /\ ShownOnlineIsOnline)
<1>1. Init => \A n \in Nodes : Shown(n)
  BY DEF Init, Shown
<1>2. /\ TypeOK /\ TypeOK' /\ RowMatchesClient /\ RowMatchesClient'
      /\ (\A n \in Nodes : Shown(n)) /\ [Next]_vars
      => (\A n \in Nodes : Shown(n))'
  BY ShownStep
<1>3. (\A n \in Nodes : Shown(n)) => AdminViewCurrent /\ ShownOnlineIsOnline
  BY ShownParts
<1> QED
  BY <1>1, <1>2, <1>3, TypeCorrect, RowsMatch, PTL DEF Spec

\* The administrator is shown no node as online that is not.
THEOREM ShownAreOnline == Spec => []ShownOnlineIsOnline
  BY ViewCurrent, PTL

-----------------------------------------------------------------------------
(* Groups.                                                                 *)

\* What GroupKept says of a step and one node.
Keeps(n) == nodeinfo[n] # None /\ nodeinfo'[n] # None
              => nodeinfo'[n].group = nodeinfo[n].group

LEMMA GroupStep ==
  ASSUME TypeOK, [Next]_vars, NEW m \in Nodes
  PROVE  Keeps(m) \/ \E g \in Groups : ChangeGroup(m, g)
<1> DEFINE Goal == Keeps(m) \/ \E g \in Groups : ChangeGroup(m, g)
<1>a. nodeinfo \in Rows
  BY DEF TypeOK, Rows
<1>b. \A N : DeleteNodes(N) => Keeps(m)
  BY DEF DeleteNodes, Keeps
<1>c. nodeinfo' = nodeinfo => Keeps(m)
  BY DEF Keeps
<1>1. ASSUME NEW n \in Nodes, NEW t \in Tokens, NEW r \in Revisions,
             NodeConnects(n, t, r)
      PROVE  Goal
  BY <1>a, <1>1 DEF NodeConnects, Keeps, Rows
<1>2. ASSUME NEW n \in Nodes, NEW t \in Tokens, NodeRefused(n, t)
      PROVE  Goal
  BY <1>c, <1>2 DEF NodeRefused
<1>3. ASSUME NEW n \in Nodes, NodeLost(n)
      PROVE  Goal
  BY <1>c, <1>3 DEF NodeLost
<1>4. ASSUME NEW n \in Nodes, NodeRequestRevoked(n)
      PROVE  Goal
  BY <1>c, <1>4 DEF NodeRequestRevoked
<1>5. ASSUME NEW n \in Nodes, PingReport(n)
      PROVE  Goal
  BY <1>c, <1>5 DEF PingReport
<1>6. ASSUME NEW n \in Nodes, UpdateReport(n)
      PROVE  Goal
  BY <1>a, <1>6, Revision, SetRow, ConstantsAssumption
  DEF UpdateReport, Keeps, Rows
<1>7. CASE AdminConnects
  BY <1>c, <1>7 DEF AdminConnects
<1>8. CASE AdminLost
  BY <1>c, <1>8 DEF AdminLost
<1>9. CASE IndexDownload
  BY <1>c, <1>9 DEF IndexDownload
<1>10. ASSUME NEW n \in Nodes, NEW g \in Groups, ChangeGroup(n, g)
      PROVE  Goal
  <2>1. CASE m = n
    BY <1>10, <2>1
  <2>2. CASE m # n
    BY <1>a, <1>10, <2>2 DEF ChangeGroup, Keeps, Rows
  <2> QED
    BY <2>1, <2>2
<1>11. ASSUME NEW n \in Nodes, ForgetNode(n)
      PROVE  Goal
  BY <1>b, <1>11 DEF ForgetNode
<1>12. ASSUME NEW t \in Tokens, TokenAdd(t)
      PROVE  Goal
  BY <1>c, <1>12 DEF TokenAdd
<1>13. ASSUME NEW t \in Tokens, TokenRevoke(t)
      PROVE  Goal
  BY <1>c, <1>13 DEF TokenRevoke
<1>14. ASSUME NEW t \in Tokens, TokenRevokeKill(t)
      PROVE  Goal
  BY <1>b, <1>14 DEF TokenRevokeKill
<1>15. CASE ServerRestart
  BY <1>c, <1>15 DEF ServerRestart
<1>16. CASE UNCHANGED vars
  BY <1>c, <1>16 DEF vars
<1> QED
  BY <1>1, <1>2, <1>3, <1>4, <1>5, <1>6, <1>7, <1>8, <1>9, <1>10,
     <1>11, <1>12, <1>13, <1>14, <1>15, <1>16
  DEF Next, NodeStep, AdminStep

\* Only A2S_CHGNODEGROUP changes the group of a node that stays in the table.
THEOREM GroupsKept == Spec => GroupKept
<1>1. TypeOK /\ [Next]_vars =>
        [\A n \in Nodes :
           nodeinfo[n] # None /\ nodeinfo'[n] # None
             /\ nodeinfo'[n].group # nodeinfo[n].group
           => \E g \in Groups : ChangeGroup(n, g)]_vars
  BY GroupStep DEF Keeps
<1> QED
  BY <1>1, TypeCorrect, PTL DEF Spec, GroupKept

\* Client list and table agree, and nobody is shown as online who is not.
THEOREM Safety == Spec => []Safe
<1>1. TypeOK /\ RowMatchesClient /\ ShownOnlineIsOnline => Safe
  BY DEF Safe
<1> QED
  BY <1>1, TypeCorrect, RowsMatch, ShownAreOnline, PTL
=============================================================================
