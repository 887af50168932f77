------------------------------- MODULE Vault -------------------------------
(***************************************************************************)
(* The tables vaultdb, globalconfig and authtokens of the server's         *)
(* database (server/db.cpp), the requests of nodes and of the              *)
(* administrator that read and change them (server/cmdhandling.cpp), and   *)
(* how the database comes to be (server/core.cpp).                         *)
(*                                                                         *)
(* Every function of db.cpp opens the file, runs one statement and closes  *)
(* it, and another process may hold the file: the shell of SQLite, a       *)
(* backup.  A statement then returns SQLITE_BUSY, which the code takes for *)
(* success when it writes and for "no such row" when it reads.  A handler  *)
(* runs alone on the main thread and is one action; f gives the fate of    *)
(* each of its statements.  Arguments of requests have the right types.    *)
(***************************************************************************)
EXTENDS Integers, FiniteSets

CONSTANTS
  Nodes, Admin,        \* clients of the server; Admin is not a node
  Keys, Data,          \* items of the vault and what is stored in them
  Tokens, Grants,      \* authentication tokens, the sets of permissions given
  Settings, Values,    \* table globalconfig
  AdminLogins,         \* the setting that holds the administrator's password
  Empty,               \* a login without name and password
  Groups,
  None

\* The tables have no key in common; None is not a set of keys nor an answer.
ASSUME ConstantsAssumption ==
  /\ Admin \notin Nodes /\ AdminLogins \in Settings
  /\ Keys \cap Tokens = {} /\ Keys \cap Settings = {} /\ Tokens \cap Settings = {}
  /\ \A keys \in (SUBSET Keys) \cup (SUBSET Tokens) : keys # None
  /\ None # "FAILED"

VARIABLES
  up,       \* "off", "making" in InitializeEmptyDB, "on", "dead" by a null pointer
  made,     \* how many tables there are, -1 without a file
  rows,     \* the rows of the three tables, by their key
  client,   \* the token of each connected node
  group,    \* the group of each node
  admin,    \* is a control program connected
  answer,   \* what the last request was answered
  calm,     \* did SQLite do all it was asked in the last step
  acked,    \* history: the row each acknowledged change left; one that met a
            \* busy database is not counted
  author    \* history: who changed an item last

serverVars == <<up, made>>
clientVars == <<client, group, admin>>
historyVars == <<acked, author>>
vars == <<serverVars, rows, clientVars, answer, calm, historyVars>>

Permissions == {"N2NCOMM_ANY", "N2NCOMM_GROUP", "READ_OUR", "READ_ANY",
                "CHG_OUR", "CHG_ANY", "ADD"}
Clients == Nodes \cup {Admin}
Item == [origin : Clients, data : Data]
Rows == Keys \cup Tokens \cup Settings

Fate == {"done", "busy", "error"}
Calm == [i \in 1..4 |-> "done"]
Busy(f) == \E i \in 1..4 : f[i] = "busy"
\* At most one of the statements of a handler goes wrong.
Fates == {Calm} \cup {[Calm EXCEPT ![i] = how] : i \in 1..4, how \in Fate}

-----------------------------------------------------------------------------
(* db.cpp: one statement each.                                             *)

\* Tables are made in the order of DBSchema; a statement on one that is not
\* there cannot be prepared.
Tables == 6
TableOf(r) == IF r \in Settings THEN 3 ELSE IF r \in Keys THEN 4 ELSE 5
Meets(r, fate) == IF made < TableOf(r) THEN "error" ELSE fate

Done(ok, table) == [ok |-> ok, rows |-> table]

\* globalconfig has its values unique as well as its keys.
Clashes(r, row) == r \in Settings /\ \E s \in Settings \ {r} : rows[s] = row

\* A mistake one could make: taking a statement that failed for a good one, as a busy one is.
ChangeUnchecked(r, row, fate) ==
  IF fate = "done" /\ ~Clashes(r, row) THEN Done(TRUE, [rows EXCEPT ![r] = row])
  ELSE Done(TRUE, rows)

\* What a statement that writes returns, and the table behind it.
Change(r, row, fate) ==
  CASE fate = "error" \/ (Clashes(r, row) /\ fate = "done") -> Done(FALSE, rows)
    [] fate = "busy" -> Done(TRUE, rows)
    [] OTHER -> Done(TRUE, [rows EXCEPT ![r] = row])

SaveNew(r, row, fate) ==
  IF rows[r] # None /\ Meets(r, fate) = "done" THEN Done(FALSE, rows)
  ELSE Change(r, row, Meets(r, fate))
UpdateExisting(r, row, fate) ==
  IF rows[r] = None /\ Meets(r, fate) = "done" THEN Done(TRUE, rows)
  ELSE Change(r, row, Meets(r, fate))
Drop(r, fate) ==
  CASE Meets(r, fate) = "error" -> Done(FALSE, rows)
    [] Meets(r, fate) = "busy" -> Done(TRUE, rows)
    [] OTHER -> Done(TRUE, [rows EXCEPT ![r] = None])
Find(r, fate) == IF Meets(r, fate) = "done" THEN rows[r] ELSE None

SaveNewVaultDBEntry(k, row, fate) == SaveNew(k, row, fate)
UpdateExistingVaultDBEntry(k, row, fate) == UpdateExisting(k, row, fate)
DeleteVaultDBEntry(k, fate) == Drop(k, fate)
LookupVaultDBEntry(k, fate) == Find(k, fate)
UpdateVaultDB(k, row, look, write) ==
  IF LookupVaultDBEntry(k, look) # None THEN UpdateExistingVaultDBEntry(k, row, write)
  ELSE SaveNewVaultDBEntry(k, row, write)
GetVaultItemsInfo(fate) ==
  IF made < 4 \/ fate # "done" THEN None ELSE {k \in Keys : rows[k] # None}

SaveNewAuthTokensDBEntry(t, row, fate) == SaveNew(t, row, fate)
UpdateExistingAuthTokensDBEntry(t, row, fate) == UpdateExisting(t, row, fate)
DeleteAuthToken(t, fate) == Drop(t, fate)
LookupAuthToken(t, fate) == Find(t, fate)
UpdateAuthTokensDB(t, row, look, write) ==
  IF LookupAuthToken(t, look) # None THEN UpdateExistingAuthTokensDBEntry(t, row, write)
  ELSE SaveNewAuthTokensDBEntry(t, row, write)
GetAllAuthTokens(fate) ==
  IF made < 5 \/ fate # "done" THEN None ELSE {t \in Tokens : rows[t] # None}

SaveNewGlobalConfigDBEntry(s, row, fate) == SaveNew(s, row, fate)
UpdateExistingGlobalConfigDBEntry(s, row, fate) == UpdateExisting(s, row, fate)
DeleteGlobalConfigEntry(s, fate) == Drop(s, fate)
LookupGlobalConfigDBEntry(s, fate) == Find(s, fate)
UpdateGlobalConfigDB(s, row, look, write) ==
  IF LookupGlobalConfigDBEntry(s, look) # None
  THEN UpdateExistingGlobalConfigDBEntry(s, row, write)
  ELSE SaveNewGlobalConfigDBEntry(s, row, write)

-----------------------------------------------------------------------------
(* How a request is taken up and answered.                                 *)

Serving(s) == up = "on" /\ IF s = Admin THEN admin ELSE client[s] # None

\* HandleRequest looks the permissions of a node up; the administrator has all.
Granted(s, fate) ==
  IF s = Admin THEN Permissions ELSE LookupAuthToken(client[s], fate)

May(s, grant, row, our, any) ==
  s = Admin \/ (row.origin = s /\ our \in grant) \/ any \in grant

Told(f) == calm' = (f = Calm /\ made = Tables)
Status(ok) == IF ok THEN "OK" ELSE "FAILED"

Unchanged == UNCHANGED <<serverVars, rows, clientVars, historyVars>>
Reply(status, f) == answer' = status /\ Told(f) /\ Unchanged

\* The answer to a change of row r to new, by client s.
Changed(s, r, new, result, f) ==
  /\ rows' = result.rows
  /\ answer' = Status(result.ok)
  /\ Told(f)
  /\ acked' = IF Busy(f) THEN [acked EXCEPT ![r] = result.rows[r]]
              ELSE IF result.ok THEN [acked EXCEPT ![r] = new] ELSE acked
  /\ author' = IF r \in Keys /\ (result.rows # rows \/ (result.ok /\ ~Busy(f)))
               THEN [author EXCEPT ![r] = s] ELSE author
  /\ UNCHANGED <<serverVars, clientVars>>

Quiet(f) == Told(f) /\ UNCHANGED <<rows, answer, historyVars>>

\* A null pointer is used, and the process ends.
Die(f) ==
  /\ up' = "dead" /\ client' = [n \in Nodes |-> None] /\ admin' = FALSE
  /\ Told(f)
  /\ UNCHANGED <<made, rows, group, answer, historyVars>>

\* Without a row for its token a node that asks for anything is disconnected.
Revoked(n, f) ==
  /\ Serving(n) /\ n \in Nodes /\ Granted(n, f[1]) = None
  /\ client' = [client EXCEPT ![n] = None]
  /\ Told(f)
  /\ UNCHANGED <<serverVars, rows, group, admin, answer, historyVars>>

Asks(s, f) == Serving(s) /\ Granted(s, f[1]) # None

-----------------------------------------------------------------------------
(* Mistakes one could make in this code, named in PROJECT.json "mutants".  *)

\* Adding over an item that is there.
VaultAddOver(s, k, d, f) ==
  /\ Asks(s, f)
  /\ IF "ADD" \notin Granted(s, f[1])
     THEN Reply("FAILED", f)
     ELSE LET new == [origin |-> s, data |-> d]
          IN  Changed(s, k, new, UpdateVaultDB(k, new, f[3], f[4]), f)

-----------------------------------------------------------------------------
(* The vault.                                                              *)

\* B2S_VAULT_ADD.
VaultAdd(s, k, d, f) ==
  /\ Asks(s, f)
  /\ IF LookupVaultDBEntry(k, f[2]) # None \/ "ADD" \notin Granted(s, f[1])
     THEN Reply("FAILED", f)
     ELSE LET new == [origin |-> s, data |-> d]
          IN  Changed(s, k, new, UpdateVaultDB(k, new, f[3], f[4]), f)

\* Why a request is refused, or None: row is the item as it was found.
FetchRefusal(s, grant, row) ==
  IF row # None /\ May(s, grant, row, "READ_OUR", "READ_ANY") THEN None ELSE "FAILED"
UpdateRefusal(s, grant, row) ==
  IF row # None /\ May(s, grant, row, "CHG_OUR", "CHG_ANY") THEN None ELSE "FAILED"
DropRefusal(s, grant, row) ==
  IF row # None /\ May(s, grant, row, "CHG_OUR", "CHG_ANY") THEN None ELSE "FAILED"

\* B2S_VAULT_FETCH looks the owner up and then the item, which is not expected
\* to be gone by then.
VaultFetch(s, k, f) ==
  LET refusal == FetchRefusal(s, Granted(s, f[1]), LookupVaultDBEntry(k, f[2]))
      item == LookupVaultDBEntry(k, f[3])
  IN /\ Asks(s, f)
     /\ IF refusal # None THEN Reply(refusal, f)
        ELSE IF item = None THEN Die(f)
        ELSE Reply("FILE", f)

\* B2S_VAULT_UPDATE: the item is its writer's from then on.
VaultUpdate(s, k, d, f) ==
  LET refusal == UpdateRefusal(s, Granted(s, f[1]), LookupVaultDBEntry(k, f[2]))
      new == [origin |-> s, data |-> d]
  IN /\ Asks(s, f)
     /\ IF refusal # None THEN Reply(refusal, f)
        ELSE Changed(s, k, new, UpdateVaultDB(k, new, f[3], f[4]), f)

\* B2S_VAULT_DROP.
VaultDrop(s, k, f) ==
  LET refusal == DropRefusal(s, Granted(s, f[1]), LookupVaultDBEntry(k, f[2]))
  IN /\ Asks(s, f)
     /\ IF refusal # None THEN Reply(refusal, f)
        ELSE Changed(s, k, None, DeleteVaultDBEntry(k, f[3]), f)

\* A2S_VAULT_LIST and A2S_AUTHTOKEN_LIST count what they got, null or not.
VaultList(f) ==
  /\ Serving(Admin)
  /\ IF GetVaultItemsInfo(f[1]) = None THEN Die(f) ELSE Reply("TEXT", f)
TokenList(f) ==
  /\ Serving(Admin)
  /\ IF GetAllAuthTokens(f[1]) = None THEN Die(f) ELSE Reply("TEXT", f)

-----------------------------------------------------------------------------
(* Tokens and settings.                                                    *)

\* A2S_AUTHTOKEN_ADD.
TokenAdd(t, grant, f) ==
  /\ Serving(Admin)
  /\ IF LookupAuthToken(t, f[1]) # None THEN Reply("FAILED", f)
     ELSE Changed(Admin, t, grant, UpdateAuthTokensDB(t, grant, f[2], f[3]), f)

\* A2S_AUTHTOKEN_CHG.
TokenChange(t, grant, f) ==
  /\ Serving(Admin)
  /\ IF LookupAuthToken(t, f[1]) = None THEN Reply("MISSING", f)
     ELSE Changed(Admin, t, grant, UpdateAuthTokensDB(t, grant, f[2], f[3]), f)

\* A2S_AUTHTOKEN_REVOKE; what becomes of the nodes that use it is in Registry.
TokenRevoke(t, f) ==
  Serving(Admin) /\ Changed(Admin, t, None, DeleteAuthToken(t, f[1]), f)

\* A2S_AUTHTOKEN_USEDBY: the nodes that use a token, revoked or not.
TokenUsedBy(t, f) ==
  /\ Serving(Admin)
  /\ Reply(IF LookupAuthToken(t, f[1]) = None
           THEN IF \E n \in Nodes : client[n] = t THEN "REVOKED" ELSE "MISSING"
           ELSE "TEXT", f)

\* A2S_GETSCONFIG, A2S_SETSCONFIG and A2S_DROPCONFIG.
ConfigGet(s, f) ==
  /\ Serving(Admin)
  /\ Reply(IF LookupGlobalConfigDBEntry(s, f[1]) = None THEN "MISSING" ELSE "TEXT", f)
ConfigSet(s, v, f) ==
  Serving(Admin) /\ Changed(Admin, s, v, UpdateGlobalConfigDB(s, v, f[1], f[2]), f)
ConfigDrop(s, f) ==
  Serving(Admin) /\ Changed(Admin, s, None, DeleteGlobalConfigEntry(s, f[1]), f)

-----------------------------------------------------------------------------
(* Clients come and go.                                                    *)

\* ValidServerAdminLogin: without the setting only the empty login is let in,
\* and any other is compared with the value of a row that is not there.
AdminConnects(login, f) ==
  LET valid == LookupGlobalConfigDBEntry(AdminLogins, f[1])
  IN /\ up = "on"
     /\ IF valid = None /\ login # Empty THEN Die(f)
        ELSE /\ admin' = (admin \/ valid = None \/ login = valid)
             /\ UNCHANGED <<serverVars, client, group>> /\ Quiet(f)

\* AcceptClient_Auth for a node.
NodeConnects(n, t, f) ==
  /\ up = "on" /\ client[n] = None /\ LookupAuthToken(t, f[1]) # None
  /\ client' = [client EXCEPT ![n] = t]
  /\ UNCHANGED <<serverVars, group, admin>> /\ Quiet(f)

\* A connection is lost, a node asks to be disconnected, or asks for something
\* that only the administrator may.
Disconnects(s) ==
  /\ Serving(s)
  /\ IF s = Admin THEN admin' = FALSE /\ UNCHANGED client
     ELSE client' = [client EXCEPT ![s] = None] /\ UNCHANGED admin
  /\ UNCHANGED <<serverVars, group>> /\ Quiet(Calm)

\* HandleN2N forwards between nodes that both have the permission for any node,
\* or both that for their group and the same group.
Permitted(a, b, ours, theirs) ==
  \/ "N2NCOMM_ANY" \in ours \cap theirs
  \/ "N2NCOMM_GROUP" \in ours \cap theirs /\ group[a] = group[b]

HandleN2N(a, b, f) ==
  LET ours == LookupAuthToken(client[a], f[1])
      theirs == LookupAuthToken(client[b], f[2])
  IN /\ Serving(a) /\ Serving(b)
     /\ ours # None /\ theirs # None
     /\ Permitted(a, b, ours, theirs)
     /\ Reply("N2N", f)

-----------------------------------------------------------------------------
(* The server starts and stops.                                            *)

\* main() makes a database when there is no file, and only then.
Start ==
  /\ up \in {"off", "dead"}
  /\ IF made = -1 THEN up' = "making" /\ made' = 0 ELSE up' = "on" /\ UNCHANGED made
  /\ UNCHANGED clientVars /\ Quiet(Calm)

\* InitDBSub for the next table; exit(1) when it fails.
Make(ok) ==
  /\ up = "making"
  /\ made' = IF ok THEN made + 1 ELSE made
  /\ up' = IF ~ok THEN "off" ELSE IF made' = Tables THEN "on" ELSE "making"
  /\ UNCHANGED clientVars /\ Quiet(Calm)

\* The process is killed, or the machine stops.
Stop ==
  /\ up \in {"making", "on"}
  /\ up' = "off" /\ client' = [n \in Nodes |-> None] /\ admin' = FALSE
  /\ UNCHANGED <<made, group>> /\ Quiet(Calm)

Init ==
  /\ up = "off" /\ made = -1
  /\ rows = [r \in Rows |-> None]
  /\ client = [n \in Nodes |-> None]
  /\ group \in [Nodes -> Groups]
  /\ admin = FALSE
  /\ answer = "OK"
  /\ calm = TRUE
  /\ acked = rows /\ author = [k \in Keys |-> None]

VaultStep(f) ==
  \E s \in Clients, k \in Keys :
    \/ \E d \in Data : VaultAdd(s, k, d, f) \/ VaultUpdate(s, k, d, f)
    \/ VaultFetch(s, k, f) \/ VaultDrop(s, k, f)

AdminStep(f) ==
  \/ VaultList(f) \/ TokenList(f)
  \/ \E t \in Tokens :
       \/ \E g \in Grants : TokenAdd(t, g, f) \/ TokenChange(t, g, f)
       \/ TokenRevoke(t, f) \/ TokenUsedBy(t, f)
  \/ \E s \in Settings :
       \/ \E v \in Values : ConfigSet(s, v, f)
       \/ ConfigGet(s, f) \/ ConfigDrop(s, f)
  \/ \E login \in Values \cup {Empty} : AdminConnects(login, f)

NodeStep(f) ==
  \E n \in Nodes :
    \/ \E t \in Tokens : NodeConnects(n, t, f)
    \/ Revoked(n, f)
    \/ \E b \in Nodes : HandleN2N(n, b, f)

Next ==
  \/ \E f \in Fates : VaultStep(f) \/ AdminStep(f) \/ NodeStep(f)
  \/ \E s \in Clients : Disconnects(s)
  \/ Start \/ Stop
  \/ \E ok \in BOOLEAN : Make(ok)

Spec == Init /\ [][Next]_vars

-----------------------------------------------------------------------------
TypeOK ==
  /\ up \in {"off", "making", "on", "dead"} /\ made \in -1..Tables
  /\ up = "making" => made \in 0..(Tables - 1)
  /\ \A k \in Keys : rows[k] \in Item \cup {None}
  /\ \A t \in Tokens : rows[t] \in Grants \cup {None}
  /\ \A s \in Settings : rows[s] \in Values \cup {None}
  /\ client \in [Nodes -> Tokens \cup {None}] /\ group \in [Nodes -> Groups]
  /\ admin \in BOOLEAN /\ calm \in BOOLEAN
  /\ answer \in {"OK", "FAILED", "MISSING", "REVOKED", "FILE", "TEXT", "N2N"}

\* What the server has acknowledged is in its tables, and what it has refused
\* has changed nothing: vault, tokens and settings alike, over restarts, half a
\* database and statements that fail.  Only a change that met a busy database
\* is excepted, since db.cpp takes SQLITE_BUSY for success.
AckedIsStored == \A r \in Rows : rows[r] = acked[r]

\* An item belongs to the client whose contents it has: what a node may read
\* and change as its own is what it wrote last (OriginNode).
OriginIsAuthor ==
  \A k \in Keys : rows[k] # None => rows[k].origin = author[k]

\* Nobody's item is changed or taken over but by the administrator or a node
\* that has the permission at that moment, as long as the database answers: ADD
\* never replaces an item.
OthersKept ==
  [][\A k \in Keys :
       calm' /\ rows[k] # None /\ rows'[k] # rows[k]
         => LET s == author'[k]
            IN  s = Admin \/ May(s, rows[client[s]], rows[k], "CHG_OUR", "CHG_ANY")]_vars

\* While the database answers, no request stops the server; a login with a name
\* does when no logins are set.
OnlyLoginKills == up = "dead" /\ calm => rows[AdminLogins] = None

\* What holds between any two requests, with any of them failing, and over
\* restarts: what is acknowledged is stored, an item has the owner of its
\* contents, and only a login stops a server whose database answers.
Safe == TypeOK /\ AckedIsStored /\ OriginIsAuthor /\ OnlyLoginKills

\* "Failed to create and initialize database file ... Cannot continue.": a
\* server that runs has all its tables.  It does not hold: see README, "Seen
\* while reading".
HasAllTables == up = "on" => made = Tables
=============================================================================
