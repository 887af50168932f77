---------------------------- MODULE Vault_proofs ----------------------------
(***************************************************************************)
(* Proofs about Vault: for any clients, items, tokens, settings and sets   *)
(* of permissions, and any run of statements that fail or are busy.        *)
(***************************************************************************)
EXTENDS Vault, TLAPS

USE DEF serverVars, clientVars, historyVars

\* Tables are functions.
IsTable(f, S) == f = [x \in S |-> f[x]]
Tables3 == IsTable(rows, Rows) /\ IsTable(acked, Rows) /\ IsTable(author, Keys)

Inv == Safe /\ Tables3

-----------------------------------------------------------------------------
(* What the statements return.                                             *)

\* A change of row r to new that says what it did, unless it met a busy
\* database.
Honest(result, r, new, f) ==
  /\ result.ok \in BOOLEAN
  /\ result.rows \in {rows, [rows EXCEPT ![r] = new]}
  /\ ~Busy(f) => result.rows = IF result.ok THEN [rows EXCEPT ![r] = new] ELSE rows

\* The function Update...DB, the same for all three tables.
UpdateDB(r, new, look, write) ==
  IF Find(r, look) # None THEN UpdateExisting(r, new, write) ELSE SaveNew(r, new, write)

\* The fates of a handler's statements.
LEMMA FateTypes == \A f \in Fates, i \in 1..4 : f[i] \in Fate
<1> SUFFICES ASSUME NEW f \in Fates, NEW i \in 1..4 PROVE f[i] \in Fate
  OBVIOUS
<1>1. Calm \in [1..4 -> Fate]
  BY DEF Calm, Fate
<1>2. f \in [1..4 -> Fate]
  BY <1>1 DEF Fates
<1> QED BY <1>2

LEMMA ChangeHonest ==
  ASSUME NEW r, NEW new, NEW f \in Fates, NEW j \in 1..4
  PROVE  Honest(Change(r, new, Meets(r, f[j])), r, new, f)
<1>1. f[j] = "busy" => Busy(f)
  BY DEF Busy
<1>2. f[j] \in {"done", "busy", "error"}
  BY FateTypes DEF Fate
<1>3. Meets(r, f[j]) \in {f[j], "error"}
  BY DEF Meets
<1>4. CASE Meets(r, f[j]) = "error" \/ (Clashes(r, new) /\ Meets(r, f[j]) = "done")
  <2>1. Change(r, new, Meets(r, f[j])) = Done(FALSE, rows)
    BY <1>4 DEF Change
  <2> QED BY <2>1 DEF Honest, Done
<1>5. CASE Meets(r, f[j]) = "busy"
  <2>1. Change(r, new, Meets(r, f[j])) = Done(TRUE, rows)
    BY <1>5 DEF Change
  <2> QED BY <2>1, <1>1, <1>3, <1>5 DEF Honest, Done
<1>6. CASE Meets(r, f[j]) = "done" /\ ~Clashes(r, new)
  <2>1. Change(r, new, Meets(r, f[j])) = Done(TRUE, [rows EXCEPT ![r] = new])
    BY <1>6 DEF Change
  <2> QED BY <2>1 DEF Honest, Done
<1> QED BY <1>2, <1>3, <1>4, <1>5, <1>6

\* Of a row that a busy database hides, UpdateDB tries to make a second one,
\* which the table refuses.
LEMMA UpdateHonest ==
  ASSUME NEW r, NEW new, NEW f \in Fates, NEW i \in 1..4, NEW j \in 1..4
  PROVE  Honest(UpdateDB(r, new, f[i], f[j]), r, new, f)
<1>1. CASE Find(r, f[i]) # None
  <2>1. rows[r] # None
    BY <1>1 DEF Find
  <2>2. UpdateDB(r, new, f[i], f[j]) = Change(r, new, Meets(r, f[j]))
    BY <1>1, <2>1 DEF UpdateDB, UpdateExisting
  <2> QED BY <2>2, ChangeHonest
<1>2. CASE Find(r, f[i]) = None /\ rows[r] # None /\ Meets(r, f[j]) = "done"
  <2>1. UpdateDB(r, new, f[i], f[j]) = Done(FALSE, rows)
    BY <1>2 DEF UpdateDB, SaveNew
  <2> QED BY <2>1 DEF Honest, Done
<1>3. CASE Find(r, f[i]) = None /\ ~(rows[r] # None /\ Meets(r, f[j]) = "done")
  <2>1. UpdateDB(r, new, f[i], f[j]) = Change(r, new, Meets(r, f[j]))
    BY <1>3 DEF UpdateDB, SaveNew
  <2> QED BY <2>1, ChangeHonest
<1> QED BY <1>1, <1>2, <1>3

LEMMA DropHonest ==
  ASSUME NEW r, NEW f \in Fates, NEW j \in 1..4
  PROVE  Honest(Drop(r, f[j]), r, None, f)
<1>1. f[j] = "busy" => Busy(f)
  BY DEF Busy
<1>2. Meets(r, f[j]) = "busy" => f[j] = "busy"
  BY DEF Meets
<1>3. CASE Meets(r, f[j]) = "error"
  BY <1>3 DEF Drop, Honest, Done
<1>4. CASE Meets(r, f[j]) = "busy"
  BY <1>1, <1>2, <1>4 DEF Drop, Honest, Done
<1>5. CASE Meets(r, f[j]) \notin {"error", "busy"}
  BY <1>5 DEF Drop, Honest, Done
<1> QED BY <1>3, <1>4, <1>5

\* In a calm step every lookup finds the row that is there.
LEMMA CalmFinds ==
  ASSUME NEW f, NEW r \in Rows, NEW i \in 1..4, f = Calm, made = Tables
  PROVE  Find(r, f[i]) = rows[r]
<1>1. f[i] = "done"
  BY DEF Calm
<1>2. TableOf(r) \in {3, 4, 5}
  BY DEF TableOf
<1>3. Meets(r, f[i]) = "done"
  BY <1>1, <1>2 DEF Meets, Tables
<1> QED BY <1>3 DEF Find

-----------------------------------------------------------------------------
(* The steps.                                                              *)

\* What may be written to row r by client s.
Fits(s, r, new) ==
  /\ r \in Keys => new = None \/ (new \in Item /\ new.origin = s)
  /\ r \in Tokens => new \in Grants \cup {None}
  /\ r \in Settings => new \in Values \cup {None}

\* An answered change keeps all of it.
LEMMA ChangedKeeps ==
  ASSUME Inv, NEW s \in Clients, NEW r \in Rows, NEW new, NEW result,
         NEW f \in Fates, up = "on",
         Fits(s, r, new), Honest(result, r, new, f), Changed(s, r, new, result, f)
  PROVE  Inv'
<1>1. rows' = rows \/ rows' = [rows EXCEPT ![r] = new]
  BY DEF Changed, Honest
<1>2. IsTable(rows, Rows) /\ IsTable(acked, Rows) /\ IsTable(author, Keys)
  BY DEF Inv, Tables3
<1>3. Rows = Keys \cup Tokens \cup Settings
  BY DEF Rows
<1>4. Tables3'
  <2>1. IsTable(rows', Rows)
    BY <1>1, <1>2 DEF IsTable
  <2>2. IsTable(acked', Rows)
    BY <1>2 DEF Changed, IsTable
  <2>3. IsTable(author', Keys)
    BY <1>2 DEF Changed, IsTable
  <2> QED BY <2>1, <2>2, <2>3 DEF Tables3
<1>5. TypeOK'
  <2>1. \A q \in Rows : rows'[q] = rows[q] \/ (q = r /\ rows'[q] = new)
    BY <1>1, <1>2 DEF IsTable
  <2>2. \A k \in Keys : rows'[k] \in Item \cup {None}
    BY <2>1, <1>3 DEF Inv, Safe, TypeOK, Fits
  <2>3. \A t \in Tokens : rows'[t] \in Grants \cup {None}
    BY <2>1, <1>3 DEF Inv, Safe, TypeOK, Fits
  <2>4. \A q \in Settings : rows'[q] \in Values \cup {None}
    BY <2>1, <1>3 DEF Inv, Safe, TypeOK, Fits
  <2>5. answer' \in {"OK", "FAILED"} /\ calm' \in BOOLEAN
    BY DEF Changed, Status, Told
  <2> QED BY <2>2, <2>3, <2>4, <2>5 DEF Inv, Safe, TypeOK, Changed
<1>6. AckedIsStored'
  <2> SUFFICES ASSUME NEW q \in Rows PROVE rows'[q] = acked'[q]
    BY DEF AckedIsStored
  <2>1. rows[q] = acked[q]
    BY DEF Inv, Safe, AckedIsStored
  <2>2. CASE q # r
    BY <1>1, <1>2, <2>1, <2>2 DEF Changed, IsTable
  <2>3. CASE q = r /\ Busy(f)
    BY <1>2, <2>3 DEF Changed, IsTable
  <2>4. CASE q = r /\ ~Busy(f)
    BY <1>2, <2>1, <2>4 DEF Changed, Honest, IsTable
  <2> QED BY <2>2, <2>3, <2>4
<1>7. OriginIsAuthor'
  <2> SUFFICES ASSUME NEW k \in Keys, rows'[k] # None PROVE rows'[k].origin = author'[k]
    BY DEF OriginIsAuthor
  <2>1. rows[k] # None => rows[k].origin = author[k]
    BY DEF Inv, Safe, OriginIsAuthor
  <2>2. CASE k # r
    BY <1>1, <1>2, <1>3, <2>1, <2>2 DEF Changed, IsTable
  <2>3. CASE k = r /\ rows' # rows
    BY <1>1, <1>2, <1>3, <2>3 DEF Changed, IsTable, Fits
  <2>4. CASE k = r /\ rows' = rows /\ ~(result.ok /\ ~Busy(f))
    BY <1>2, <2>1, <2>4 DEF Changed, IsTable
  <2>5. CASE k = r /\ result.ok /\ ~Busy(f)
    <3>1. rows'[k] = new /\ author'[k] = s
      BY <1>2, <1>3, <2>5 DEF Changed, Honest, IsTable
    <3> QED BY <3>1, <2>5 DEF Fits
  <2> QED BY <2>2, <2>3, <2>4, <2>5
<1>8. OnlyLoginKills'
  BY DEF Changed, OnlyLoginKills
<1> QED BY <1>4, <1>5, <1>6, <1>7, <1>8 DEF Inv, Safe

\* A step that writes nothing keeps the tables and their history.
LEMMA QuietKeeps ==
  ASSUME Inv, UNCHANGED <<rows, acked, author>>, TypeOK', OnlyLoginKills'
  PROVE  Inv'
BY DEF Inv, Safe, Tables3, AckedIsStored, OriginIsAuthor

\* An answer changes nothing else.
LEMMA ReplyKeeps ==
  ASSUME Inv, NEW status \in {"OK", "FAILED", "MISSING", "REVOKED", "FILE", "TEXT", "N2N"},
         NEW f, up = "on", Reply(status, f)
  PROVE  Inv'
<1>1. TypeOK'
  BY DEF Inv, Safe, TypeOK, Reply, Told, Unchanged
<1>2. OnlyLoginKills'
  BY DEF Reply, Unchanged, OnlyLoginKills
<1> QED BY <1>1, <1>2, QuietKeeps DEF Reply, Unchanged

\* The server dies in a calm step only when there is no administrator's login.
LEMMA DieKeeps ==
  ASSUME Inv, NEW f, Die(f),
         f = Calm /\ made = Tables => rows[AdminLogins] = None
  PROVE  Inv'
<1>1. TypeOK'
  BY DEF Inv, Safe, TypeOK, Die, Told
<1>2. OnlyLoginKills'
  BY DEF Die, Told, OnlyLoginKills
<1> QED BY <1>1, <1>2, QuietKeeps DEF Die

LEMMA VaultKeeps ==
  ASSUME Inv, NEW f \in Fates, VaultStep(f)
  PROVE  Inv'
<1>1. PICK s \in Clients, k \in Keys :
        \/ \E d \in Data : VaultAdd(s, k, d, f) \/ VaultUpdate(s, k, d, f)
        \/ VaultFetch(s, k, f) \/ VaultDrop(s, k, f)
  BY DEF VaultStep
<1>2. up = "on" /\ k \in Rows
  BY <1>1 DEF VaultAdd, VaultUpdate, VaultFetch, VaultDrop, Asks, Serving, Rows
<1>3. ASSUME NEW d \in Data,
             Changed(s, k, [origin |-> s, data |-> d],
                     UpdateVaultDB(k, [origin |-> s, data |-> d], f[3], f[4]), f)
      PROVE  Inv'
  <2> DEFINE new == [origin |-> s, data |-> d]
  <2>1. UpdateVaultDB(k, new, f[3], f[4]) = UpdateDB(k, new, f[3], f[4])
    BY DEF UpdateVaultDB, UpdateDB, LookupVaultDBEntry, UpdateExistingVaultDBEntry,
           SaveNewVaultDBEntry
  <2>2. Honest(UpdateVaultDB(k, new, f[3], f[4]), k, new, f)
    BY <2>1, UpdateHonest
  <2>3. Fits(s, k, new)
    BY ConstantsAssumption DEF Fits, Item
  <2> QED BY <1>2, <1>3, <2>2, <2>3, ChangedKeeps
<1>4. CASE \E d \in Data : VaultAdd(s, k, d, f)
  <2>1. PICK d \in Data : VaultAdd(s, k, d, f)
    BY <1>4
  <2> QED BY <2>1, <1>2, <1>3, ReplyKeeps DEF VaultAdd
<1>5. CASE \E d \in Data : VaultUpdate(s, k, d, f)
  <2>1. PICK d \in Data : VaultUpdate(s, k, d, f)
    BY <1>5
  <2>2. UpdateRefusal(s, Granted(s, f[1]), LookupVaultDBEntry(k, f[2])) \in {None, "FAILED"}
    BY DEF UpdateRefusal
  <2> QED BY <2>1, <2>2, <1>2, <1>3, ReplyKeeps DEF VaultUpdate
<1>6. CASE VaultFetch(s, k, f)
  <2>1. FetchRefusal(s, Granted(s, f[1]), LookupVaultDBEntry(k, f[2])) \in {None, "FAILED"}
    BY DEF FetchRefusal
  <2>2. CASE FetchRefusal(s, Granted(s, f[1]), LookupVaultDBEntry(k, f[2])) # None
    BY <1>2, <1>6, <2>1, <2>2, ReplyKeeps DEF VaultFetch
  <2>3. CASE /\ FetchRefusal(s, Granted(s, f[1]), LookupVaultDBEntry(k, f[2])) = None
             /\ LookupVaultDBEntry(k, f[3]) # None
    BY <1>2, <1>6, <2>3, ReplyKeeps DEF VaultFetch
  <2>4. CASE /\ FetchRefusal(s, Granted(s, f[1]), LookupVaultDBEntry(k, f[2])) = None
             /\ LookupVaultDBEntry(k, f[3]) = None
    <3>1. Die(f)
      BY <1>6, <2>4 DEF VaultFetch
    <3>2. ~(f = Calm /\ made = Tables)
      <4> SUFFICES ASSUME f = Calm, made = Tables PROVE FALSE
        OBVIOUS
      <4>1. Find(k, f[2]) = rows[k] /\ Find(k, f[3]) = rows[k]
        BY <1>2, CalmFinds
      <4> QED BY <4>1, <2>4, ConstantsAssumption DEF LookupVaultDBEntry, FetchRefusal
    <3> QED BY <3>1, <3>2, DieKeeps
  <2> QED BY <2>2, <2>3, <2>4
<1>7. CASE VaultDrop(s, k, f)
  <2>1. DropRefusal(s, Granted(s, f[1]), LookupVaultDBEntry(k, f[2])) \in {None, "FAILED"}
    BY DEF DropRefusal
  <2>2. CASE DropRefusal(s, Granted(s, f[1]), LookupVaultDBEntry(k, f[2])) # None
    BY <1>2, <1>7, <2>1, <2>2, ReplyKeeps DEF VaultDrop
  <2>3. CASE DropRefusal(s, Granted(s, f[1]), LookupVaultDBEntry(k, f[2])) = None
    <3>1. Changed(s, k, None, Drop(k, f[3]), f)
      BY <1>7, <2>3 DEF VaultDrop, DeleteVaultDBEntry
    <3>2. Fits(s, k, None)
      BY DEF Fits
    <3>3. Honest(Drop(k, f[3]), k, None, f)
      BY DropHonest
    <3> QED BY <1>2, <3>1, <3>2, <3>3, ChangedKeeps
  <2> QED BY <2>2, <2>3
<1> QED BY <1>1, <1>4, <1>5, <1>6, <1>7

\* A change of a token or a setting by the administrator.
LEMMA AdminChangeKeeps ==
  ASSUME Inv, NEW r \in Tokens \cup Settings, NEW new, NEW result, NEW f \in Fates,
         up = "on", Changed(Admin, r, new, result, f), Honest(result, r, new, f),
         r \in Tokens => new \in Grants \cup {None},
         r \in Settings => new \in Values \cup {None}
  PROVE  Inv'
<1>1. Fits(Admin, r, new)
  BY ConstantsAssumption DEF Fits
<1>2. Admin \in Clients /\ r \in Rows
  BY DEF Clients, Rows
<1> QED BY <1>1, <1>2, ChangedKeeps

LEMMA TokenKeeps ==
  ASSUME Inv, NEW f \in Fates, NEW t \in Tokens,
         \/ \E g \in Grants : TokenAdd(t, g, f) \/ TokenChange(t, g, f)
         \/ TokenRevoke(t, f) \/ TokenUsedBy(t, f)
  PROVE  Inv'
<1>1. up = "on"
  BY DEF TokenAdd, TokenChange, TokenRevoke, TokenUsedBy, Serving
<1>2. ASSUME NEW g \in Grants,
             Changed(Admin, t, g, UpdateAuthTokensDB(t, g, f[2], f[3]), f)
      PROVE  Inv'
  <2>1. UpdateAuthTokensDB(t, g, f[2], f[3]) = UpdateDB(t, g, f[2], f[3])
    BY DEF UpdateAuthTokensDB, UpdateDB, LookupAuthToken, UpdateExistingAuthTokensDBEntry,
           SaveNewAuthTokensDBEntry
  <2>2. Honest(UpdateAuthTokensDB(t, g, f[2], f[3]), t, g, f)
    BY <2>1, UpdateHonest
  <2>3. t \in Tokens \cup Settings /\ t \notin Settings
    BY ConstantsAssumption
  <2> QED BY <1>1, <1>2, <2>2, <2>3, AdminChangeKeeps
<1>3. CASE \E g \in Grants : TokenAdd(t, g, f)
  BY <1>1, <1>2, <1>3, ReplyKeeps DEF TokenAdd
<1>4. CASE \E g \in Grants : TokenChange(t, g, f)
  BY <1>1, <1>2, <1>4, ReplyKeeps DEF TokenChange
<1>5. CASE TokenRevoke(t, f)
  <2>1. Changed(Admin, t, None, Drop(t, f[1]), f)
    BY <1>5 DEF TokenRevoke, DeleteAuthToken
  <2>2. Honest(Drop(t, f[1]), t, None, f)
    BY DropHonest
  <2>3. t \in Tokens \cup Settings
    OBVIOUS
  <2> QED BY <1>1, <2>1, <2>2, <2>3, AdminChangeKeeps
<1>6. CASE TokenUsedBy(t, f)
  BY <1>1, <1>6, ReplyKeeps DEF TokenUsedBy
<1> QED BY <1>3, <1>4, <1>5, <1>6

LEMMA ConfigKeeps ==
  ASSUME Inv, NEW f \in Fates, NEW q \in Settings,
         \/ \E v \in Values : ConfigSet(q, v, f)
         \/ ConfigGet(q, f) \/ ConfigDrop(q, f)
  PROVE  Inv'
<1>1. up = "on"
  BY DEF ConfigSet, ConfigGet, ConfigDrop, Serving
<1>2. q \in Tokens \cup Settings /\ q \notin Tokens
  BY ConstantsAssumption
<1>3. CASE \E v \in Values : ConfigSet(q, v, f)
  <2>1. PICK v \in Values : Changed(Admin, q, v, UpdateGlobalConfigDB(q, v, f[1], f[2]), f)
    BY <1>3 DEF ConfigSet
  <2>2. UpdateGlobalConfigDB(q, v, f[1], f[2]) = UpdateDB(q, v, f[1], f[2])
    BY DEF UpdateGlobalConfigDB, UpdateDB, LookupGlobalConfigDBEntry,
           UpdateExistingGlobalConfigDBEntry, SaveNewGlobalConfigDBEntry
  <2>3. Honest(UpdateGlobalConfigDB(q, v, f[1], f[2]), q, v, f)
    BY <2>2, UpdateHonest
  <2> QED BY <1>1, <1>2, <2>1, <2>3, AdminChangeKeeps
<1>4. CASE ConfigDrop(q, f)
  <2>1. Changed(Admin, q, None, Drop(q, f[1]), f)
    BY <1>4 DEF ConfigDrop, DeleteGlobalConfigEntry
  <2>2. Honest(Drop(q, f[1]), q, None, f)
    BY DropHonest
  <2> QED BY <1>1, <1>2, <2>1, <2>2, AdminChangeKeeps
<1>5. CASE ConfigGet(q, f)
  BY <1>1, <1>5, ReplyKeeps DEF ConfigGet
<1> QED BY <1>3, <1>4, <1>5

LEMMA AdminKeeps ==
  ASSUME Inv, NEW f \in Fates, AdminStep(f)
  PROVE  Inv'
<1>1. CASE VaultList(f)
  <2>1. f = Calm /\ made = Tables => GetVaultItemsInfo(f[1]) \in SUBSET Keys
    BY DEF GetVaultItemsInfo, Calm, Tables
  <2>2. f = Calm /\ made = Tables => GetVaultItemsInfo(f[1]) # None
    BY <2>1, ConstantsAssumption
  <2>3. up = "on"
    BY <1>1 DEF VaultList, Serving
  <2> QED BY <1>1, <2>2, <2>3, DieKeeps, ReplyKeeps DEF VaultList
<1>2. CASE TokenList(f)
  <2>1. f = Calm /\ made = Tables => GetAllAuthTokens(f[1]) \in SUBSET Tokens
    BY DEF GetAllAuthTokens, Calm, Tables
  <2>2. f = Calm /\ made = Tables => GetAllAuthTokens(f[1]) # None
    BY <2>1, ConstantsAssumption
  <2>3. up = "on"
    BY <1>2 DEF TokenList, Serving
  <2> QED BY <1>2, <2>2, <2>3, DieKeeps, ReplyKeeps DEF TokenList
<1>3. CASE \E login \in Values \cup {Empty} : AdminConnects(login, f)
  <2>1. PICK login \in Values \cup {Empty} : AdminConnects(login, f)
    BY <1>3
  <2> DEFINE valid == LookupGlobalConfigDBEntry(AdminLogins, f[1])
  <2>2. CASE valid = None /\ login # Empty
    <3>1. f = Calm /\ made = Tables => valid = rows[AdminLogins]
      BY CalmFinds, ConstantsAssumption DEF LookupGlobalConfigDBEntry, Rows
    <3> QED BY <2>1, <2>2, <3>1, DieKeeps DEF AdminConnects
  <2>3. CASE ~(valid = None /\ login # Empty)
    <3>1. /\ UNCHANGED <<up, made, client, group, rows, answer, acked, author>>
          /\ admin' \in BOOLEAN /\ calm' \in BOOLEAN /\ up = "on"
      BY <2>1, <2>3 DEF AdminConnects, Quiet, Told, Inv, Safe, TypeOK
    <3>2. TypeOK' /\ OnlyLoginKills'
      BY <3>1 DEF Inv, Safe, TypeOK, OnlyLoginKills
    <3> QED BY <3>1, <3>2, QuietKeeps
  <2> QED BY <2>2, <2>3
<1> QED BY <1>1, <1>2, <1>3, TokenKeeps, ConfigKeeps DEF AdminStep

LEMMA NodeKeeps ==
  ASSUME Inv, NEW f \in Fates, NodeStep(f)
  PROVE  Inv'
<1>1. PICK n \in Nodes :
        \/ \E t \in Tokens : NodeConnects(n, t, f)
        \/ Revoked(n, f)
        \/ \E b \in Nodes : HandleN2N(n, b, f)
  BY DEF NodeStep
<1>2. CASE \E t \in Tokens : NodeConnects(n, t, f)
  <2>1. TypeOK' /\ OnlyLoginKills'
    BY <1>2 DEF NodeConnects, Quiet, Told, Inv, Safe, TypeOK, OnlyLoginKills
  <2> QED BY <1>2, <2>1, QuietKeeps DEF NodeConnects, Quiet
<1>3. CASE Revoked(n, f)
  <2>1. TypeOK' /\ OnlyLoginKills'
    BY <1>3 DEF Revoked, Serving, Told, Inv, Safe, TypeOK, OnlyLoginKills
  <2> QED BY <1>3, <2>1, QuietKeeps DEF Revoked
<1>4. CASE \E b \in Nodes : HandleN2N(n, b, f)
  BY <1>4, ReplyKeeps DEF HandleN2N, Serving
<1> QED BY <1>1, <1>2, <1>3, <1>4

LEMMA StepKeeps == Inv /\ [Next]_vars => Inv'
<1> SUFFICES ASSUME Inv, [Next]_vars PROVE Inv'
  OBVIOUS
<1>1. CASE \E f \in Fates : VaultStep(f) \/ AdminStep(f) \/ NodeStep(f)
  BY <1>1, VaultKeeps, AdminKeeps, NodeKeeps
<1>2. CASE \E s \in Clients : Disconnects(s)
  <2>1. PICK s \in Clients : Disconnects(s)
    BY <1>2
  <2>2. TypeOK' /\ OnlyLoginKills'
    BY <2>1 DEF Disconnects, Serving, Quiet, Told, Inv, Safe, TypeOK, OnlyLoginKills
  <2> QED BY <2>1, <2>2, QuietKeeps DEF Disconnects, Quiet
<1>3. CASE Start
  <2>1. TypeOK' /\ OnlyLoginKills'
    BY <1>3 DEF Start, Quiet, Told, Inv, Safe, TypeOK, OnlyLoginKills, Tables
  <2> QED BY <1>3, <2>1, QuietKeeps DEF Start, Quiet
<1>4. CASE Stop
  <2>1. TypeOK' /\ OnlyLoginKills'
    BY <1>4 DEF Stop, Quiet, Told, Inv, Safe, TypeOK, OnlyLoginKills
  <2> QED BY <1>4, <2>1, QuietKeeps DEF Stop, Quiet
<1>5. CASE \E ok \in BOOLEAN : Make(ok)
  <2>1. PICK ok \in BOOLEAN : Make(ok)
    BY <1>5
  <2>2. TypeOK' /\ OnlyLoginKills'
    BY <2>1 DEF Make, Quiet, Told, Inv, Safe, TypeOK, OnlyLoginKills, Tables
  <2> QED BY <2>1, <2>2, QuietKeeps DEF Make, Quiet
<1>6. CASE UNCHANGED vars
  BY <1>6 DEF vars, Inv, Safe, Tables3, TypeOK, AckedIsStored, OriginIsAuthor,
              OnlyLoginKills
<1> QED BY <1>1, <1>2, <1>3, <1>4, <1>5, <1>6 DEF Next

LEMMA InitInv == Init => Inv
<1> SUFFICES ASSUME Init PROVE Inv
  OBVIOUS
<1>1. TypeOK
  <2>1. \A r \in Keys \cup Tokens \cup Settings : rows[r] = None
    BY DEF Init, Rows
  <2>2. made = -1 /\ -1 \in -1..Tables
    BY DEF Init, Tables
  <2>3. client \in [Nodes -> Tokens \cup {None}]
    BY DEF Init
  <2> QED BY <2>1, <2>2, <2>3 DEF Init, TypeOK
<1>2. Tables3
  BY DEF Init, Tables3, IsTable
<1>3. AckedIsStored /\ OriginIsAuthor /\ OnlyLoginKills
  BY DEF Init, AckedIsStored, OriginIsAuthor, OnlyLoginKills, Rows
<1> QED BY <1>1, <1>2, <1>3 DEF Inv, Safe

LEMMA InvAlways == Spec => []Inv
BY InitInv, StepKeeps, PTL DEF Spec

-----------------------------------------------------------------------------
(* Results.                                                                *)

\* What is acknowledged is stored, items have the owner of their contents, and
\* only a login stops a server whose database answers.
THEOREM Safety == Spec => []Safe
<1>1. Inv => Safe
  BY DEF Inv
<1> QED BY <1>1, InvAlways, PTL

-----------------------------------------------------------------------------
(* Who may take an item over.                                              *)

\* The item that changes is the one of the request, and its author the sender.
LEMMA WriterKnown ==
  ASSUME Inv, NEW s, NEW r \in Rows, NEW new, NEW result, NEW f,
         Honest(result, r, new, f), Changed(s, r, new, result, f),
         NEW k \in Keys, rows'[k] # rows[k]
  PROVE  r = k /\ author'[k] = s
<1>1. IsTable(rows, Rows) /\ IsTable(author, Keys) /\ k \in Rows
  BY DEF Inv, Tables3, Rows
<1>2. r = k
  BY <1>1 DEF Changed, Honest, IsTable
<1>3. result.rows # rows
  BY DEF Changed
<1> QED BY <1>1, <1>2, <1>3 DEF Changed, IsTable

\* In a calm step a client is granted what its token says.
LEMMA CalmGrants ==
  ASSUME Inv, NEW s \in Clients, NEW k \in Keys, NEW f \in Fates, Serving(s),
         f = Calm, made = Tables,
         May(s, Granted(s, f[1]), LookupVaultDBEntry(k, f[2]), "CHG_OUR", "CHG_ANY")
  PROVE  s = Admin \/ May(s, rows[client[s]], rows[k], "CHG_OUR", "CHG_ANY")
<1>1. CASE s = Admin
  BY <1>1
<1>2. CASE s # Admin
  <2>1. s \in Nodes /\ client[s] \in Rows /\ k \in Rows
    BY <1>2 DEF Clients, Serving, Inv, Safe, TypeOK, Rows
  <2>2. Granted(s, f[1]) = rows[client[s]]
    BY <1>2, <2>1, CalmFinds DEF Granted, LookupAuthToken
  <2>3. LookupVaultDBEntry(k, f[2]) = rows[k]
    BY <2>1, CalmFinds DEF LookupVaultDBEntry
  <2> QED BY <2>2, <2>3
<1> QED BY <1>1, <1>2

\* The same for a request about the vault as a whole.
LEMMA VaultOwners ==
  ASSUME Inv, NEW f \in Fates, VaultStep(f), NEW k \in Keys,
         calm', rows[k] # None, rows'[k] # rows[k]
  PROVE  LET s == author'[k]
         IN  s = Admin \/ May(s, rows[client[s]], rows[k], "CHG_OUR", "CHG_ANY")
<1>1. PICK s \in Clients, j \in Keys :
        \/ \E d \in Data : VaultAdd(s, j, d, f) \/ VaultUpdate(s, j, d, f)
        \/ VaultFetch(s, j, f) \/ VaultDrop(s, j, f)
  BY DEF VaultStep
<1>2. j \in Rows /\ Serving(s)
  BY <1>1 DEF VaultAdd, VaultUpdate, VaultFetch, VaultDrop, Asks, Rows
<1>3. ASSUME NEW d \in Data,
             Changed(s, j, [origin |-> s, data |-> d],
                     UpdateVaultDB(j, [origin |-> s, data |-> d], f[3], f[4]), f)
      PROVE  j = k /\ author'[k] = s /\ f = Calm /\ made = Tables
  <2> DEFINE new == [origin |-> s, data |-> d]
  <2>1. UpdateVaultDB(j, new, f[3], f[4]) = UpdateDB(j, new, f[3], f[4])
    BY DEF UpdateVaultDB, UpdateDB, LookupVaultDBEntry, UpdateExistingVaultDBEntry,
           SaveNewVaultDBEntry
  <2>2. Honest(UpdateVaultDB(j, new, f[3], f[4]), j, new, f)
    BY <2>1, UpdateHonest
  <2>3. j = k /\ author'[k] = s
    BY <1>2, <1>3, <2>2, WriterKnown
  <2> QED BY <1>3, <2>3 DEF Changed, Told
<1>4. CASE \E d \in Data : VaultAdd(s, j, d, f)
  <2>1. PICK d \in Data : VaultAdd(s, j, d, f)
    BY <1>4
  <2>2. Changed(s, j, [origin |-> s, data |-> d],
                UpdateVaultDB(j, [origin |-> s, data |-> d], f[3], f[4]), f)
        /\ LookupVaultDBEntry(j, f[2]) = None
    BY <2>1 DEF VaultAdd, Reply, Unchanged
  <2>3. j = k /\ f = Calm /\ made = Tables
    BY <1>3, <2>2
  <2>4. LookupVaultDBEntry(j, f[2]) = rows[k]
    BY <1>2, <2>3, CalmFinds DEF LookupVaultDBEntry
  <2> QED BY <2>2, <2>4
<1>5. CASE \E d \in Data : VaultUpdate(s, j, d, f)
  <2>1. PICK d \in Data : VaultUpdate(s, j, d, f)
    BY <1>5
  <2>2. Changed(s, j, [origin |-> s, data |-> d],
                UpdateVaultDB(j, [origin |-> s, data |-> d], f[3], f[4]), f)
        /\ UpdateRefusal(s, Granted(s, f[1]), LookupVaultDBEntry(j, f[2])) = None
    BY <2>1 DEF VaultUpdate, Reply, Unchanged
  <2>3. j = k /\ author'[k] = s /\ f = Calm /\ made = Tables
    BY <1>3, <2>2
  <2>4. May(s, Granted(s, f[1]), LookupVaultDBEntry(j, f[2]), "CHG_OUR", "CHG_ANY")
    BY <2>2, ConstantsAssumption DEF UpdateRefusal
  <2> QED BY <1>2, <2>3, <2>4, CalmGrants
<1>6. CASE VaultFetch(s, j, f)
  BY <1>6 DEF VaultFetch, Reply, Die, Unchanged
<1>7. CASE VaultDrop(s, j, f)
  <2>1. Changed(s, j, None, Drop(j, f[3]), f)
        /\ DropRefusal(s, Granted(s, f[1]), LookupVaultDBEntry(j, f[2])) = None
    BY <1>7 DEF VaultDrop, DeleteVaultDBEntry, Reply, Unchanged
  <2>2. Honest(Drop(j, f[3]), j, None, f)
    BY DropHonest
  <2>3. j = k /\ author'[k] = s
    BY <1>2, <2>1, <2>2, WriterKnown
  <2>4. f = Calm /\ made = Tables
    BY <2>1 DEF Changed, Told
  <2>5. May(s, Granted(s, f[1]), LookupVaultDBEntry(j, f[2]), "CHG_OUR", "CHG_ANY")
    BY <2>1, ConstantsAssumption DEF DropRefusal
  <2> QED BY <1>2, <2>3, <2>4, <2>5, CalmGrants
<1> QED BY <1>1, <1>4, <1>5, <1>6, <1>7

\* Tokens and settings are no items.
LEMMA AdminLeavesItems ==
  ASSUME Inv, NEW f \in Fates, AdminStep(f), NEW k \in Keys
  PROVE  rows'[k] = rows[k]
<1>1. ASSUME NEW r \in Tokens \cup Settings, NEW new, NEW result,
             Honest(result, r, new, f), Changed(Admin, r, new, result, f)
      PROVE  rows'[k] = rows[k]
  <2>1. r \in Rows /\ r # k
    BY ConstantsAssumption DEF Rows
  <2> QED BY <1>1, <2>1, WriterKnown
<1>2. ASSUME NEW t \in Tokens, NEW g,
             Changed(Admin, t, g, UpdateAuthTokensDB(t, g, f[2], f[3]), f)
      PROVE  rows'[k] = rows[k]
  <2>1. UpdateAuthTokensDB(t, g, f[2], f[3]) = UpdateDB(t, g, f[2], f[3])
    BY DEF UpdateAuthTokensDB, UpdateDB, LookupAuthToken, UpdateExistingAuthTokensDBEntry,
           SaveNewAuthTokensDBEntry
  <2>2. Honest(UpdateAuthTokensDB(t, g, f[2], f[3]), t, g, f)
    BY <2>1, UpdateHonest
  <2> QED BY <1>1, <1>2, <2>2
<1>3. ASSUME NEW q \in Settings, NEW v,
             Changed(Admin, q, v, UpdateGlobalConfigDB(q, v, f[1], f[2]), f)
      PROVE  rows'[k] = rows[k]
  <2>1. UpdateGlobalConfigDB(q, v, f[1], f[2]) = UpdateDB(q, v, f[1], f[2])
    BY DEF UpdateGlobalConfigDB, UpdateDB, LookupGlobalConfigDBEntry,
           UpdateExistingGlobalConfigDBEntry, SaveNewGlobalConfigDBEntry
  <2>2. Honest(UpdateGlobalConfigDB(q, v, f[1], f[2]), q, v, f)
    BY <2>1, UpdateHonest
  <2> QED BY <1>1, <1>3, <2>2
<1>4. ASSUME NEW r \in Tokens \cup Settings, Changed(Admin, r, None, Drop(r, f[1]), f)
      PROVE  rows'[k] = rows[k]
  BY <1>1, <1>4, DropHonest
<1>5. CASE VaultList(f) \/ TokenList(f)
  BY <1>5 DEF VaultList, TokenList, Reply, Die, Unchanged
<1>6. CASE \E t \in Tokens : \E g \in Grants : TokenAdd(t, g, f) \/ TokenChange(t, g, f)
  BY <1>2, <1>6 DEF TokenAdd, TokenChange, Reply, Unchanged
<1>7. CASE \E t \in Tokens : TokenRevoke(t, f) \/ TokenUsedBy(t, f)
  BY <1>4, <1>7 DEF TokenRevoke, TokenUsedBy, DeleteAuthToken, Reply, Unchanged
<1>8. CASE \E q \in Settings : \E v \in Values : ConfigSet(q, v, f)
  BY <1>3, <1>8 DEF ConfigSet
<1>9. CASE \E q \in Settings : ConfigGet(q, f) \/ ConfigDrop(q, f)
  BY <1>4, <1>9 DEF ConfigGet, ConfigDrop, DeleteGlobalConfigEntry, Reply, Unchanged
<1>10. CASE \E login \in Values \cup {Empty} : AdminConnects(login, f)
  BY <1>10 DEF AdminConnects, Die, Quiet
<1> QED BY <1>5, <1>6, <1>7, <1>8, <1>9, <1>10 DEF AdminStep

\* Nobody's item changes hands but by who may change it at that moment, as long
\* as the database answers.
THEOREM OwnersKept == Spec => OthersKept
<1> DEFINE Kept ==
      \A k \in Keys :
        calm' /\ rows[k] # None /\ rows'[k] # rows[k]
          => LET s == author'[k]
             IN  s = Admin \/ May(s, rows[client[s]], rows[k], "CHG_OUR", "CHG_ANY")
<1>1. ASSUME Inv, [Next]_vars PROVE [Kept]_vars
  <2> SUFFICES ASSUME NEW k \in Keys, calm', rows[k] # None, rows'[k] # rows[k]
               PROVE  LET s == author'[k]
                      IN  s = Admin \/ May(s, rows[client[s]], rows[k], "CHG_OUR", "CHG_ANY")
    OBVIOUS
  <2>1. CASE \E f \in Fates : VaultStep(f) \/ AdminStep(f)
    <3>1. PICK f \in Fates : VaultStep(f) \/ AdminStep(f)
      BY <2>1
    <3>2. VaultStep(f)
      BY <1>1, <3>1, AdminLeavesItems
    <3> QED BY <1>1, <3>2, VaultOwners
  <2>2. CASE ~\E f \in Fates : VaultStep(f) \/ AdminStep(f)
    <3>1. rows' = rows
      BY <1>1, <2>2 DEF Next, NodeStep, NodeConnects, Revoked, HandleN2N, Reply, Unchanged,
                        Disconnects, Start, Stop, Make, Quiet, vars
    <3> QED BY <3>1
  <2> QED BY <2>1, <2>2
<1> QED BY <1>1, InvAlways, PTL DEF Spec, OthersKept
=============================================================================
