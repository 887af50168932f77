------------------------------ MODULE Routines ------------------------------
(***************************************************************************)
(* Routines of the server: streams it keeps under a name, and sends to     *)
(* their target nodes at scheduled times or when a node connects           *)
(* (server/routines.cpp, the ROUTINE_ commands in server/cmdhandling.cpp). *)
(*                                                                         *)
(* Each is kept twice.  KnownRoutines, in memory, says when to run it and  *)
(* for whom; the table "routines" has all that and its stream.  Memory is  *)
(* read from the table when the server starts.                             *)
(*                                                                         *)
(* All of it runs on the main thread, so a handler is one action.  A run   *)
(* is several, one for each node it sends to and one to switch a RUNONCE   *)
(* routine off, since the server can die between them.  Writes to the      *)
(* table can fail, and then change nothing.                                *)
(***************************************************************************)
EXTENDS Integers

CONSTANTS
  Names,        \* names of routines
  Nodes,        \* nodes
  Streams,      \* streams to send
  Bare,         \* those with no arguments, a subset of Streams
  Headed,       \* those with an ODHEADER and something behind it
  Inputs,       \* the routines an administrator adds
  None,         \* no routine, no run
  MaxCrashes,   \* bound: times the server dies
  MaxFailures   \* bound: writes that fail

\* Schedules are abstracted to whether there is one: "timed".  Targets are a
\* list of nodes, in which one may come twice: how often it names each.
Lists == [Nodes -> Nat]
Entry == [once : BOOLEAN, connect : BOOLEAN, disabled : BOOLEAN,
          timed : BOOLEAN, targets : Lists, stream : Streams]

ASSUME ConstantsAssumption ==
  /\ None \notin Entry \cup [name : Names, left : Lists]
  /\ Bare \subseteq Streams /\ Headed \subseteq Streams
  /\ Inputs \subseteq Entry
  /\ MaxCrashes \in Nat /\ MaxFailures \in Nat

VARIABLES
  memory,       \* KnownRoutines; the stream is only carried along
  disk,         \* table routines
  run,          \* the run in progress: the routine and what of the list is left
  acked,        \* history: routines as last acknowledged to the administrator,
                \* but for a success that was none
  sent,         \* history: times a node was sent a RUNONCE routine since the
                \* administrator last added it or set its flags
  named,        \* history: how often its list has named a node, at most
  crashes, failures

tables == <<memory, disk>>
vars == <<tables, run, acked, sent, named, crashes, failures>>

Idle == run = None
Entries == [Names -> Entry \cup {None}]
Nobody == [n \in Nodes |-> 0]
Only(n) == [Nobody EXCEPT ![n] = 1]
Named(entry) == IF entry = None THEN Nobody ELSE entry.targets
Larger(f, g) == [n \in Nodes |-> IF f[n] < g[n] THEN g[n] ELSE f[n]]

Init ==
  /\ disk \in [Names -> Inputs \cup {None}]
  /\ memory = disk
  /\ run = None
  /\ acked = disk
  /\ sent = [r \in Names |-> Nobody]
  /\ named = [r \in Names |-> Named(disk[r])]
  /\ crashes = 0
  /\ failures = 0

\* The rows of the table.
LookupRoutineDBEntry(r) == disk[r]
SaveNewRoutineDBEntry(r, entry) == disk' = [disk EXCEPT ![r] = entry]
UpdateExistingRoutineDBEntry(r, entry) == disk' = [disk EXCEPT ![r] = entry]
DeleteRoutineDBEntry(r) == disk' = [disk EXCEPT ![r] = None]

\* What may fail of it: a call of the database.
Fails == failures < MaxFailures /\ failures' = failures + 1

\* DB::UpdateRoutineDB, or DeleteRoutineDBEntry where there is no entry to
\* write.  They report a failure, unless it is SQLITE_BUSY or a row that a
\* failing lookup did not find: both pass for a success.
Write(r, entry, ok) ==
  \/ /\ ok /\ UNCHANGED failures
     /\ IF entry = None THEN DeleteRoutineDBEntry(r)
        ELSE IF LookupRoutineDBEntry(r) = None THEN SaveNewRoutineDBEntry(r, entry)
        ELSE UpdateExistingRoutineDBEntry(r, entry)
  \/ Fails /\ UNCHANGED disk

\* The write that ok reports has been done.
Done(ok) == ok /\ UNCHANGED failures

Disabled(entry) == [entry EXCEPT !.disabled = TRUE]
SetFlags(entry, once, connect, disabled) ==
  [entry EXCEPT !.once = once, !.connect = connect, !.disabled = disabled]
SetSchedule(entry, timed) == [entry EXCEPT !.timed = timed]
SetTargets(entry, targets) == [entry EXCEPT !.targets = targets]

-----------------------------------------------------------------------------
(* Mistakes one could make in this code, named in PROJECT.json "mutants".  *)

\* A finished run that counts on the table alone.
FinishDiskOnly(ok) ==
  /\ ~Idle /\ run.left = Nobody
  /\ run' = None
  /\ IF memory[run.name].once
       THEN Write(run.name, Disabled(disk[run.name]), ok)
       ELSE ok /\ UNCHANGED <<disk, failures>>
  /\ UNCHANGED <<memory, acked, sent, named, crashes>>

\* A finished run that does not write the table.
FinishMemoryOnly(ok) ==
  /\ ~Idle /\ run.left = Nobody /\ ok
  /\ run' = None
  /\ memory' = IF memory[run.name].once
                 THEN [memory EXCEPT ![run.name] = Disabled(@)] ELSE memory
  /\ UNCHANGED <<disk, failures, acked, sent, named, crashes>>

\* ROUTINE_DEL content with either of the two deletions.
DeleteEither(r, ok) ==
  /\ Idle /\ ok
  /\ IF memory[r] # None
       THEN memory' = [memory EXCEPT ![r] = None] /\ UNCHANGED disk
       ELSE disk' = [disk EXCEPT ![r] = None] /\ UNCHANGED memory
  /\ acked' = [acked EXCEPT ![r] = None]
  /\ UNCHANGED <<run, sent, named, crashes, failures>>

-----------------------------------------------------------------------------
(* The administrator's commands.                                           *)

\* A2S_ROUTINE_ADD, for a new name or one that is there: memory first, and
\* whatever becomes of the write.
Add(r, entry, ok) ==
  /\ Idle
  /\ memory' = [memory EXCEPT ![r] = entry]
  /\ Write(r, entry, ok)
  /\ acked' = IF Done(ok) THEN [acked EXCEPT ![r] = entry] ELSE acked
  /\ sent' = [sent EXCEPT ![r] = Nobody]
  /\ named' = [named EXCEPT ![r] =
                IF Done(ok) THEN entry.targets ELSE Larger(@, entry.targets)]
  /\ UNCHANGED <<run, crashes>>

\* A2S_ROUTINE_DEL: the table only if memory has it.
Delete(r, ok) ==
  /\ Idle
  /\ memory[r] # None
  /\ memory' = [memory EXCEPT ![r] = None]
  /\ Write(r, None, ok)
  /\ acked' = IF Done(ok) THEN [acked EXCEPT ![r] = None] ELSE acked
  /\ UNCHANGED <<run, sent, named, crashes>>

\* A2S_ROUTINE_CHG_FLAG, _SCHD and _TGT: the entry of the table with a change
\* replaces the one in memory, if it could be written.
Change(r, entry, ok) ==
  /\ Idle
  /\ memory[r] # None
  /\ Write(r, entry, ok)
  /\ memory' = IF ok THEN [memory EXCEPT ![r] = entry] ELSE memory
  /\ acked' = IF Done(ok) THEN [acked EXCEPT ![r] = entry] ELSE acked
  /\ UNCHANGED <<run, crashes>>

ChangeFlags(r, once, connect, disabled, ok) ==
  /\ disk[r] # None
  /\ Change(r, SetFlags(disk[r], once, connect, disabled), ok)
  /\ sent' = IF ok THEN [sent EXCEPT ![r] = Nobody] ELSE sent
  /\ UNCHANGED named

ChangeSchedule(r, timed, ok) ==
  /\ disk[r] # None
  /\ Change(r, SetSchedule(disk[r], timed), ok)
  /\ UNCHANGED <<sent, named>>

ChangeTargets(r, targets, ok) ==
  /\ disk[r] # None
  /\ Change(r, SetTargets(disk[r], targets), ok)
  /\ named' = [named EXCEPT ![r] = Larger(@, targets)]
  /\ UNCHANGED sent

-----------------------------------------------------------------------------
(* Runs.                                                                   *)

\* ScanRoutineDB, of which nobody asks whether it worked: without the rows of
\* the table the server has no routines until it starts again.
ScanRoutineDB ==
  \/ memory' = disk /\ UNCHANGED failures
  \/ memory' = [r \in Names |-> None] /\ Fails

\* The server stops, and starts again.
Die ==
  /\ crashes < MaxCrashes
  /\ crashes' = crashes + 1
  /\ ScanRoutineDB
  /\ run' = None
  /\ UNCHANGED <<disk, acked, sent, named>>

StartRun(r, targets) ==
  /\ run' = [name |-> r, left |-> targets]
  /\ UNCHANGED <<tables, acked, sent, named, crashes, failures>>

\* ProcessScheduledRoutines in a second that matches the schedule.  The entry
\* it looks up in the table, and the arguments of that entry's stream, are
\* dereferenced without a check: the server dies if there are none.
RunScheduled(r) ==
  /\ Idle
  /\ memory[r] # None
  /\ memory[r].timed /\ ~memory[r].disabled
  /\ IF disk[r] = None \/ disk[r].stream \in Bare
       THEN Die
       ELSE StartRun(r, memory[r].targets)

\* ProcessOnConnectRoutines for a target that connects, however often the list
\* names it; it minds a stream with no arguments, but not a routine that is not
\* in the table.
RunOnConnect(r, n) ==
  /\ Idle
  /\ memory[r] # None
  /\ memory[r].connect /\ ~memory[r].disabled
  /\ memory[r].targets[n] > 0
  /\ IF disk[r] = None THEN Die ELSE StartRun(r, Only(n))

\* An entry of the list: the node it names is sent the stream if it is
\* connected, without regard to what it was sent for another entry.
Send(n, connected) ==
  /\ ~Idle /\ run.left[n] > 0
  /\ connected => disk[run.name].stream \notin Headed
  /\ run' = [run EXCEPT !.left[n] = @ - 1]
  /\ sent' = IF connected /\ memory[run.name].once
               THEN [sent EXCEPT ![run.name][n] = @ + 1] ELSE sent
  /\ UNCHANGED <<tables, acked, named, crashes, failures>>

\* The node's own ODHEADER takes the place of the one of the stream, and
\* AppendArgData is to add the rest: it throws (Conation: MergesSeeked) and
\* nothing catches that.
SendDies(n) ==
  /\ ~Idle /\ run.left[n] > 0
  /\ disk[run.name].stream \in Headed
  /\ Die

\* A RUNONCE routine is switched off in both places; how the write went is not
\* looked at.
Finish(ok) ==
  /\ ~Idle /\ run.left = Nobody
  /\ run' = None
  /\ IF memory[run.name].once
       THEN /\ memory' = [memory EXCEPT ![run.name] = Disabled(@)]
            /\ Write(run.name, Disabled(disk[run.name]), ok)
       ELSE ok /\ UNCHANGED <<tables, failures>>
  /\ UNCHANGED <<acked, sent, named, crashes>>

-----------------------------------------------------------------------------
AdminStep(r, ok) ==
  \/ \E entry \in Inputs :
       \/ Add(r, entry, ok)
       \/ ChangeFlags(r, entry.once, entry.connect, entry.disabled, ok)
       \/ ChangeSchedule(r, entry.timed, ok)
       \/ ChangeTargets(r, entry.targets, ok)
  \/ Delete(r, ok)

RunStep ==
  \/ \E r \in Names : RunScheduled(r) \/ \E n \in Nodes : RunOnConnect(r, n)
  \/ \E n \in Nodes, connected \in BOOLEAN : Send(n, connected)
  \/ \E n \in Nodes : SendDies(n)
  \/ \E ok \in BOOLEAN : Finish(ok)

Next ==
  \/ \E r \in Names, ok \in BOOLEAN : AdminStep(r, ok)
  \/ RunStep
  \/ Die

Spec == Init /\ [][Next]_vars

-----------------------------------------------------------------------------
TypeOK ==
  /\ memory \in Entries /\ disk \in Entries /\ acked \in Entries
  /\ run \in [name : Names, left : Lists] \cup {None}
  /\ sent \in [Names -> Lists] /\ named \in [Names -> Lists]
  /\ crashes \in 0 .. MaxCrashes
  /\ failures \in 0 .. MaxFailures

\* As long as no call of the database has failed, memory and table tell the
\* same, whatever crashes there were and wherever in a run they came.
MemoryIsDisk == failures = 0 => memory = disk

\* Memory and table agree, and a run's routine stays in both.
Safe == TypeOK /\ MemoryIsDisk

\* What the administrator was last told is in place is on the table, and so
\* comes back with the server; at most it has been switched off since.  Only a
\* change that met a busy database is excepted, since db.cpp takes SQLITE_BUSY
\* for a success.
AckedOnDisk ==
  \A r \in Names : \/ disk[r] = acked[r]
                   \/ /\ acked[r] # None
                      /\ disk[r] = Disabled(acked[r])

\* A RUNONCE routine is sent to a node once for each time its list names that
\* node, and as often again at most for every crash and every failed call.
OncePlusFaults ==
  \A r \in Names, n \in Nodes :
    sent[r][n] <= named[r][n] * (1 + crashes + failures)
=============================================================================
