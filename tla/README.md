# A verification project for Volition

Volition administers computers.  A *server* keeps a TLS connection to every
*node*, a daemon on an administered machine, and to one *control program*, the
GTK window of the administrator.  They exchange *streams* of the Conation
protocol: a command code, flags, and typed arguments.  The administrator's
commands pass through the server to the nodes, where each runs as a job in a
thread, and the answers come back the same way.  The server also keeps nodes,
tokens, routines and a vault of files in an SQLite database.

The repository has no tests.  What it says about itself is in comments,
assertions (`VLASSERT`) and a README.  This directory holds TLA+ models of the
parts where the program's own logic is hard to get right, runs of TLC on small
instances of them, and TLAPS proofs for all instances.

Paths below are relative to `src/src/` of the repository.

## 1. The system

### Parts, their state, and what makes them correct

| Part | State | Operations | What must hold | Here |
|---|---|---|---|---|
| `NetScheduler::WriteQueue` (libvolition/netscheduler.cpp) | list of streams, mutex, semaphore, Error, ThreadShouldDie, status object, its thread | Push (any thread), Begin, StopThread, ClearError, destructor; ThreadFunc | every stream is sent once, in order, over failures and restarts; no lost wakeup; it drains; StopThread returns | `WriteQueue`, `Outbox` |
| `NetScheduler::ReadQueue` | the same, no semaphore; the owner keeps the mutex while it handles the head | ThreadFunc, Head_Acquire, Head_Release, Begin, StopThread | what is handled stays the head; all that came in is handled once, in order | `ReadQueue`, `Inbox` |
| server main loop and client list (server/core.cpp, clients.cpp) | ClientMap, CurrentAdmin, SkipHeadRelease, ResetLoopAfter, ActiveClient, the iterator of the loop | MasterLoop, AcceptClient_Auth, ProcessNodeDisconnect, CheckPingsAndQueues | no pointer or iterator dangles, locks are in order, nobody is forgotten | `ServerLoop` |
| pings and reconnects (server/clients.cpp, netcore.h, node/main.cpp, node/interface.cpp) | SentTime, Waiting, LastPing, LastActivity, the node's place in its loop | SendPing, CompletePing, CheckPingsAndQueues, PingedOut, Establish | only dead connections are given up, and those soon; a node comes back | `Heartbeat` |
| what the server knows of nodes (clients.cpp, cmdhandling.cpp, db.cpp; control/clienttracker.cpp) | ClientObj, table nodeinfo, table authtokens, the administrator's list | logins, losses, group changes, FORGETNODE, AUTHTOKEN_ADD/REVOKE, index, notifications | the three copies agree; a revoked token keeps its nodes out | `Registry` |
| routines (server/routines.cpp, cmdhandling.cpp, db.cpp) | KnownRoutines, table routines | ROUTINE_ADD, DEL, CHG_FLAG, CHG_SCHD, CHG_TGT; scheduled and on-connect runs | memory and table agree over crashes; RUNONCE runs once | `Routines` |
| vault, tokens, settings (server/cmdhandling.cpp, db.cpp, core.cpp) | tables vault, globalconfig, authtokens; the database file | VAULT_*, AUTHTOKEN_*, *SCONFIG, N2N, logins; InitializeEmptyDB | what is acknowledged is stored; an item changes only by those allowed to | `Vault` |
| node updates (server/nodeupdates.cpp, node/updates.cpp, node/main.cpp, libvolition/brander.cpp) | table of binaries, the node's own and temporary file, revision and identity in a binary, the process | PROVIDEUPDATE, HandleUpdatesForNode, AttemptUpdate, InitStage1, InitStage2, CompleteUpdate | a binary that starts is on the disk, the node is what it would start as, the server knows what that is, and it becomes what the table has | `Update` |
| node main loop and handlers (node/main.cpp, interface.cpp, cmdhandling.cpp) | two queues, the descriptor, PingTrack | MasterLoop, HandleServerInterface, Establish | every stream goes to its handler and its jobs; a failed update leaves a working node | `Heartbeat`, `NodeJobs`, `Update` |
| node jobs (node/jobs.cpp, include/conation.h) | JobsList, two ConationQueues a job, the shared working directory, loaded scripts | StartJob, ProcessCompletedJobs, KillJob*, ForwardN2N, ForwardToScriptJobs, JobThreadFunc | each job answers once; finished jobs go; a kill ends; each stream reaches whom it is for; a job starts in the stored directory | `NodeJobs` |
| Conation streams (libvolition/conation.cpp) | header, argument bytes, an iterator; a stream on the wire | Push_*, Pop_*, VerifyArgTypes*, copies, AppendArgData, Transmit, download | what is pushed is what is popped, here and on the other side | `Conation`, `ArgList` |
| Conation streams in Lua (node/script.cpp) | a C++ stream in a Lua table | New, Clone, Push, Pop, PopArguments, BuildResponse | the same, for any order of a script's calls, with Lua's integers | `LuaStream`, `ArgList` |
| control link (control/main.cpp, interface.cpp, cmdhandling.cpp, ticker.cpp) | queues, LoggedIn, list of pending orders | InitiateLogin, PrimaryLoop, TerminateLink, HandleReport | every order's answer finds its ticker line; logout leaves nothing running | list in `Registry` |
| other helpers, Lua threads and bindings, files, processes, web, GTK and Qt windows, extensions, utilities | mostly none | conversions, system calls, widgets | | not modelled, section 6 |

### How they interact

* Calls.  MasterLoop of the server calls handlers, which may call
  ProcessNodeDisconnect on any client, the one whose stream they handle
  included, and so change the map the loop iterates over.
* Processes.  An update of a node passes through three programs that execute
  one another, and tells them apart by their arguments.
* Threads.  A client of the server, the node and the control program each have
  a read and a write queue with a thread of its own.  The list is protected by
  a mutex; the write thread and both threads' reports to the status object
  read and write outside it on purpose.  A node has a thread for each job; jobs
  share the process's working directory and the loaded scripts.
* Messages.  Streams over TCP: in order and whole while a connection lasts,
  and lost with it.  Nothing is acknowledged or sent again by the protocol.
* Time.  Pings and ping-outs, once-a-second looks for routines, one-second
  sleeps between logins.
* The database and the binary on disk outlive the process.

### What is hard, and hard to test

`PROJECT.json` lists forty places under "hazards", at their lines.  They come
in these kinds: a push, a stop and a restart that interleave with a queue's
thread (netscheduler.cpp); a handler that deletes what the loop above it
stands on (core.cpp:212); a copy that is stale (CurrentAdmin, the group and the
revision of a node, KnownRoutines); a ping-out that races its answer or a long
transfer (node/main.cpp:61); crashes, and statements of SQLite that fail or are
busy, between two steps (db.cpp:287, routines.cpp:331, updates.cpp:260); the
jobs of a node, their kills and their shared directory (jobs.cpp); and the
arithmetic on the bytes of a stream (conation.cpp).  Hazards that no property
covers are in sections 4 and 6.

## 2. The modules

`Outbox`, `Inbox` and `ArgList` are abstract.  The others are translated from
the code; `PROJECT.json` "map" gives the lines of every definition.  A module
`MC...` adds only values and symmetry for TLC.  `..._proofs` modules hold
theorems.  The operators under "Mistakes one could make" in each module are not
part of its Next: they are variants of its definitions that show that each
property can fail.

The modules meet at these seams:

* `ServerLoop` has, of each read queue, the mutex, whether its thread is in the
  locked part, and the number of streams.  The rest of the queue is in
  `ReadQueue`, whose properties (HeldStill above all) are about an owner
  that behaves as MasterLoop does.
* `ServerLoop` has, of each handler, the clients it disconnects.  What handlers
  do to the tables is in `Registry`, `Routines`, `Vault` and `Update`, where each
  is one action because all run on the main thread; a run of a routine is
  several, because the process can end between them.
* `Update` and `NodeJobs` take the node's queues as `ReadQueue` and `WriteQueue`
  show them: lists that keep their streams over a stop and a new connection.
  `NodeJobs` kills all jobs for an update and ends there; what follows is in
  `Update`, which has no jobs.
* `Conation` shows that a stream of bytes is an argument list (`ArgList`), and
  `LuaStream`, which has lists, that what a script makes of it is one too.
* `Registry` lets every notification reach the administrator at once.  That the
  order is kept on the way is the refinement of `Outbox` by `WriteQueue`.
* `Heartbeat` has the connection of one node, with both ends, and time.  That
  refused and broken clients are taken off the map in a loop that restarts is
  in `ServerLoop`.

### WriteQueue and Outbox

State: the members of QueueBase (`queue`, `sem`, `error`, `shouldDie`), the
status object's `numOnQueue`, the connection (`conn`, `link`), program counters
of the queue's thread (`tpc`), of the pushing threads (`ppc`) and of the owner
(`opc`).  A section under the mutex is one action; reading Queue.size() for the
status object, posting the semaphore, the write itself and `Error = true` after
an exception are actions of their own, so that every interleaving the mutex
leaves open is there.  `link` is "up", "broken" (writes fail) or "stalled"
(writes neither end nor fail): a peer that stops reading, or Net::Write's loop
on a zero result (netcore.cpp:325-340).  StopThread is modelled with both kinds
of limit; with one, its thread is cancelled where it waits or writes.
`ExitVisible` says whether pthread_kill(t, 0) fails for a thread that has
returned and was not joined (vlthreads.cpp:176).  The runs take TRUE.  With
FALSE, which is what glibc does since 2.34, StopThread() without a limit spins
for good by definition, and nothing about it is left to ask.

`Outbox` is the promise: a list, sent from the head, whole and once, given up
only with the object.  What counts as unsent under the refinement is `Unsent`:
between the end of a write and the pop the stream is on the list and sent.

Left out: a status object attached later (all owners attach it before Begin);
the memory allocator; glibc's abort when a cancellation unwinds through the
`catch (...)` at netscheduler.cpp:191 (the model cancels cleanly); the Windows
branch, TerminateThread.

### ReadQueue and Inbox

As above, with the mutex as a variable, since the owner keeps it from
Head_Acquire to Head_Release.  A connection is a sequence of whole streams
(`wire`) and perhaps the beginning of another (`partial`).  The half-second
select is ThreadSelectNothing.  `Inbox` promises that streams come in in order,
are cut off with their connection, and are handed out once, oldest first.

Left out: streams with a malformed header; Begin with no argument after a first
start, which only the node's failed update does (section 4).

### ServerLoop

The main thread goes through accept, login, register, scan, acquire, handle, kill,
after, finish, disconnect, delete and pings; `iter`, `client`, `newcomer` and
`victim` are the locals of MasterLoop, AcceptClient_Auth and
ProcessNodeDisconnect, and are reset where they go out of scope.  Read threads
take their mutex, add, and let go.  Handlers: one that stays (HandleStay), one
that disconnects its own client (HandleLeave), FORGETNODE and AUTHTOKEN_REVOKE
with any set of nodes.  A ping-out is a free choice here; `Heartbeat` says when
it comes.  In login the main thread has accepted a client and is in its TLS
handshake or downloads its B2S_AUTH, neither of which has a time limit
(libvolition/netcore.cpp:159, server/clients.cpp:129): the steps that end a login
(`Accept`) are the client's to let happen, have no fairness, and may never come.
Served, BrokenRemoved and Answered are therefore conditional on `LoginsEnd`, that
the main thread comes back from every login; without that TLC finds all three
violated.  Handshake and download are one wait, and a client that breaks off in it
is one that AcceptFails.  A node named "ADMIN" is left out.

### Heartbeat

Time is in whole seconds of time(), as ages of the timestamps that the code
compares.  The main loops go round every 5 and 50 ms, so `Tick` waits for all
that is due.  `Delay` bounds the receiving and handling of a short stream, and
`Handshake` a login that the server answers.  A connection can be cut with no
word to either side at any moment; from then on its ends may still buffer, start
transfers, notice an error (never relied upon) or ping out.  Long streams
travel one at a time and count as activity on both ends as long as the
connection works.  Node and server may restart at any time.

The two assumptions of `TimelyAssumption` are needed and tight: TLC finds
OnlyDeadClientsPingOut violated with 2*Delay = Pingout, and
OnlyDeadServersPingOut with Handshake + Delay > Pingout.  The second is the time
left by the node's RegisterPing at the start of Establish ("Hack to fix ping
registration", node/interface.cpp): with the constants of netcore.h, 60 and
15 seconds, a login may take nearly 15.

Some states are excepted by name (`Stuck`, and the condition of `quiet`),
because nothing in the code ends them: the server in a transfer on a dead
connection sends no pings (clients.cpp:443), a node waits in StopThread for a
transfer (node/main.cpp:162), a login waits for the server's answer with no
limit (node/interface.cpp:69).  Without these exceptions TLC finds
DeadClientDropped and NodeComesBack violated.  They are in section 4.

### Registry

`online` is each node's ClientObj, `nodeinfo` and `authtokens` the tables,
`adminView` the control program's list.  `untold` holds the nodes that
AUTHTOKEN_REVOKE deleted: the administrator is told they are offline and not
that they are gone, until the next index.  Left out: platform, address, ping
latency and times; a database that fails (every write succeeds); the
update report with the routine bit, which no node sends.

### Routines

`memory` is KnownRoutines and `disk` the table.  A schedule is only whether
there is one: any moment can be its time.  A write may fail and change nothing,
and be reported as failed or, when the database is busy, as done.  `run` is the
run in progress.  The server may die between its steps, and dies by itself where
the code dereferences null: a scheduled run of a stream with no arguments
(routines.cpp:289) or of a routine that is not in the table.  A list of targets
is how often it names each node (`Lists`): the code splits a text at its commas,
keeps what is there twice, and a scheduled run sends to one entry after the
other (utils.cpp:351, routines.cpp:307-331), while a login is sent a routine
once however often its node is named (routines.cpp:264-276).  The order of the
entries is left out; a run goes through them in any order.  `sent` counts what
RUNONCE routines sent to each node since they were last added or their flags
set, and `named` is how often their lists have named it, at most, since then.

### Vault

`rows` is the rows of vaultdb, authtokens and globalconfig under one key each;
`made` counts the tables InitializeEmptyDB has made.  A handler runs alone on
the main thread and is one action, but each function of db.cpp in it opens the
database anew, and any one of its statements may fail or find the database
busy: `f` gives the fate of each.  SQLITE_BUSY is neither SQLITE_DONE nor
SQLITE_ROW, and the code takes it for success in a write and for a missing row
in a read; so a change that met it is not counted in `acked`, which has what
each change that was acknowledged left.  The permissions of a token are the bit
mask of the code, as a set.  Arguments have the right types; what an answer
carries beside its status is left out.

### NodeJobs

The main thread handles one stream after the other: `Handle` (the dispatch of
HandleInterfaceRequest, StartJob, the kills, N2N), the join of a killed job, the
copies for scripts (ForwardToScriptJobs), and in any pause ProcessCompletedJobs
with its iterator as it is, one round of its loop a step (`Sweep`) while the
jobs go on: it skips the job behind an erased one, and begins again behind the
last.  Each job has a thread (`step`), a request queue and an N2N queue of class
ConationQueue; Pop takes an element without its post, which is why `posts` is a
variable of its own.  `lock`, `path` and `cwd` are the mutex, the stored path
and the process's directory.  A script asks for copies, polls or waits for a
stream, changes directory and returns, in any order up to `MaxCalls`.  A kill
cancels the thread, which ends where POSIX makes it a cancellation point (a
wait, or work that the code cannot be inside for ever), and the main thread
joins it.  What a job's own work does is only whether it succeeds.  `Leads` is
chdir(): where a target leads from a directory, if anywhere; a directory's own
name leads to it from everywhere while it is there.

`ExitVisible` is that of `WriteQueue`: ProcessCompletedJobs asks Alive() whether a
job's thread has returned (node/jobs.cpp:904-924).  The run takes TRUE, and Reaped
rests on it.  With FALSE, as with glibc since 2.34, Alive() stays true until the
thread is joined, which only a kill does: no finished job ever leaves JobsList, and
Reaped does not hold.  The invariants and KillsAll are proved for both.

The streams of one behaviour are chosen at its start (`plan`), from twenty
sequences that bring together what touches the same state: directories, loaded
scripts, kills and finished jobs, node-to-node streams, an update.  All
sequences of three streams would be some ten thousand plans of mostly unrelated
jobs.

### Conation and ArgList

`ArgList` is the promise: a stream is a header and a list of arguments with a
place in it, a pop gives the argument at the place, and what is sent is
received.  `Conation` has what the code has: bytes behind a 17-byte header that
contains their size, an iterator into them that is null until it is needed, and
each function's own arithmetic on both.  Bytes are counted and not spelled out:
`cells` has, of each argument, where its bytes end in the vector, so that the
size of a vector is where its last argument ends, one that is cut ends too early
for its type, and every pointer of the code is an offset.  `index` and the size
in the header are the code's own; nothing in the model makes them agree with the
bytes.  A Merge of `ArgList` may leave the last arguments out, when some were
popped before: the code does that (section 4).  Transmit writes in chunks, the
other side reads with short reads, and the connection can break between any two.
Left out: who owns the data of a BinStreamArg, and a push behind a pop, which
C++ code of the repository does not do (scripts do: `LuaStream`).

### LuaStream

The class VL.ConationStream of scripts over lists of arguments: New, Clone, the
pushes of all types, Pop and PopArguments, PopJobArguments, BuildResponse.  It
is a second implementation of `ArgList`, with a script as its caller, so that
any order of calls is possible.  A value is what a script hands to Push, of any
kinds of Lua; `Accepts` is what the code lets pass, and `Stored` what it makes
of that.  `Half32` and `Half64` are 2^31 and 2^63, or halves of smaller powers,
2 and 4 in the run: all that the conversions depend on is how many numbers there
are of a width, and how many of them are not negative.  An integer of Lua has 64
bits and lua_tointeger is that of Lua 5.3.  Texts are numbers, with four
functions: `Cut` to the first NUL, `Base` without directories, `Numeral` as
lua_tointeger reads it, and `Default`, the message of a status code.  The
contents of a file are any of `Contents`.  A place that a push left behind
(`stale`) points into freed memory: a pop through it may give anything or
nothing, or end the node (`PopStale`), what it gives is not counted in `given`,
and neither GivenOnce nor ListSpec says anything about it.  Calls whose
exception passes Lua and ends the node set `died`; section 4 has them.

### Update

One node and its server, from a binary in the server's table to the process
that runs it.  `own` and `temp` are the two paths on the node's disk: nothing, a
binary, or a part of one (`Torn`).  `running` is what the process was executed
from, with the identity it goes by, and `pc` goes through Begin, the main loop,
AttemptUpdate and InitStage1 (murdered, closed, written), the process at the
temporary path (stage1, copying, copied) and the updated one (stage2).  Each
file operation, exec and write to the table may fail, the node, the server and
the connection may end between any two steps; `MaxFaults` bounds all of these.
The queues are lists with a thread that moves their heads.  A failed update
releases the head of the read queue, and MasterLoop then releases another: that
is ReleaseAgain, and `dropped` records when it takes an order.  A binary is its
five brands; branding sets two of them if it finds them all.  `Images` are the
binaries that can come to be on the node's disk.

## 3. The runs

| Run | Instance | Distinct states | Properties |
|---|---|---|---|
| `writequeue` | 2 pushers, 2 streams, 2 connections | 399,182 | IInv (NothingLostOrRepeated, NoLostWakeup, HeadHeld), OutboxSpec, Drains, StopReturns |
| `readqueue` | 3 streams, 2 connections | 72,397 | IInv (HeldStill, OnceInOrder, MutexHeld), InboxSpec, Progress |
| `serverloop` | 1 node and ADMIN, 3 connections | 129,348 | Safe (AdminPointer, NoDangling, OneLock, StreamHeld, NoLeak), Served, BrokenRemoved, Answered (all three as long as LoginsEnd) |
| `heartbeat` | Interval 12, Pingout 3, Delay 1, Handshake 2 | 47,825 | Safe (OnlyDeadClientsPingOut, OnlyDeadServersPingOut), DeadClientDropped, NodeComesBack |
| `registry_safety` | 2 nodes, tokens, groups, revisions | 9,484 | Safe (RowMatchesClient, ShownOnlineIsOnline), AdminViewCurrent, KilledStaysOut, GroupKept |
| `routines_safety` | 1 routine, 2 nodes, 2 crashes, 2 failed writes | 257,149 | Safe (MemoryIsDisk), AckedOnDisk, OncePlusFaults |
| `vault` | 2 nodes, 2 tokens, an item, a setting | 92,252 | Safe (AckedIsStored, OriginIsAuthor, OnlyLoginKills), OthersKept |
| `nodejobs` | 20 plans of up to 3 streams, 3 script calls | 50,153 | JobsSafe (ThreadHasJob, HandedOnce, WaitFindsStream, CwdIsPath, OnlyUnloadKills), AnsweredOnce, KillsAll, Reaped, KillReturns |
| `conation` | 2 objects, 3 arguments, 2 on the wire | 37,330 | Safe (every stream WellFormed), ChecksAgree, ListSpec, Delivered |
| `luastream` | 2 variables, 3 arguments, 1 of them neither text nor ODHEADER; 2- and 3-bit integers | 258,814 | LuaSafe (GivenOnce), ComesBack, ListSpec |
| `update` | 2 starts, 3 orders, 2 faults | 340,495 | Safe (WholeSomewhere, RunsWhatStarts, NeverReinstalls), ServerKnows, KeepsIdentity, UpdateEnds, Converges |
| `conation_merges_seeked` | as `conation` | violation | MergesSeeked |

Safe (JobsSafe, LuaSafe) is, in each module, the conjunction of its TypeOK with
the invariants in brackets, which have names and comments of their own; IInv, in
the queues, is the inductive invariant of the proofs.  When one is violated,
name a part in the `.cfg` to see which.

Bounds, and why they are enough:

* Queues.  Two pushers can each be between adding and posting while the other
  adds, and the second stream is behind one that is being written.  Two
  connections are one that fails and one that follows it.  `MaxPosts` keeps
  StopThread with a limit from posting without end.
* ServerLoop.  With three connections each identity can be replaced while
  another is deleted, and ADMIN is an element before or behind the one that a
  handler deletes.  No symmetry, for liveness.  The same properties hold of two
  nodes (535,764 states), and Safe is proved for all.
* Heartbeat.  Interval is four times Pingout as in netcore.h; 3 is the least
  Pingout that meets the assumptions with a Delay above 0.  Both bounds that it
  states are reached.
* Registry, Routines and Vault.  Two of each kind tell "this one" from "another
  one"; two faults let one hit the remedy of the other.  In Vault one statement
  of a handler goes wrong at a time: the handlers have up to four, and look at
  the result of each by itself.  Three sets of permissions cover all seven.
* NodeJobs.  Three streams are a job, one that meets it, and one that kills,
  unloads or follows.  An iterator that skips needs two jobs in the list.
* Conation.  Two objects: one is copied, moved or appended to the other, and
  streams of both are on the wire.  MaxStreamArgsSize admits two
  arguments and refuses the third, and a chunk is smaller than a stream.  The
  file is as long as a header, 17 bytes, the one length at which AppendArgData
  cuts between two arguments.  `MaxList` bounds the lists of types to check
  against: two types are a list that repeats and one that does not.
* LuaStream.  Two bits against three (halves of 2 and 4) are the least at which
  a 32-bit integer can be cut off and an unsigned one turn negative.  Four texts
  are an empty one, a numeral, a path and one with a NUL; the values are of all
  ten types that differ in the model, and are taken whole, changed or refused.
  PopJobArguments needs three arguments, so one more of the others (`MaxOthers`)
  would only be pushed behind or between.
* Update.  Two starts let a node come back after a crash in an update; three
  orders are two binaries and an order behind them; two faults are one that
  breaks an update and one that breaks its repair.

Deadlock is not looked for in the runs of the queues, because an idle or
destroyed queue is an end; nor in NodeJobs, Conation and Update, which end with
their plan, with an exception nobody catches, or with their last start.

Fairness.  WriteQueue: weak fairness of the queue's thread, of a push that has
begun and of a StopThread that has begun: the scheduler of the system runs
them.  Nothing makes a connection fail, and a write on a working one ends.
ReadQueue: strong fairness of its thread and of Head_Acquire, whose mutex is
free again and again since the owner sleeps between two looks and the thread
between two streams; weak fairness of Head_Release.  ServerLoop: strong
fairness of Head_Acquire for the same reason, weak fairness of the rest of the
main thread and of a read thread that is in its locked part; none of clients, and so
none of the end of a login, which is a client's to send: nothing in the code ends
that wait.
NodeJobs: weak fairness of the main thread, of ProcessCompletedJobs, which
MasterLoop calls in every round, and of each job's thread and its cancellation;
none of the server's streams or of what a script asks for.  Conation: weak
fairness of Net::Write and of the other side's reads while the connection is up.
Update: weak fairness of the node's steps, of each thing the server reads, and
of the queues' threads; none of starts, crashes, faults or the administrator.

## 4. Findings

**AppendArgData loses arguments** (`conation_merges_seeked`).  "Merges the seeked
argument data of the input into this stream" (libvolition/include/conation.h:306).
The size of what is left behind the iterator is computed from the size of the
arguments less the header and less the iterator's offset, which has the header
in it too (conation.cpp:1428): the header is taken off twice.  The copy is 17
bytes short.  It ends in the middle of an argument, and IntegrityCheck throws;
or between two, when the last ones are 17 bytes long together, and they are
missing and nothing tells; or, with less than 17 bytes left, the unsigned size
wraps: capacity() plus it is less than capacity(), so that reserve() does
nothing, resize() makes the vector shorter, and memcpy is given nearly 2^64 bytes.
The server does this with every routine whose
stream has an ODHEADER (server/routines.cpp:327, :373).

Seen in a model, and kept there as a definition that does not hold (name it in
the module's `.cfg` to get the trace):

* A failed update drops the next order (Update, OnlyUpdateDiscarded):
  node/updates.cpp:304-306 releases the head of the queue and MasterLoop
  releases another, which may be the update that the server sent again.
* ProcessNodeDisconnect releases a queue it did not acquire (ServerLoop,
  ReleasesWhatItLocked): for a client other than the active one the head is
  popped and the mutex unlocked without having been locked
  (server/clients.cpp:514), possibly while its read thread is in the locked part.
* A server can run with half its tables (Vault, HasAllTables): InitializeEmptyDB
  is called only when there is no file (server/core.cpp:136), so a crash between
  two CREATE statements leaves tables missing for good.

Seen while reading:

* Queues.  A stop does not flush: "Give them a chance to finish sending data"
  (server/clients.cpp:497), but the thread looks at ThreadShouldDie before it
  looks at the queue (netscheduler.cpp:161); so A2C_SLEEP's answer may not leave
  (node/cmdhandling.cpp:64-85).  SetNumOnQueue gets a size read without the
  mutex (netscheduler.cpp:147-149, :212), so an older size can overwrite a newer
  one; CheckPingsAndQueues then sends that client no pings, and TerminateLink of
  the control program waits, until the next stream.  Since glibc 2.34
  pthread_kill does not fail for a thread that returned and is not joined, and
  StopThread() spins (vlthreads.cpp:176); nor does a node then reap any finished
  job (jobs.cpp:904-924).  A cancellation unwinds through a
  `catch (...)` without a rethrow (netscheduler.cpp:191), at which glibc aborts.
  A read and a write thread use one SSL object (netcore.cpp:325).
* Server.  A TLS handshake and a login have no time limit and are on the main
  thread (libvolition/netcore.cpp:159, server/clients.cpp:129): a client that
  connects and says nothing stops the server for everybody (ServerLoop,
  LoginsEnd).  RUNONCE can run twice without a crash: the result of switching a
  routine off is dropped (routines.cpp:342), and a later change of its schedule
  or targets copies the table's entry back to memory.  A list of targets keeps a
  node that is in it twice (cmdhandling.cpp:1139, libvolition/utils.cpp:351),
  and each scheduled run then sends it the stream twice, RUNONCE or not
  (routines.cpp:307-331).  No pings are sent during a transfer
  (clients.cpp:443).  SQLITE_BUSY is taken for success by every write of db.cpp.
  A login whose UpdateNodeDB fails leaves a node without a row
  (clients.cpp:309).  A scheduled routine whose stream has no arguments
  dereferences null (routines.cpp:289), and so does a FETCH or a login whose row
  is gone.  The reply to A2S_INFO is owned twice (cmdhandling.cpp:304, :315,
  against clients.h:97).  PROVIDEUPDATE takes binaries that lack brands, and the
  first login that would get one ends the server with an uncaught
  CorruptedBinary.  A provided update reaches a node only at its next login.
* Node.  StopThread waits for a transfer on a dead connection (main.cpp:162).
  A login's answer is read with no limit, and only one kind of exception is
  caught there (interface.cpp:69-71).  A2C_HOSTREPORT is handed to StartJob,
  which has no function for it (cmdhandling.cpp:123).  ProcessCompletedJobs steps
  over a job, or past the end of the list (jobs.cpp:904-924).  CHDIR stores a
  relative path as given (jobs.cpp:857).  A job that asks for copies before
  ForwardToScriptJobs has run gets its own request again.  EXECFUNC counts the
  scripts of a name and then looks one up, without a lock (jobs.cpp).
  WaitPop after Pop runs into an empty queue.  FILES_FETCH of a missing file
  throws uncaught (jobs.cpp:455).
* Updates.  A failed update never starts the startup script again, leaves its
  temporary binary on the disk, and starts the queues on an SSL object that
  Net::Close has freed.  A crash in the middle of the copy leaves a node whose
  own path does not start.  Files::Delete and Files::Copy recurse into "." and
  "..".
* Scripts.  A push between two pops may move the vector and leave the place of
  the pops in freed memory (conation.cpp:613): what the next pop gives is
  undefined.  GetArgTypes of a stream with no arguments dereferences null
  (script.cpp:2290-2292) and ends the node; so do PopJobArguments and
  BuildResponse of a stream they do not expect, and the push of a file that is
  not there, whose exceptions nobody catches.  A status code is whatever
  lua_tointeger makes of a value (script.cpp:2337): what is neither a number nor
  a numeral is 0 and becomes STATUS_FAILED, and the push says true.  A file with
  contents is always refused (script.cpp:2427), and one without, a nil in its
  place, is taken as empty.  What is popped of a file is its name without
  directories and its contents, not the path.  Texts end at their first NUL.
  CloneConationStreamToLua may close a state twice.  LuaThread counts its
  references and joins without a lock (script.cpp:306-671).

## 5. What is proved

TLAPS proves, for every value of the constants that meets the named assumptions
of each module:

* `Streams_proofs`, of WriteQueue: TypeOK, HeadHeld, NothingLostOrRepeated,
  NoLostWakeup, and `Spec => OutboxSpec`.  The invariant is `IInv = TypeOK /\
  HeadHeld /\ NothingLostOrRepeated /\ NoLostWakeup /\ DestroyedIsQuiet`.
  HeadHeld carries the rest: the thread writes and pops outside or after the
  mutex, and only because nobody else removes is the popped stream the one it
  wrote.  DestroyedIsQuiet says that a destroyed queue is empty and has no
  thread.  The lemma StreamSteps reduces every step to Accept, Transmit, Close
  or none, and both the order of the streams and the refinement follow from it.
* `Streams_proofs`, of Conation: Safe, ChecksAgree, and `ConationSpec => ListSpec`,
  the refinement of ArgList, for any objects, arguments, texts and commands, any
  number of idents beside the flags, any chunk size and any fragments that reads
  return.  Safe is inductive.  Behind it are facts about sequences of ends:
  whole arguments end one behind the other (Ends), so an offset is the end of at
  most one (TheCell); cutting at an offset keeps the arguments that end before
  it (CutCells); and whole arguments joined to whole ones are whole
  (JoinedCells).  What AppendArgData joins is cut at a wrong place, and it is its
  IntegrityCheck that keeps such a vector from being used (AppendedStream).
  These facts go by induction up to a number (UpTo), which rests on the
  well-foundedness of the natural numbers.
  The refinement has a lemma for each call; the content of an ArgList is the
  cells without their ends, its place the cell where the iterator stands.
  ArgumentChecks follows the counter of VerifyArgTypePattern through its rounds
  (Repeated, Repeats): it is the remainder of the round by the length of the list.
* `ReadQueue_proofs`: TypeOK, HeldStill, OnceInOrder, and `Spec => InboxSpec`.
  The invariant adds MutexHeld (the mutex belongs to whoever is between lock
  and unlock) and Owned (a thread about to add has a stream).  KeptSteps is the
  counterpart of StreamSteps.
* `Heartbeat_proofs`: TypeOK and all four properties, for every interval,
  ping-out, delay and login time.  The invariant has a part for what is on the
  wire and who is in a transfer (Shape), one for the server's clock while an
  answer is due (AnswerInTime), one that relates the node's LastPing to the
  server's SentTime (PingInTime: the node was pinged at most a login before,
  unless transfers held the pings back, and then it was active), and one for
  each of the two histories (QuietCounted, AwayCounted).
* `Registry_proofs`: TypeOK, RowMatchesClient, KilledStaysOut, AdminViewCurrent
  with ShownOnlineIsOnline, and the action property GroupKept.  RowMatchesClient
  is inductive by itself, and the administrator's list rests on it: an index is
  built from clients and a notification from rows.  KilledStaysOut needs
  that no revoked token is in the table.
* `Routines_proofs`: TypeOK, MemoryIsDisk, AckedOnDisk, OncePlusFaults.  A run in
  progress is one of a routine that memory and table have and memory has on
  (RunValid).  Credit is behind OncePlusFaults: a routine still switched on in
  memory or table has one send to its credit for every time its list names a node,
  a run in progress those it has yet to make, and only a fault can give any back.
  Listed says that neither memory nor table has a list that names a node more often
  than `named` does.  The bound is for lists of any length, with nodes in them as
  often as one likes; for one that names a node once it is one send, and one more
  for each fault.
* `ServerLoop_proofs`: TypeOK, AdminPointer, NoDangling, OneLock, StreamHeld and
  NoLeak, for any nodes, any order of their identities on ClientMap, and any
  number of connections and streams.  None of them is inductive; the
  invariant says where the main thread is and, there, which of its variables
  mean something (Places), that clients are on the map under their identity
  (MapMatches), that a newcomer finds its place free or will when the old
  administrator is gone (Room), what ProcessNodeDisconnect works on and that
  CurrentAdmin is the map's in the meantime (VictimMatches), that a handler
  disconnects only clients that are still there, and its own alone (KillsMatch),
  that the iterator stands on the client being handled (IterMatches), and
  whose mutex is held (LocksMatch).  SkipHeadRelease is what it turns on: it
  is set when, and only when, the client being handled is the one that goes,
  and every part that speaks of that client is conditional on it.  A part of
  LocksMatch is weaker than one would like, between the two steps of
  ProcessNodeDisconnect: Head_Release has then freed a mutex its read thread
  may hold (section 4), and the deletion that follows is what makes it
  harmless.  FirstIn, that a non-empty part of the map has a first identity,
  rests on the well-foundedness of the natural numbers.
* `Vault_proofs`: TypeOK, AckedIsStored, OriginIsAuthor, OnlyLoginKills and the
  action property OthersKept, for any clients, items, tokens, settings and sets
  of permissions.  The three invariants are inductive together, once the tables
  are known to be functions.  The argument is about what the functions of db.cpp
  return: Honest says that a change did what its result says unless it met a
  busy database, and UpdateHonest that the lookup and the write of an
  Update...DB are honest together, whatever becomes of either: of a row that
  a busy database hides the code tries to make a second one, and is refused.
  CalmFinds is the other half: while the database answers a lookup finds the
  row that is there, so permissions are looked at with the owner of that moment.
* `Node_proofs`, of Update: TypeOK, WholeSomewhere, RunsWhatStarts, NeverReinstalls,
  ServerKnows and the action property KeepsIdentity, for any binaries, any number
  of starts, orders and faults.  The invariant says, for each place of the
  process, which of the two files is whole and which one it was executed from
  (DiskInv); that what lies in its queues is for its identity, not to what it runs,
  and true of it, and that the order it is working on is at their head until a
  process ends (QueueInv); and that a connection exists only in the places
  where a process can be asked again, so that nothing of an earlier program
  reaches a later one (LinkInv, ToNodeInv, ClientInv).  BrandIsImage, that
  branding sets the identity and the token and nothing else, is what carries an
  identity through an update.
* `Node_proofs`, of NodeJobs: JobsTypeOK, ThreadHasJob, HandedOnce,
  WaitFindsStream, CwdIsPath, OnlyUnloadKills (JobsAreSafe), AnsweredOnce, and the
  action property KillsAll, for any startup script and any streams, scripts that
  call in any order and number, any directories, and for both answers that
  pthread_kill may give for a thread that has returned.  None of them is
  inductive; JobsInv, the invariant, says that a job was started by a stream of its
  own command, and no two by the same one (Asked); what the main thread is
  handling, and that it is not a node-to-node stream once it is past ForwardN2N
  (Handling); that a thread that runs is in JobsList, that a job the main thread
  joins is there too, and that a job about to take its request has one in its queue
  (Places); that a stream no job or handler has finished with has no answer
  (Answers); that the copies handed to a job are none older than its request, in
  order, and older than the stream that is being handled until that is copied too
  (Handed); and how the posts, the directory and the loaded scripts go together
  (Shared).  Answers is where the work is:
  a request is answered by the thread that takes it, or by the main thread in the
  same step, and it is Asked that keeps two jobs from answering one stream.
  StepCases and ThreadFrame reduce the thirty-odd steps to what each may change;
  a lemma then goes through them for each part of the invariant.
  RemoveAtProperties and ErasedList are about the list that a job is erased from,
  and LeastOne, that the kill finds a first job, rests on the well-foundedness of
  the natural numbers.
* `Node_proofs`, of LuaStream: LuaSafe, ComesBack, and `LuaSpec => ListSpec`, the
  refinement of ArgList, for any variables, values, texts, status codes and widths
  of integers.
  LuaSafe is inductive: LuaChanged and LuaStreamsStep say that every call leaves
  the streams alone or gives one handle a stream at its start, or one that begins
  as its own did as far as it was popped.  ComesBack says, both ways, which values
  come back: what the argument has room for as it was, all else changed.
  LuaModulo and LuaSigned are the arithmetic of the conversions, LuaInteger what
  lua_tointeger gives, LuaAccepted what kinds a push lets pass; LuaNumbersBack,
  LuaStatusBack and LuaOthersBack are the three groups of types, and LuaODHeader
  and LuaTurned the ODHEADER that BuildResponse turns round.
  In the refinement a call that only looks, or throws, is
  a Retitle to the header the stream has (a Free, when there is no stream), New is
  Make, Clone is Load, PopJobArguments is PopFirst, and BuildResponse is Answer.
  What a pop gives through a place that a push left behind is hidden by the mapping
  (`Told`), and nothing is proved of it.

The assumptions are the `ASSUME`s of the modules: ConstantsAssumption of each,
NoneAssumption of Registry, TimelyAssumption of Heartbeat.  That of Vault says
that the three tables have no key in common and that None is neither a set of
keys nor an answer; that of Update, that binaries are functions of their brands,
that none is None or Torn, and that the node is installed with its server's
address and token.  JobsAssumption says that streams are of the commands the
node knows and no more than MaxStreams, and that chdir() leads from each
directory to a directory or nowhere, by a directory's own name to it or nowhere.
LuaAssumption says that a 64-bit integer has a bit more than a 32-bit one at
least, that status codes are small, what cutting a text at its NUL and taking a
name off a path leave as it is, that default messages are texts without NUL, and
that Gone is neither a header nor a stream.  ConationAssumption says that idents
are below IdentValues, that Null is neither an argument nor an offset and Gone
neither a stream nor a header, and that a chunk and a fragment have a byte at
least.

Update, NodeJobs and LuaStream have their theorems in one module because they
are parts of one program, Conation and WriteQueue because the one is what the
other sends.  They share no variable, and no proof about one uses another.

Only model-checked: liveness under fairness (Drains, StopReturns, Progress,
Served, BrokenRemoved, Answered, Delivered, Reaped, KillReturns, UpdateEnds,
Converges), which is out of the prover's reach.  Bounds that only keep an
instance finite (MaxCalls, MaxStreams, MaxOnWire, `Size` in LuaStream) are not
stated as properties, and no proof needs them; MaxArgs of Conation is in Safe,
since ChecksAgree looks at offsets up to it.

## 6. Not modelled, and plan

Not modelled, and why:

* GTK, Qt and FLTK windows, tools for binaries and tokens, the log: no state
  that more than one event touches, or plain I/O.
* Files, processes and web of the node: thin layers over system calls and
  libcurl.
* TLS, sockets and SQLite themselves: the models have what the code sees of them.
* Threads that a script starts (LuaThread, node/script.cpp:306-671): reading
  shows data races whose outcomes the code does not bound; a model would be of
  the interpreter more than of the code.
* Which seconds a schedule matches: a pure comparison of fields.

Plan:

1. **StreamLink**: an Outbox and an Inbox composed over a connection that is cut,
   as what two programs may expect of each other.
2. **ControlLink**: login, PrimaryLoop, TerminateLink and the pending answers of
   the ticker.
3. **LuaThread**, once its intended ownership of states is stated somewhere.
