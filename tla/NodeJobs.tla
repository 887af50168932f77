------------------------------ MODULE NodeJobs ------------------------------
(***************************************************************************)
(* The jobs of a node (node/jobs.cpp): the main thread handles one stream  *)
(* of the server after the other (node/interface.cpp, node/cmdhandling.cpp)*)
(* and starts a thread for each job; a job takes its request from a queue  *)
(* that the main thread fills (ConationQueue, conation.h), does its work   *)
(* and pushes its answer.  Jobs that run scripts (node/script.cpp) may ask *)
(* for copies of what else comes in.  All jobs share the process's working *)
(* directory and the table of loaded scripts.                              *)
(*                                                                         *)
(* Streams are numbered as they come.  A request's arguments start with    *)
(* the ODHEADER that the server requires, and are otherwise good or not.   *)
(* Working scripts return or wait; one that spins is not modelled.         *)
(***************************************************************************)
EXTENDS Integers, Sequences, SequencesExt

CONSTANTS
  Plans,        \* [startup: is there a startup script, sent: the streams of the server]
  MaxStreams,   \* bound: how long they are
  MaxCalls,     \* bound: what the scripts ask of the node, all together
  Home,         \* the directory the node starts in
  Leads,        \* chdir(): [directory, target -> directory or Nothing]
  ExitVisible,  \* does pthread_kill(t, 0) fail for a thread that returned (WriteQueue)
  Nothing

Ops == {"STARTUP", "EXECCMD", "FILES_MOVE", "FILES_COPY", "FILES_DEL", "FILES_PLACE",
        "FILES_FETCH", "LISTDIRECTORY", "GETPROCESSES", "KILLPROCESS", "GETCWD", "CHDIR",
        "EXECSNIPPET", "MOD_EXECFUNC", "MOD_LOADSCRIPT", "MOD_UNLOADSCRIPT", "HOSTREPORT"}
Kills == {"KILLJOBID", "KILLJOBBYCMDCODE", "USEUPDATE"}
Others == {"N2N", "REPORT", "GETJOBSLIST", "PING", "ECHO", "NOOP", "UNKNOWN",
           "SLEEP", "DISCONNECT"} \cup Kills

Dirs == {d[1] : d \in DOMAIN Leads}
Targets == {d[2] : d \in DOMAIN Leads}
Reasons == {"exit", "updated", "entry", "short", "vanished", "unloaded", "empty"}

\* A directory's own name leads to it from where one is, if it is there.
ASSUME JobsAssumption ==
  /\ \A p \in Plans :
       /\ p.startup \in BOOLEAN /\ p.sent \in Seq(Range(p.sent)) /\ Len(p.sent) <= MaxStreams
       /\ \A i \in 1..Len(p.sent) :
            /\ p.sent[i].op \in (Ops \ {"STARTUP"}) \cup Others
            /\ p.sent[i].op = "CHDIR" => p.sent[i].arg \in Targets
  /\ MaxStreams \in Nat /\ MaxCalls \in Nat /\ ExitVisible \in BOOLEAN
  /\ DOMAIN Leads = Dirs \X Targets /\ Home \in Dirs \cap Targets
  /\ \A d \in DOMAIN Leads : Leads[d] \in Dirs \cup {Nothing}
  /\ \A d \in Dirs \cap Targets : Leads[<<d, d>>] \in {d, Nothing}
  /\ Nothing \notin Reasons \cup Dirs

VARIABLES
  plan,      \* what the server sends, and is there a startup script
  streams,   \* the streams handled so far
  main,      \* where the main thread is: "idle", "sweep", "forward", "kill", "join"
  victim,    \* the job it joins
  found,     \* FoundOne of KillJobByCmdCode
  list,      \* JobsList, by JobID
  counter,   \* JobIDCounter
  iter,      \* where ProcessCompletedJobs is in the list, 0 outside of it
  step,      \* where the thread of each job is
  op,        \* CmdCode
  request,   \* the stream the job was started with, 0 for the startup script
  inbox,     \* Read_Queue
  n2n,       \* N2N_Queue
  posts,     \* the count of its semaphore PushEvent
  capture,   \* CaptureIncomingStreams
  receive,   \* ReceiveN2N
  calls,     \* how much scripts have asked for
  cancelled, \* the threads pthread_cancel was called for
  path,      \* JobWorkingDirectory.Path
  lock,      \* who holds JobWorkingDirectory.Mutex
  cwd,       \* the working directory of the process
  scripts,   \* Script::LoadedScripts, of one name: is it loaded
  down,      \* why the process ended, or Nothing
  answers,   \* history: the answers pushed for each stream
  got,       \* history: what was put into each inbox and N2N_Queue, in order
  polled,    \* history: has the job taken from N2N_Queue without waiting
  strayed    \* history: was the directory changed by a script, or CHDIR given
             \* a target that is relative or not there

mainVars == <<streams, main, victim, found, list, counter, iter>>
askVars == <<op, request, capture, receive, calls>>
queueVars == <<inbox, n2n, posts, got>>
dirVars == <<path, lock, cwd, strayed>>
jobsVars == <<plan, mainVars, step, askVars, queueVars, cancelled, dirVars, scripts, down,
          answers, polled>>

Ids == 1..(MaxStreams + 1)
Now == Len(streams)
Cur == streams[Now]
Listed == {list[i] : i \in 1..Len(list)}
Up == down = Nothing

Scripted == {"STARTUP", "EXECSNIPPET", "MOD_EXECFUNC"}
Peeks == {"EXECSNIPPET", "MOD_EXECFUNC"}
WithoutEnv == {"MOD_LOADSCRIPT", "MOD_UNLOADSCRIPT"}
Running == {"enter", "lock", "take", "work", "at", "script", "wait"}
\* A mistake one could make: a wait that does not end with its thread.
CancellableAtWork == {"work", "script"}

\* Where a thread may be cancelled: it reads, writes, or waits for a semaphore.
Cancellable == {"work", "script", "wait"}

-----------------------------------------------------------------------------
(* A job is started, forgotten, or killed.                                 *)

NewJob(code, n) ==
  LET id == counter + 1
  IN /\ counter' = id
     /\ list' = Append(list, id)
     /\ op' = [op EXCEPT ![id] = code]
     /\ request' = [request EXCEPT ![id] = n]
     /\ step' = [step EXCEPT ![id] = IF code \in WithoutEnv THEN "take" ELSE "enter"]
     /\ inbox' = IF n = 0 THEN inbox ELSE [inbox EXCEPT ![id] = <<n>>]

\* Thread::Alive of a listed job.
Alive(id) == step[id] \in Running \/ ~ExitVisible

Erased(i) == list' = RemoveAt(list, i)
PlaceOf(id) == CHOOSE i \in 1..Len(list) : list[i] = id

StaySweeping ==
  UNCHANGED <<streams, victim, found, counter, step, askVars, queueVars, cancelled, dirVars,
              scripts, down, answers, polled>>

\* The main thread looks for finished jobs when no stream has come.
ProcessCompletedJobs ==
  /\ Up /\ main = "idle"
  /\ main' = "sweep" /\ iter' = 1
  /\ UNCHANGED list /\ StaySweeping

\* A mistake one could make: ending at the first job that is alive.
SweepUntilAlive ==
  /\ Up /\ main = "sweep"
  /\ IF iter <= Len(list) /\ ~Alive(list[iter])
     THEN Erased(iter) /\ UNCHANGED <<main, iter>>
     ELSE main' = "idle" /\ iter' = 0 /\ UNCHANGED list
  /\ StaySweeping

\* One round of its loop, while the jobs go on: behind an erased job it skips
\* one, and behind the last it steps past the end, where the list of this
\* library begins again.
Sweep ==
  /\ Up /\ main = "sweep"
  /\ \/ iter > Len(list) /\ main' = "idle" /\ iter' = 0 /\ UNCHANGED list
     \/ iter <= Len(list) /\ Alive(list[iter]) /\ iter' = iter + 1 /\ UNCHANGED <<main, list>>
     \/ /\ iter <= Len(list) /\ ~Alive(list[iter]) /\ Erased(iter)
        /\ iter' = IF iter = Len(list) THEN 1 ELSE iter + 1
        /\ UNCHANGED main
  /\ StaySweeping

-----------------------------------------------------------------------------
(* The main thread.                                                        *)

Takes(s) ==
  /\ Up /\ main = "idle" /\ Now < Len(plan.sent) /\ s = plan.sent[Now + 1]
  /\ streams' = Append(streams, s)

AnswerMain(status) == answers' = [answers EXCEPT ![Now'] = Append(@, status)]

UnchangedJobs == UNCHANGED <<step, askVars, queueVars, cancelled, dirVars, scripts, polled>>

\* HandleServerInterface gives a node-to-node stream to the jobs that asked for
\* them, the one it names or all, and does not forward it twice.
ForwardN2N(s) ==
  /\ Takes(s) /\ s.op = "N2N"
  /\ LET to == {id \in Listed : receive[id] /\ s.job \in {0, id}}
     IN /\ n2n' = [id \in Ids |-> IF id \in to THEN Append(n2n[id], Now') ELSE n2n[id]]
        /\ posts' = [id \in Ids |-> IF id \in to THEN posts[id] + 1 ELSE posts[id]]
        /\ got' = [id \in Ids |-> IF id \in to
                     THEN [in |-> got[id].in, n2n |-> Append(got[id].n2n, Now')] ELSE got[id]]
  /\ UNCHANGED <<main, victim, found, list, counter, iter, step, askVars, inbox, cancelled, dirVars,
                 scripts, down, answers, polled>>

AtOnce(s, status) ==
  /\ IF status = Nothing THEN UNCHANGED answers ELSE AnswerMain(status)
  /\ main' = "forward"
  /\ UNCHANGED <<victim, found, list, counter, iter, down>> /\ UnchangedJobs

\* A ping or an echo goes back, a report or NOOP has no answer,
HandleAtOnce(s) ==
  \/ Takes(s) /\ s.op \in {"PING", "ECHO"} /\ AtOnce(s, "done")
  \/ Takes(s) /\ s.op \in {"REPORT", "NOOP"} /\ AtOnce(s, Nothing)
\* the numbers and codes of the listed jobs are told,
BuildRunningJobsReport(s) ==
  Takes(s) /\ s.op = "GETJOBSLIST" /\ AtOnce(s, [i \in 1..Len(list) |-> <<list[i], op[list[i]]>>])
\* and what a node does not do is answered so.
HandleUnknown(s) == Takes(s) /\ s.op = "UNKNOWN" /\ AtOnce(s, "misused")

\* SLEEP is answered and, like DISCONNECT, ends the process.
HandleSleep(s) ==
  /\ Takes(s) /\ s.op \in {"SLEEP", "DISCONNECT"}
  /\ IF s.op = "SLEEP" THEN AnswerMain("done") ELSE UNCHANGED answers
  /\ down' = "exit"
  /\ UNCHANGED <<main, victim, found, list, counter, iter>> /\ UnchangedJobs

StartJob(s) ==
  /\ Takes(s) /\ s.op \in Ops
  /\ NewJob(s.op, Now')
  /\ main' = "forward"
  /\ UNCHANGED <<victim, found, iter, capture, receive, calls, n2n, posts, got, cancelled, dirVars,
                 scripts, down, answers, polled>>

HandleKill(s) ==
  /\ Takes(s) /\ s.op \in Kills
  /\ main' = "kill" /\ found' = FALSE
  /\ UNCHANGED <<victim, list, counter, iter, down, answers>> /\ UnchangedJobs

\* The jobs the current stream means: of a number, of a command code, or all
\* (MurderAllThreads of an update).
ByID(id) == id = Cur.job /\ ~found
ByCmdCode(id) == op[id] = Cur.arg
All(id) == step[id] # "joined"
Meant == {id \in Listed : CASE Cur.op = "KILLJOBID" -> ByID(id)
                             [] Cur.op = "KILLJOBBYCMDCODE" -> ByCmdCode(id)
                             [] OTHER -> All(id)}

KillFirst ==
  /\ Up /\ main = "kill" /\ Meant # {}
  /\ LET id == CHOOSE x \in Meant : \A y \in Meant : x <= y
     IN victim' = id /\ cancelled' = cancelled \cup {id}
  /\ main' = "join"
  /\ UNCHANGED <<streams, found, list, counter, iter, step, askVars, queueVars, dirVars, scripts,
                 down, answers, polled>>

\* Mistakes one could make in this code, named in PROJECT.json "mutants".

\* Erasing a killed job without waiting for its thread.
JoinedAtOnce ==
  /\ Up /\ main = "join"
  /\ IF Cur.op = "USEUPDATE" THEN UNCHANGED list ELSE Erased(PlaceOf(victim))
  /\ main' = "kill" /\ found' = TRUE /\ victim' = 0
  /\ UNCHANGED <<streams, counter, iter, step, askVars, queueVars, cancelled, dirVars, scripts, down,
                 answers, polled>>

Joined ==
  /\ Up /\ main = "join" /\ step[victim] = "ended"
  /\ step' = [step EXCEPT ![victim] = "joined"]
  /\ IF Cur.op = "USEUPDATE" THEN UNCHANGED list ELSE Erased(PlaceOf(victim))
  /\ main' = "kill" /\ found' = TRUE /\ victim' = 0
  /\ UNCHANGED <<streams, counter, iter, askVars, queueVars, cancelled, dirVars, scripts, down,
                 answers, polled>>

\* Ending the search at the first job of the command code.
KillDoneFirst ==
  /\ Up /\ main = "kill" /\ (Meant = {} \/ found)
  /\ main' = "forward"
  /\ list' = IF Cur.op = "USEUPDATE" THEN <<>> ELSE list
  /\ answers' = [answers EXCEPT ![Now] =
       Append(@, IF found /\ Cur.op # "USEUPDATE" THEN "done" ELSE "failed")]
  /\ UNCHANGED <<streams, victim, found, counter, iter, down>> /\ UnchangedJobs

\* The answer; an update replaces the process, or has failed.
KillDone ==
  /\ Up /\ main = "kill" /\ Meant = {}
  /\ main' = "forward"
  /\ list' = IF Cur.op = "USEUPDATE" THEN <<>> ELSE list
  /\ \/ /\ answers' = [answers EXCEPT ![Now] =
             Append(@, IF found /\ Cur.op # "USEUPDATE" THEN "done" ELSE "failed")]
        /\ UNCHANGED down
     \/ Cur.op = "USEUPDATE" /\ down' = "updated" /\ UNCHANGED answers
  /\ UNCHANGED <<streams, victim, found, counter, iter>> /\ UnchangedJobs

\* Jobs that capture get a copy of every report and request.
ForwardToScriptJobs ==
  /\ Up /\ main = "forward"
  /\ inbox' = [id \in Ids |-> IF id \in Listed /\ capture[id] THEN Append(inbox[id], Now)
                              ELSE inbox[id]]
  /\ got' = [id \in Ids |-> IF id \in Listed /\ capture[id]
               THEN [in |-> Append(got[id].in, Now), n2n |-> got[id].n2n] ELSE got[id]]
  /\ main' = "idle"
  /\ UNCHANGED <<streams, victim, found, list, counter, iter, step, askVars, n2n, posts, cancelled,
                 dirVars, scripts, down, answers, polled>>

-----------------------------------------------------------------------------
(* The threads of the jobs.                                                *)

At(id, where) == Up /\ step[id] = where
GoesOn(id, where) == step' = [step EXCEPT ![id] = where]

\* MutexKeeper lets go where a thread ends.
LetGo(id) == lock' = IF lock = id THEN 0 ELSE lock

ThreadEnds(id) == GoesOn(id, "ended") /\ LetGo(id)

Answer(id, status) == answers' = [answers EXCEPT ![request[id]] = Append(@, status)]

Dies(why) ==
  /\ down' = why
  /\ UNCHANGED <<mainVars, step, askVars, queueVars, cancelled, dirVars, scripts, answers,
                 polled>>

Stay == UNCHANGED <<mainVars, op, request, cancelled>>
StayQueues == UNCHANGED <<inbox, n2n, posts, got, capture, receive, calls, polled>>

Reached(target) == Leads[<<cwd, target>>]
Chdir(target) == IF Reached(target) = Nothing THEN cwd ELSE Reached(target)

\* InitJobEnv; a job without an entry function jumps to address 0.
Enter(id) ==
  /\ At(id, "enter")
  /\ IF op[id] = "HOSTREPORT" THEN Dies("entry")
     ELSE /\ lock = 0
          /\ cwd' = Chdir(path)
          /\ GoesOn(id, CASE op[id] = "STARTUP" -> "script" [] op[id] = "CHDIR" -> "lock"
                        [] OTHER -> "take")
          /\ Stay /\ StayQueues
          /\ UNCHANGED <<path, lock, strayed, scripts, down, answers>>

\* JOB_CHDIR_ThreadFunc holds the mutex to its end.
LockDirectory(id) ==
  /\ At(id, "lock") /\ lock = 0
  /\ lock' = id
  /\ GoesOn(id, "take")
  /\ Stay /\ StayQueues /\ UNCHANGED <<path, cwd, strayed, scripts, down, answers>>

\* The job takes its request from Read_Queue, or copies it, and looks at its
\* arguments; EXECFUNC throws when there are too few.
Take(id) ==
  LET n == Head(inbox[id])
  IN /\ At(id, "take")
     /\ IF streams[n].op = "MOD_EXECFUNC" /\ streams[n].arg = "short"
        THEN Dies("short")
        ELSE /\ inbox' = IF op[id] \in Peeks THEN inbox
                         ELSE [inbox EXCEPT ![id] = Tail(@)]
             /\ IF streams[n].good
                THEN GoesOn(id, "work") /\ UNCHANGED <<lock, answers>>
                ELSE Answer(id, "misused") /\ ThreadEnds(id)
             /\ Stay
             /\ UNCHANGED <<n2n, posts, got, capture, receive, calls, polled, path, cwd,
                            strayed, scripts, down>>

Finish(id, status) ==
  /\ Answer(id, status) /\ ThreadEnds(id) /\ Stay /\ StayQueues
  /\ UNCHANGED <<strayed, down>>

Runs(id, code) == At(id, "work") /\ op[id] = code
Ordinary(id, statuses) ==
  \E status \in statuses : Finish(id, status) /\ UNCHANGED <<path, cwd, scripts>>
Either == {"done", "failed"}

\* One call of the operating system,
MoveFile(id) == Runs(id, "FILES_MOVE") /\ Ordinary(id, Either)
CopyFile(id) == Runs(id, "FILES_COPY") /\ Ordinary(id, Either)
ListDirectory(id) == Runs(id, "LISTDIRECTORY") /\ Ordinary(id, Either)
ExecCmd(id) == Runs(id, "EXECCMD") /\ Ordinary(id, Either)
GetProcesses(id) == Runs(id, "GETPROCESSES") /\ Ordinary(id, Either)
\* one whose failure nobody looks at,
GetCwd(id) == Runs(id, "GETCWD") /\ Ordinary(id, {"done"})
\* and one for each of some items, of which some may succeed.
DeleteFiles(id) == Runs(id, "FILES_DEL") /\ Ordinary(id, Either \cup {"warn"})
PlaceFiles(id) == Runs(id, "FILES_PLACE") /\ Ordinary(id, Either \cup {"warn"})
KillProcesses(id) == Runs(id, "KILLPROCESS") /\ Ordinary(id, Either \cup {"warn"})
\* FETCH reads the files it has found there, which may be gone by then.
FetchFiles(id) ==
  /\ Runs(id, "FILES_FETCH")
  /\ Ordinary(id, Either \cup {"warn"}) \/ Dies("vanished")

Work(id) ==
  \/ MoveFile(id) \/ CopyFile(id) \/ ListDirectory(id) \/ ExecCmd(id) \/ GetProcesses(id)
  \/ GetCwd(id) \/ DeleteFiles(id) \/ PlaceFiles(id) \/ KillProcesses(id) \/ FetchFiles(id)

\* The target is stored as it was given, whatever became of it.
ChangeDirectory(id) ==
  /\ Runs(id, "CHDIR")
  /\ LET target == streams[request[id]].arg
     IN /\ cwd' = Chdir(target) /\ path' = target
        /\ strayed' = (strayed \/ target # cwd')
        /\ Answer(id, IF Reached(target) = Nothing THEN "failed" ELSE "done")
  /\ ThreadEnds(id) /\ Stay /\ StayQueues /\ UNCHANGED <<scripts, down>>

Overwrites(id) == streams[request[id]].arg = "overwrite"

\* A mistake one could make: answering that the script is there, and loading it.
LoadScriptGoesOn(id) ==
  /\ Runs(id, "MOD_LOADSCRIPT")
  /\ GoesOn(id, "at")
  /\ IF ~Overwrites(id) /\ scripts THEN Answer(id, "failed") ELSE UNCHANGED answers
  /\ Stay /\ StayQueues /\ UNCHANGED <<dirVars, scripts, down>>

\* JOB_MOD_LOADSCRIPT_ThreadFunc looks whether the script is there, and
\* Script::LoadScript does so again.
LoadScript(id) ==
  /\ Runs(id, "MOD_LOADSCRIPT")
  /\ IF ~Overwrites(id) /\ scripts THEN Finish(id, "failed") /\ UNCHANGED <<path, cwd, scripts>>
     ELSE /\ GoesOn(id, "at") /\ Stay /\ StayQueues
          /\ UNCHANGED <<dirVars, scripts, down, answers>>
StoreScript(id) ==
  /\ At(id, "at") /\ op[id] = "MOD_LOADSCRIPT"
  /\ scripts' = TRUE
  /\ Finish(id, IF Overwrites(id) \/ ~scripts THEN "done" ELSE "failed")
  /\ UNCHANGED <<path, cwd>>

UnloadScript(id) ==
  /\ Runs(id, "MOD_UNLOADSCRIPT")
  /\ scripts' = FALSE
  /\ Finish(id, IF scripts THEN "done" ELSE "failed")
  /\ UNCHANGED <<path, cwd>>

\* EXECFUNC counts the scripts of the name, and then fetches the one: at()
\* throws when it has been unloaded, which nothing catches.
FindScript(id) ==
  /\ op[id] = "MOD_EXECFUNC"
  /\ \/ /\ At(id, "work") /\ scripts
        /\ GoesOn(id, "at") /\ Stay /\ StayQueues
        /\ UNCHANGED <<dirVars, scripts, down, answers>>
     \/ /\ At(id, "work") /\ ~scripts
        /\ Finish(id, "missing") /\ UNCHANGED <<path, cwd, scripts>>
     \/ /\ At(id, "at") /\ scripts
        /\ GoesOn(id, "script") /\ Stay /\ StayQueues
        /\ UNCHANGED <<dirVars, scripts, down, answers>>
     \/ At(id, "at") /\ ~scripts /\ Dies("unloaded")

Snippet(id) ==
  /\ Runs(id, "EXECSNIPPET")
  /\ GoesOn(id, "script") /\ Stay /\ StayQueues
  /\ UNCHANGED <<dirVars, scripts, down, answers>>

-----------------------------------------------------------------------------
(* What a script asks of the node.                                         *)

Calls(id) ==
  /\ At(id, "script") /\ calls < MaxCalls
  /\ calls' = calls + 1
  /\ Stay /\ UNCHANGED <<lock, path, scripts, down, answers>>

SetCaptureIncomingStreams(id) ==
  /\ Calls(id) /\ ~capture[id] /\ capture' = [capture EXCEPT ![id] = TRUE]
  /\ UNCHANGED <<step, queueVars, receive, cwd, strayed, polled>>
SetN2NState(id) ==
  /\ Calls(id) /\ ~receive[id] /\ receive' = [receive EXCEPT ![id] = TRUE]
  /\ UNCHANGED <<step, queueVars, capture, cwd, strayed, polled>>
RecvStream(id) ==
  /\ Calls(id) /\ inbox[id] # <<>>
  /\ inbox' = [inbox EXCEPT ![id] = Tail(@)]
  /\ UNCHANGED <<step, n2n, posts, got, capture, receive, cwd, strayed, polled>>

\* Pop() takes a stream and leaves the post of the semaphore.
RecvN2N(id) ==
  /\ Calls(id) /\ n2n[id] # <<>>
  /\ n2n' = [n2n EXCEPT ![id] = Tail(@)]
  /\ polled' = [polled EXCEPT ![id] = TRUE]
  /\ UNCHANGED <<step, inbox, posts, got, capture, receive, cwd, strayed>>
WaitN2N(id) ==
  /\ Calls(id) /\ GoesOn(id, "wait")
  /\ UNCHANGED <<queueVars, capture, receive, cwd, strayed, polled>>

\* WaitPop(): the front of an empty queue is no stream.
WaitPop(id) ==
  /\ At(id, "wait") /\ posts[id] > 0
  /\ IF n2n[id] = <<>> THEN Dies("empty")
     ELSE /\ posts' = [posts EXCEPT ![id] = @ - 1]
          /\ n2n' = [n2n EXCEPT ![id] = Tail(@)]
          /\ GoesOn(id, "script") /\ Stay
          /\ UNCHANGED <<inbox, got, capture, receive, calls, polled, dirVars,
                         scripts, down, answers>>
ScriptChdir(id) ==
  /\ Calls(id)
  /\ \E target \in {t \in Targets : Reached(t) \notin {Nothing, cwd}} :
       cwd' = Chdir(target)
  /\ strayed' = TRUE
  /\ UNCHANGED <<step, queueVars, capture, receive, polled>>

\* The script is not one, or its first run has an error; or its function
\* returns, or has one.  Nobody asked for the startup script.
ScriptOver(id, statuses) ==
  /\ At(id, "script")
  /\ IF request[id] = 0 THEN UNCHANGED answers
     ELSE \E status \in statuses : Answer(id, status)
  /\ ThreadEnds(id) /\ Stay /\ StayQueues
  /\ UNCHANGED <<path, cwd, strayed, scripts, down>>
InitScriptFails(id) == ScriptOver(id, {"failed"})
ScriptReturns(id) == ScriptOver(id, {"done"} \cup (IF op[id] = "MOD_EXECFUNC" THEN {"failed"} ELSE {}))

\* pthread_cancel takes effect.
Cancelled(id) ==
  /\ Up /\ id \in cancelled /\ step[id] \in Cancellable
  /\ ThreadEnds(id) /\ Stay /\ StayQueues
  /\ UNCHANGED <<path, cwd, strayed, scripts, down, answers>>

-----------------------------------------------------------------------------
Blank(x) == [id \in Ids |-> x]

\* Begin() starts a job for the startup script, when there is one.
JobsInit ==
  /\ plan \in Plans
  /\ streams = <<>> /\ main = "idle" /\ iter = 0 /\ victim = 0 /\ found = FALSE
  /\ IF plan.startup
     THEN /\ list = <<1>> /\ counter = 1
          /\ step = [Blank("none") EXCEPT ![1] = "enter"]
          /\ op = [Blank("none") EXCEPT ![1] = "STARTUP"]
     ELSE list = <<>> /\ counter = 0 /\ step = Blank("none") /\ op = Blank("none")
  /\ request = Blank(0) /\ inbox = Blank(<<>>) /\ n2n = Blank(<<>>) /\ posts = Blank(0)
  /\ capture = Blank(FALSE) /\ receive = Blank(FALSE) /\ calls = 0
  /\ cancelled = {}
  /\ path = Home /\ lock = 0 /\ cwd = Home /\ strayed = FALSE
  /\ scripts = FALSE /\ down = Nothing
  /\ answers = [n \in 1..MaxStreams |-> <<>>]
  /\ got = Blank([in |-> <<>>, n2n |-> <<>>]) /\ polled = Blank(FALSE)

Handle(s) ==
  \/ ForwardN2N(s) \/ HandleAtOnce(s) \/ BuildRunningJobsReport(s) \/ HandleUnknown(s)
  \/ HandleSleep(s) \/ StartJob(s) \/ HandleKill(s)
MainStep == KillFirst \/ Joined \/ KillDone \/ ForwardToScriptJobs \/ Sweep
JobStep(id) ==
  \/ Enter(id) \/ LockDirectory(id) \/ Take(id) \/ Work(id) \/ ChangeDirectory(id)
  \/ LoadScript(id) \/ StoreScript(id) \/ UnloadScript(id) \/ FindScript(id) \/ Snippet(id)
  \/ WaitPop(id) \/ InitScriptFails(id) \/ ScriptReturns(id)
ScriptCall(id) ==
  \/ SetCaptureIncomingStreams(id) \/ SetN2NState(id) \/ RecvStream(id) \/ RecvN2N(id)
  \/ WaitN2N(id) \/ ScriptChdir(id)

JobsNext ==
  /\ \/ \E i \in 1..Len(plan.sent) : Handle(plan.sent[i])
     \/ MainStep \/ ProcessCompletedJobs
     \/ \E id \in Ids : JobStep(id) \/ ScriptCall(id) \/ Cancelled(id)
  /\ UNCHANGED plan

\* The main thread goes on by itself; so do the threads of jobs, and a
\* cancelled one that waits is ended.
Fairness ==
  /\ WF_jobsVars(MainStep /\ UNCHANGED plan) /\ WF_jobsVars(ProcessCompletedJobs /\ UNCHANGED plan)
  /\ \A id \in Ids :
       WF_jobsVars(JobStep(id) /\ UNCHANGED plan) /\ WF_jobsVars(Cancelled(id) /\ UNCHANGED plan)

JobsSpec == JobsInit /\ [][JobsNext]_jobsVars /\ Fairness

-----------------------------------------------------------------------------
Queue == Seq(1..MaxStreams)

JobsTypeOK ==
  /\ plan \in Plans /\ Now \in 0..Len(plan.sent) /\ streams = SubSeq(plan.sent, 1, Now)
  /\ main \in {"idle", "sweep", "forward", "kill", "join"} /\ found \in BOOLEAN
  /\ victim \in {0} \cup Ids /\ (main = "join" <=> victim # 0)
  /\ iter \in Nat /\ (main = "sweep" <=> iter # 0)
  /\ counter \in {0} \cup Ids /\ list \in Seq(1..counter)
  /\ \A i, j \in 1..Len(list) : i < j => list[i] < list[j]
  /\ step \in [Ids -> Running \cup {"none", "ended", "joined"}]
  /\ \A id \in Ids : step[id] = "none" <=> id > counter
  /\ op \in [Ids -> Ops \cup {"none"}] /\ request \in [Ids -> 0..MaxStreams]
  /\ inbox \in [Ids -> Queue] /\ n2n \in [Ids -> Queue] /\ posts \in [Ids -> Nat]
  /\ capture \in [Ids -> BOOLEAN] /\ receive \in [Ids -> BOOLEAN]
  /\ polled \in [Ids -> BOOLEAN] /\ got \in [Ids -> [in : Queue, n2n : Queue]]
  /\ cancelled \subseteq Ids /\ lock \in {0} \cup Ids /\ cwd \in Dirs /\ path \in Targets
  /\ scripts \in BOOLEAN /\ strayed \in BOOLEAN /\ calls \in Nat

\* No thread runs on a Job that has been erased: a job leaves the list once its
\* thread has ended, was it killed or found dead.
ThreadHasJob == \A id \in Ids : step[id] \in Running => id \in Listed

\* A request is answered once, by its job or by the main thread: not while the
\* job runs, always when it has ended by itself, and never after it was killed.
AnsweredOnce ==
  \A id \in Ids :
    request[id] # 0 =>
      LET sent == Len(answers[request[id]])
      IN  /\ step[id] \in Running => sent = 0
          /\ step[id] \in {"ended", "joined"} => sent = 1 \/ (sent = 0 /\ id \in cancelled)

\* "Don't forward this stream twice": a job is given each stream at most once,
\* in the order they came, none from before its request; streams from other
\* nodes in their queue and all others in the other.  (Its own request it may
\* get a second time, when it asks for copies before the main thread has gone on.)
HandedOnce ==
  \A id \in Ids :
    LET increasing(q) == \A i, j \in 1..Len(q) : i < j => q[i] < q[j]
    IN  /\ increasing(got[id].in) /\ increasing(got[id].n2n)
        /\ \A i \in 1..Len(got[id].in) :
             got[id].in[i] >= request[id] /\ streams[got[id].in[i]].op # "N2N"
        /\ \A i \in 1..Len(got[id].n2n) : streams[got[id].n2n[i]].op = "N2N"

\* WaitPop finds a stream when the semaphore lets it through, in a job that has
\* not also taken streams without waiting.
WaitFindsStream ==
  /\ \A id \in Ids : ~polled[id] => posts[id] = Len(n2n[id])
  /\ down = "empty" => \E id \in Ids : polled[id]

\* While no CHDIR is at work, the process is in the directory that future jobs
\* start in, unless a script or an unfit target has moved one from the other.
CwdIsPath == Up /\ lock = 0 /\ ~strayed => cwd = path

\* A script that is asked for and not there ends the node only when it was
\* unloaded in the middle of the request.
OnlyUnloadKills ==
  down = "unloaded" => \E n \in 1..Now : streams[n].op = "MOD_UNLOADSCRIPT"

\* What holds whatever the main thread, the jobs' threads and their scripts do
\* at the same time: no thread without its job, every stream handed once, no
\* empty queue behind a wait, one working directory, and a node that only an
\* unloaded script can end.
JobsSafe ==
  /\ JobsTypeOK /\ ThreadHasJob /\ HandedOnce
  /\ WaitFindsStream /\ CwdIsPath /\ OnlyUnloadKills

\* When KILLJOBBYCMDCODE is answered no job of the code is left, finished ones
\* included; an update goes on when no thread of a job runs.
KillsAll ==
  [][main = "kill" /\ main' = "forward" =>
       /\ Cur.op = "KILLJOBBYCMDCODE" =>
            \A i \in 1..Len(list') : op[list'[i]] # Cur.arg
       /\ Cur.op = "USEUPDATE" => list' = <<>> /\ \A id \in Ids : step[id] \notin Running]_jobsVars

\* A job that has ended leaves the list.
Reaped == \A id \in Ids : step[id] = "ended" ~> (id \notin Listed \/ ~Up)

\* The main thread does not wait for ever for a job it kills.
KillReturns == main = "join" ~> (main # "join" \/ ~Up)
=============================================================================
