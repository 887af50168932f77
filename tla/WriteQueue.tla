----------------------------- MODULE WriteQueue -----------------------------
(***************************************************************************)
(* NetScheduler::WriteQueue (libvolition/netscheduler.cpp) with the parts  *)
(* of QueueBase, VLThreads::Semaphore and VLThreads::Thread it runs on:    *)
(* the queue's own thread, the threads that Push streams, the one thread   *)
(* that owns the object (Begin, StopThread, ClearError, the destructor),   *)
(* and the connection the streams are written to.                          *)
(*                                                                         *)
(* A section of code under QueueBase::Mutex is one action: every access in *)
(* it is to data the mutex protects.  What the code does outside the mutex *)
(* (reading Queue.size() for the status object, posting the semaphore,     *)
(* setting Error after an exception) is an action of its own.  The status  *)
(* object is attached from the start.                                      *)
(***************************************************************************)
EXTENDS Integers, Sequences, SequencesExt

CONSTANTS
  Streams,      \* the ConationStream objects; each is pushed at most once
  NoStream,     \* no pointer
  Pushers,      \* the threads that call Push
  MaxConn,      \* bound: how many connections the owner establishes
  MaxPosts,     \* bound: StopThread is called only below this count of sem
  ExitVisible   \* does pthread_kill(t, 0) fail for a thread that returned
                \* and was not joined?  (libc decides; vlthreads.cpp:176)

ASSUME ConstantsAssumption ==
  /\ NoStream \notin Streams
  /\ MaxConn \in Nat \ {0}
  /\ MaxPosts \in Nat \ {0}
  /\ ExitVisible \in BOOLEAN

VARIABLES
  queue,        \* QueueBase::Queue
  sem,          \* the count of QueueBase::Semaphore
  error,        \* QueueBase::Error
  shouldDie,    \* QueueBase::ThreadShouldDie
  numOnQueue,   \* SchedulerStatusObj::NumOnQueue
  conn,         \* which connection Descriptor names, 0 for the null one
  link,         \* that connection: "up", "broken" (writes fail) or
                \* "stalled" (writes neither end nor fail)
  tpc,          \* where the queue's thread is
  head,         \* the stream the thread is writing (its local Head)
  tsize,        \* the thread's copy of Queue.size() (CBS.NumOnQueue)
  ppc,          \* where each pusher is in Push
  psize,        \* each pusher's copy of Queue.size()
  opc,          \* where the owner is in StopThread
  pushed,       \* history: the streams pushed, in order
  written,      \* history: the streams written whole, in order
  dropped       \* history: the streams the destructor deleted

baseVars == <<queue, error, shouldDie>>
connVars == <<conn, link>>
threadVars == <<tpc, head, tsize>>
pushVars == <<ppc, psize, pushed>>
ownerVars == <<opc, dropped>>
vars == <<baseVars, sem, numOnQueue, connVars, threadVars, pushVars,
          ownerVars, written>>

-----------------------------------------------------------------------------
\* The thread object is "none" before Start and after Join, and "exited"
\* when ThreadFunc returned and nobody joined it.
Running == {"top", "wait", "send", "threw", "sent", "size", "status"}
ThreadStates == Running \cup {"none", "exited"}

\* Thread::Started() && Thread::Alive()
Alive == tpc \in Running \/ (tpc = "exited" /\ ~ExitVisible)

\* What is left to write: a stream being written stays on the list until the
\* thread has taken the mutex again to pop it.
Unsent == IF tpc = "sent" THEN Tail(queue) ELSE queue

Init ==
  /\ queue = <<>>
  /\ sem = 0
  /\ error = FALSE
  /\ shouldDie = FALSE
  /\ numOnQueue = 0
  /\ conn \in {0, 1}      \* constructed without or with a descriptor
  /\ link = "up"
  /\ tpc = "none"
  /\ head = NoStream
  /\ tsize = 0
  /\ ppc = [p \in Pushers |-> "idle"]
  /\ psize = [p \in Pushers |-> 0]
  /\ opc = "idle"
  /\ pushed = <<>>
  /\ written = <<>>
  /\ dropped = <<>>

-----------------------------------------------------------------------------
(* Mistakes one could make in this code, named in PROJECT.json "mutants":  *)
(* each breaks the property it is listed for.  They are not part of Next.  *)

\* Forgetting to post.
PushNoPost(p) ==
  /\ ppc[p] = "post"
  /\ ppc' = [ppc EXCEPT ![p] = "idle"]
  /\ UNCHANGED <<baseVars, sem, numOnQueue, connVars, threadVars, psize,
                 pushed, ownerVars, written>>

\* Popping the wrong end.
ThreadPopBack ==
  /\ tpc = "sent"
  /\ queue' = Front(queue)
  /\ tpc' = "size"
  /\ head' = NoStream
  /\ UNCHANGED <<error, shouldDie, sem, numOnQueue, connVars, tsize, pushVars,
                 ownerVars, written>>

\* Giving a stream up when its write failed.
ThreadSetErrorAndPop ==
  /\ tpc = "threw"
  /\ error' = TRUE
  /\ queue' = Tail(queue)
  /\ tpc' = "size"
  /\ head' = NoStream
  /\ UNCHANGED <<shouldDie, sem, numOnQueue, connVars, tsize, pushVars,
                 ownerVars, written>>

\* Telling the thread to die without waking it.
StopThreadNoPost(forever) ==
  /\ opc = "idle"
  /\ Alive
  /\ shouldDie' = TRUE
  /\ opc' = IF forever THEN "spin" ELSE "precheck"
  /\ UNCHANGED <<queue, error, sem, numOnQueue, connVars, threadVars,
                 pushVars, dropped, written>>

-----------------------------------------------------------------------------
(* Push: the locked push_back, the size read without the lock,             *)
(* SetNumOnQueue, Semaphore.Post.                                          *)

Push(p, s) ==
  /\ ppc[p] = "idle"
  /\ opc # "destroyed"
  /\ s \notin Range(pushed)
  /\ queue' = Append(queue, s)
  /\ pushed' = Append(pushed, s)
  /\ ppc' = [ppc EXCEPT ![p] = "pushed"]
  /\ UNCHANGED <<error, shouldDie, sem, numOnQueue, connVars, threadVars,
                 psize, ownerVars, written>>

PushReadSize(p) ==
  /\ ppc[p] = "pushed"
  /\ psize' = [psize EXCEPT ![p] = Len(queue)]
  /\ ppc' = [ppc EXCEPT ![p] = "sized"]
  /\ UNCHANGED <<baseVars, sem, numOnQueue, connVars, threadVars, pushed,
                 ownerVars, written>>

PushSetNumOnQueue(p) ==
  /\ ppc[p] = "sized"
  /\ numOnQueue' = psize[p]
  /\ ppc' = [ppc EXCEPT ![p] = "post"]
  /\ UNCHANGED <<baseVars, sem, connVars, threadVars, psize, pushed,
                 ownerVars, written>>

PushPost(p) ==
  /\ ppc[p] = "post"
  /\ sem' = sem + 1
  /\ ppc' = [ppc EXCEPT ![p] = "idle"]
  /\ UNCHANGED <<baseVars, numOnQueue, connVars, threadVars, psize, pushed,
                 ownerVars, written>>

-----------------------------------------------------------------------------
(* WriteQueue::ThreadFunc.  The first three actions are the locked part at *)
(* the top of its loop, which looks at ThreadShouldDie before the queue.   *)

ThreadReturn ==
  /\ tpc = "top"
  /\ shouldDie
  /\ tpc' = "exited"
  /\ UNCHANGED <<baseVars, sem, numOnQueue, connVars, head, tsize, pushVars,
                 ownerVars, written>>

ThreadFindNothing ==
  /\ tpc = "top"
  /\ ~shouldDie
  /\ queue = <<>>
  /\ tpc' = "wait"
  /\ UNCHANGED <<baseVars, sem, numOnQueue, connVars, head, tsize, pushVars,
                 ownerVars, written>>

ThreadTakeHead ==
  /\ tpc = "top"
  /\ ~shouldDie
  /\ queue # <<>>
  /\ tpc' = "send"
  /\ head' = Head(queue)
  /\ tsize' = Len(queue)
  /\ UNCHANGED <<baseVars, sem, numOnQueue, connVars, pushVars, ownerVars,
                 written>>

\* Semaphore.Wait() returns.
ThreadWake ==
  /\ tpc = "wait"
  /\ sem > 0
  /\ sem' = sem - 1
  /\ tpc' = "top"
  /\ UNCHANGED <<baseVars, numOnQueue, connVars, head, tsize, pushVars,
                 ownerVars, written>>

\* Net::Write reports on its way: NetSendStatusFunc with the size that was
\* read at the top of the loop.
ThreadReport ==
  /\ tpc = "send"
  /\ numOnQueue' = tsize
  /\ UNCHANGED <<baseVars, sem, connVars, threadVars, pushVars, ownerVars,
                 written>>

\* Net::Write returns true, after a last report.
ThreadWrote ==
  /\ tpc = "send"
  /\ link = "up"
  /\ written' = Append(written, head)
  /\ numOnQueue' = tsize
  /\ tpc' = "sent"
  /\ UNCHANGED <<baseVars, sem, connVars, head, tsize, pushVars, ownerVars>>

\* Net::Write throws: the code goes on to WriteFailure without the mutex.
ThreadThrew ==
  /\ tpc = "send"
  /\ link = "broken"
  /\ tpc' = "threw"
  /\ UNCHANGED <<baseVars, sem, numOnQueue, connVars, head, tsize, pushVars,
                 ownerVars, written>>

\* Locked again: the stream is deleted and popped.
ThreadPop ==
  /\ tpc = "sent"
  /\ queue' = Tail(queue)
  /\ tpc' = "size"
  /\ head' = NoStream
  /\ UNCHANGED <<error, shouldDie, sem, numOnQueue, connVars, tsize, pushVars,
                 ownerVars, written>>

\* WriteFailure: the head stays on the list.
ThreadSetError ==
  /\ tpc = "threw"
  /\ error' = TRUE
  /\ tpc' = "size"
  /\ head' = NoStream
  /\ UNCHANGED <<queue, shouldDie, sem, numOnQueue, connVars, tsize, pushVars,
                 ownerVars, written>>

\* SetValues(0, 0, Queue.size(), IDLE): the size is read without the lock.
ThreadReadSize ==
  /\ tpc = "size"
  /\ tsize' = Len(queue)
  /\ tpc' = "status"
  /\ UNCHANGED <<baseVars, sem, head, numOnQueue, connVars, pushVars,
                 ownerVars, written>>

ThreadSetValues ==
  /\ tpc = "status"
  /\ numOnQueue' = tsize
  /\ tpc' = "top"
  /\ UNCHANGED <<baseVars, sem, connVars, head, tsize, pushVars, ownerVars,
                 written>>

-----------------------------------------------------------------------------
(* The owner: QueueBase's members.                                         *)

\* Begin(NewDescriptor) with a connection just established, or without one,
\* to go on with the descriptor the queue has.  Queue, Error and the
\* semaphore keep what they hold.
Begin(new) ==
  /\ opc = "idle"
  /\ tpc \in {"none", "exited"}
  /\ \/ /\ new
        /\ conn < MaxConn
        /\ conn' = conn + 1
        /\ link' = "up"
     \/ /\ ~new
        /\ conn # 0
        /\ UNCHANGED connVars
  /\ shouldDie' = FALSE
  /\ tpc' = "top"
  /\ UNCHANGED <<queue, error, sem, numOnQueue, head, tsize, pushVars,
                 ownerVars, written>>

\* StopThread up to the release of the mutex; forever is WaitInMS = 0.
StopThread(forever) ==
  /\ opc = "idle"
  /\ Alive
  /\ sem < MaxPosts
  /\ shouldDie' = TRUE
  /\ sem' = sem + 1
  /\ opc' = IF forever THEN "spin" ELSE "precheck"
  /\ UNCHANGED <<queue, error, numOnQueue, connVars, threadVars, pushVars,
                 dropped, written>>

\* while (Alive()); Join()
StopJoin ==
  /\ opc = "spin"
  /\ ~Alive
  /\ opc' = "idle"
  /\ tpc' = "none"
  /\ UNCHANGED <<baseVars, sem, numOnQueue, connVars, head, tsize, pushVars,
                 dropped, written>>

\* PreCheckWait is over: a thread that has ended by now is not joined.
StopPreCheck ==
  /\ opc = "precheck"
  /\ opc' = IF Alive THEN "kill" ELSE "idle"
  /\ UNCHANGED <<baseVars, sem, numOnQueue, connVars, threadVars, pushVars,
                 dropped, written>>

\* WaitInMS is over and the thread is cancelled: it ends at a call that is a
\* cancellation point, the wait or the write, if it does not return first.
ThreadCancelled ==
  /\ opc = "kill"
  /\ tpc \in {"wait", "send"}
  /\ tpc' = "exited"
  /\ head' = NoStream
  /\ UNCHANGED <<baseVars, sem, numOnQueue, connVars, tsize, pushVars,
                 ownerVars, written>>

StopKillJoin ==
  /\ opc = "kill"
  /\ tpc = "exited"
  /\ opc' = "idle"
  /\ tpc' = "none"
  /\ UNCHANGED <<baseVars, sem, numOnQueue, connVars, head, tsize, pushVars,
                 dropped, written>>

ClearError ==
  /\ opc = "idle"
  /\ error
  /\ error' = FALSE
  /\ UNCHANGED <<queue, shouldDie, sem, numOnQueue, connVars, threadVars,
                 pushVars, ownerVars, written>>

\* ~QueueBase, after its StopThread(): no thread, and no pusher, is left.
Destroy ==
  /\ opc = "idle"
  /\ tpc \in {"none", "exited"}
  /\ \A p \in Pushers : ppc[p] = "idle"
  /\ opc' = "destroyed"
  /\ dropped' = queue
  /\ queue' = <<>>
  /\ UNCHANGED <<error, shouldDie, sem, numOnQueue, connVars, threadVars,
                 pushVars, written>>

-----------------------------------------------------------------------------
\* The peer or the network gives the connection up, or stops taking data.
LinkFails ==
  /\ conn # 0
  /\ link = "up"
  /\ link' \in {"broken", "stalled"}
  /\ UNCHANGED <<baseVars, sem, numOnQueue, conn, threadVars, pushVars,
                 ownerVars, written>>

-----------------------------------------------------------------------------
\* What moves the thread on (a report leaves it where it is).
ThreadStep ==
  \/ ThreadReturn \/ ThreadFindNothing \/ ThreadTakeHead
  \/ ThreadWake
  \/ ThreadWrote \/ ThreadPop
  \/ ThreadThrew \/ ThreadSetError
  \/ ThreadReadSize \/ ThreadSetValues
  \/ ThreadCancelled

PushStep(p) == PushReadSize(p) \/ PushSetNumOnQueue(p) \/ PushPost(p)

StopStep == StopJoin \/ StopPreCheck \/ StopKillJoin

Next ==
  \/ ThreadStep
  \/ ThreadReport
  \/ \E p \in Pushers : PushStep(p)
  \/ \E p \in Pushers, s \in Streams : Push(p, s)
  \/ \E new \in BOOLEAN : Begin(new)
  \/ \E forever \in BOOLEAN : StopThread(forever)
  \/ StopStep
  \/ ClearError
  \/ Destroy
  \/ LinkFails

Spec == Init /\ [][Next]_vars

\* Every thread that can take a step is scheduled in the end, and a write on
\* a connection that is up ends.  Nothing makes a program push, stop, begin
\* or destroy, and nothing makes a connection fail.
Fairness ==
  /\ WF_vars(ThreadStep)
  /\ \A p \in Pushers : WF_vars(PushStep(p))
  /\ WF_vars(StopStep)

FairSpec == Spec /\ Fairness

-----------------------------------------------------------------------------
TypeOK ==
  /\ queue \in Seq(Streams)
  /\ sem \in Nat
  /\ error \in BOOLEAN
  /\ shouldDie \in BOOLEAN
  /\ numOnQueue \in Nat
  /\ conn \in 0 .. MaxConn
  /\ link \in {"up", "broken", "stalled"}
  /\ tpc \in ThreadStates
  /\ head \in Streams \cup {NoStream}
  /\ tsize \in Nat
  /\ ppc \in [Pushers -> {"idle", "pushed", "sized", "post"}]
  /\ psize \in [Pushers -> Nat]
  /\ opc \in {"idle", "spin", "precheck", "kill", "destroyed"}
  /\ pushed \in Seq(Streams)
  /\ written \in Seq(Streams)
  /\ dropped \in Seq(Streams)

\* Every stream pushed is in exactly one place, in the order of the pushes:
\* written whole, still to be written, or deleted with the queue.  A failed
\* write, a restart on another connection and a cancelled thread neither lose
\* a stream nor write one twice (ThreadFunc pops only after Net::Write).
NothingLostOrRepeated == pushed = written \o Unsent \o dropped

\* While a stream is written without the mutex, it stays the head of the list:
\* the pushers only add behind it and nobody else deletes (the "LISTEN
\* CAREFULLY" comment of netscheduler.h).
HeadHeld ==
  tpc \in {"send", "threw", "sent"} => queue # <<>> /\ head = Head(queue)

\* The thread never sleeps over work: when it is in Semaphore.Wait() and there
\* is a stream, or it has been told to die, the semaphore has been posted, or
\* a thread inside Push is about to post it.
NoLostWakeup ==
  tpc = "wait" =>
    /\ queue # <<>> => sem > 0 \/ \E p \in Pushers : ppc[p] # "idle"
    /\ shouldDie => sem > 0

\* The queue object is deleted only when nobody is at work on it.
DestroyedIsQuiet ==
  /\ opc = "destroyed" =>
       /\ tpc \in {"none", "exited"}
       /\ queue = <<>>
       /\ \A p \in Pushers : ppc[p] = "idle"
  /\ dropped # <<>> => opc = "destroyed"

\* All of the above is what one step needs to know of the state before it.
IInv ==
  TypeOK /\ HeadHeld /\ NothingLostOrRepeated /\ NoLostWakeup
    /\ DestroyedIsQuiet

\* The queue implements the Outbox: only the head is sent, whole and once.
OutboxView == INSTANCE Outbox
  WITH sent <- written, unsent <- Unsent, closed <- (opc = "destroyed")
OutboxSpec == OutboxView!Spec

\* Once a thread runs for good on a connection that stays up, everything
\* pushed is written, what was left over from earlier connections included.
Drains ==
  <>[](tpc \in Running /\ ~shouldDie /\ link = "up")
    => \A s \in Streams : s \in Range(pushed) ~> s \in Range(written)

\* StopThread() with no time limit returns unless the thread is in a write
\* that neither ends nor fails; with a limit it always returns.
StopReturns ==
  /\ opc = "spin" ~> opc = "idle" \/ (tpc = "send" /\ link = "stalled")
  /\ opc \in {"precheck", "kill"} ~> opc = "idle"
=============================================================================
