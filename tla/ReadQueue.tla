----------------------------- MODULE ReadQueue ------------------------------
(***************************************************************************)
(* NetScheduler::ReadQueue (libvolition/netscheduler.cpp) on QueueBase:    *)
(* the thread that downloads streams from a connection and the one thread  *)
(* that owns the queue, which takes the head with Head_Acquire, keeps the  *)
(* mutex while it handles the stream, and lets go with Head_Release.       *)
(*                                                                         *)
(* The mutex is a variable here, since the owner holds it over many steps. *)
(* The status object is left out (WriteQueue models it).                   *)
(***************************************************************************)
EXTENDS Integers, Sequences, SequencesExt

CONSTANTS
  Streams,      \* the streams a peer sends, each at most once
  NoStream,     \* no pointer
  MaxConn       \* bound: how many connections the owner establishes

ASSUME ConstantsAssumption ==
  /\ NoStream \notin Streams
  /\ MaxConn \in Nat \ {0}

VARIABLES
  queue,        \* QueueBase::Queue
  mutex,        \* who holds QueueBase::Mutex: "free", "thread", "owner"
  error,        \* QueueBase::Error
  shouldDie,    \* QueueBase::ThreadShouldDie
  tpc,          \* where the queue's thread is
  incoming,     \* the stream it has downloaded (its local Stream)
  conn,         \* which connection Descriptor names, 0 for the null one
  link,         \* that connection: "up", "broken", or "stalled", on which
                \* nothing more comes in and nothing fails
  wire,         \* the streams whole on their way in, in order
  partial,      \* is the beginning of another stream behind them?
  opc,          \* where the owner is
  cur,          \* what Head_Acquire gave the owner
  sent,         \* history: the streams the peers sent
  downloaded,   \* history: the streams the thread downloaded, in order
  handled       \* history: the streams the owner popped, in order

threadVars == <<tpc, incoming, downloaded>>
netVars == <<conn, link, wire, partial, sent>>
ownerVars == <<opc, cur>>
vars == <<queue, mutex, error, shouldDie, threadVars, netVars, ownerVars,
          handled>>

-----------------------------------------------------------------------------
Running == {"top", "select", "receive", "lock", "push"}
ThreadStates == Running \cup {"none", "exited"}

\* Thread::Started() && Thread::Alive(), for a libc that no longer finds a
\* thread that has returned (see ExitVisible in WriteQueue).
Alive == tpc \in Running

\* Downloaded and not yet on the list.
InHand == IF tpc \in {"lock", "push"} THEN <<incoming>> ELSE <<>>

\* Downloaded and not yet handled.
Kept == queue \o InHand

\* No more bytes will come, or some are there: select() returns at once.
Readable == wire # <<>> \/ partial \/ link = "broken"

Init ==
  /\ queue = <<>>
  /\ mutex = "free"
  /\ error = FALSE
  /\ shouldDie = FALSE
  /\ tpc = "none"
  /\ incoming = NoStream
  /\ conn \in {0, 1}
  /\ link = "up"
  /\ wire = <<>>
  /\ partial = FALSE
  /\ opc = "idle"
  /\ cur = NoStream
  /\ sent = {}
  /\ downloaded = <<>>
  /\ handled = <<>>

-----------------------------------------------------------------------------
(* Mistakes one could make in this code, named in PROJECT.json "mutants".  *)

\* Head_Release returns early when there is nothing to pop.
Head_ReleaseAfterPop(pop) ==
  /\ queue' = IF pop THEN Tail(queue) ELSE queue
  /\ handled' = IF pop THEN Append(handled, Head(queue)) ELSE handled
  /\ mutex' = IF pop THEN "free" ELSE mutex
  /\ cur' = NoStream

\* Adding a downloaded stream without the mutex.
ThreadLockNot ==
  /\ tpc = "lock"
  /\ tpc' = "push"
  /\ UNCHANGED <<queue, mutex, error, shouldDie, incoming, downloaded,
                 netVars, ownerVars, handled>>

\* Adding the stream in front.
ThreadPushFront ==
  /\ tpc = "push"
  /\ queue' = <<incoming>> \o queue
  /\ incoming' = NoStream
  /\ mutex' = "free"
  /\ tpc' = "top"
  /\ UNCHANGED <<error, shouldDie, downloaded, netVars, ownerVars, handled>>

-----------------------------------------------------------------------------
(* ReadQueue::ThreadFunc.                                                  *)

\* The locked part at the top of the loop.
ThreadTop ==
  /\ tpc = "top"
  /\ mutex = "free"
  /\ tpc' = IF shouldDie THEN "exited" ELSE "select"
  /\ UNCHANGED <<queue, mutex, error, shouldDie, incoming, downloaded,
                 netVars, ownerVars, handled>>

\* select() runs into its 10 ms, or a signal.
ThreadSelectNothing ==
  /\ tpc = "select"
  /\ ~Readable
  /\ tpc' = "top"
  /\ UNCHANGED <<queue, mutex, error, shouldDie, incoming, downloaded,
                 netVars, ownerVars, handled>>

\* select() or HasRealDataToRead finds the connection over.
ThreadSelectError ==
  /\ tpc = "select"
  /\ wire = <<>> /\ ~partial
  /\ link = "broken"
  /\ error' = TRUE
  /\ tpc' = "top"
  /\ UNCHANGED <<queue, mutex, shouldDie, incoming, downloaded, netVars,
                 ownerVars, handled>>

ThreadSelectData ==
  /\ tpc = "select"
  /\ wire # <<>> \/ partial
  /\ tpc' = "receive"
  /\ UNCHANGED <<queue, mutex, error, shouldDie, incoming, downloaded,
                 netVars, ownerVars, handled>>

\* The ConationStream constructor downloads a stream.
ThreadReceive ==
  /\ tpc = "receive"
  /\ wire # <<>>
  /\ wire' = Tail(wire)
  /\ incoming' = Head(wire)
  /\ downloaded' = Append(downloaded, Head(wire))
  /\ tpc' = "lock"
  /\ UNCHANGED <<queue, mutex, error, shouldDie, conn, link, partial, sent,
                 ownerVars, handled>>

\* It throws: ReadError, without the mutex.
ThreadReceiveThrew ==
  /\ tpc = "receive"
  /\ wire = <<>>
  /\ link = "broken"
  /\ partial' = FALSE
  /\ error' = TRUE
  /\ tpc' = "top"
  /\ UNCHANGED <<queue, mutex, shouldDie, incoming, downloaded, conn, link,
                 wire, sent, ownerVars, handled>>

ThreadLock ==
  /\ tpc = "lock"
  /\ mutex = "free"
  /\ mutex' = "thread"
  /\ tpc' = "push"
  /\ UNCHANGED <<queue, error, shouldDie, incoming, downloaded, netVars,
                 ownerVars, handled>>

\* push_back and the unlock behind it.
ThreadPush ==
  /\ tpc = "push"
  /\ queue' = Append(queue, incoming)
  /\ incoming' = NoStream
  /\ mutex' = "free"
  /\ tpc' = "top"
  /\ UNCHANGED <<error, shouldDie, downloaded, netVars, ownerVars, handled>>

-----------------------------------------------------------------------------
(* What the owner's calls do to the queue.                                 *)

Head_Acquire ==
  /\ mutex = "free"
  /\ mutex' = "owner"
  /\ cur' = IF queue = <<>> THEN NoStream ELSE Head(queue)

\* Head_Release does not ask who holds the mutex.
Head_Release(pop) ==
  /\ queue' = IF pop /\ queue # <<>> THEN Tail(queue) ELSE queue
  /\ handled' = IF pop /\ queue # <<>> THEN Append(handled, Head(queue))
                                      ELSE handled
  /\ mutex' = "free"
  /\ cur' = NoStream

(* The owner.                                                              *)

Acquire ==
  /\ opc = "idle"
  /\ Head_Acquire
  /\ opc' = "holding"
  /\ UNCHANGED <<queue, error, shouldDie, threadVars, netVars, handled>>

\* The stream has been handled, or there was none.
Release ==
  /\ opc = "holding"
  /\ Head_Release(cur # NoStream)
  /\ opc' = "idle"
  /\ UNCHANGED <<error, shouldDie, threadVars, netVars>>

\* Begin(NewDescriptor) with a connection just established, or the first
\* start with the one the queue was constructed with.
Begin(new) ==
  /\ opc = "idle"
  /\ tpc \in {"none", "exited"}
  /\ \/ /\ new
        /\ conn < MaxConn
        /\ conn' = conn + 1
        /\ link' = "up"
        /\ wire' = <<>>
        /\ partial' = FALSE
     \/ /\ ~new
        /\ conn # 0
        /\ ~shouldDie
        /\ UNCHANGED <<conn, link, wire, partial>>
  /\ shouldDie' = FALSE
  /\ tpc' = "top"
  /\ UNCHANGED <<queue, mutex, error, incoming, downloaded, sent, ownerVars,
                 handled>>

\* StopThread up to the release of the mutex; forever is WaitInMS = 0.
StopThread(forever) ==
  /\ opc = "idle"
  /\ Alive
  /\ mutex = "free"
  /\ shouldDie' = TRUE
  /\ opc' = IF forever THEN "spin" ELSE "precheck"
  /\ UNCHANGED <<queue, mutex, error, threadVars, netVars, cur, handled>>

\* while (Alive()); Join()
StopJoin ==
  /\ opc = "spin"
  /\ ~Alive
  /\ opc' = "idle"
  /\ tpc' = "none"
  /\ UNCHANGED <<queue, mutex, error, shouldDie, incoming, downloaded,
                 netVars, cur, handled>>

StopPreCheck ==
  /\ opc = "precheck"
  /\ opc' = IF Alive THEN "kill" ELSE "idle"
  /\ UNCHANGED <<queue, mutex, error, shouldDie, threadVars, netVars, cur,
                 handled>>

\* The cancelled thread ends in select() or in a read.
ThreadCancelled ==
  /\ opc = "kill"
  /\ tpc \in {"select", "receive"}
  /\ tpc' = "exited"
  /\ UNCHANGED <<queue, mutex, error, shouldDie, incoming, downloaded,
                 netVars, ownerVars, handled>>

StopKillJoin ==
  /\ opc = "kill"
  /\ tpc = "exited"
  /\ opc' = "idle"
  /\ tpc' = "none"
  /\ UNCHANGED <<queue, mutex, error, shouldDie, incoming, downloaded,
                 netVars, cur, handled>>

ClearError ==
  /\ opc = "idle"
  /\ mutex = "free"
  /\ error
  /\ error' = FALSE
  /\ UNCHANGED <<queue, mutex, shouldDie, threadVars, netVars, ownerVars,
                 handled>>

\* ~QueueBase, after its StopThread.
Destroy ==
  /\ opc = "idle"
  /\ tpc \in {"none", "exited"}
  /\ opc' = "destroyed"
  /\ queue' = <<>>
  /\ UNCHANGED <<mutex, error, shouldDie, threadVars, netVars, cur, handled>>

-----------------------------------------------------------------------------
(* The peer and the network.                                               *)

PeerSends(s) ==
  /\ conn # 0
  /\ link = "up"
  /\ s \notin sent
  /\ sent' = sent \cup {s}
  /\ wire' = Append(wire, s)
  /\ UNCHANGED <<queue, mutex, error, shouldDie, threadVars, conn, link,
                 partial, ownerVars, handled>>

\* Streams on their way may be lost, and one may have come in half.
LinkFails ==
  /\ conn # 0
  /\ link = "up"
  /\ link' \in {"broken", "stalled"}
  /\ \E n \in 0 .. Len(wire) : wire' = SubSeq(wire, 1, n)
  /\ partial' \in BOOLEAN
  /\ UNCHANGED <<queue, mutex, error, shouldDie, threadVars, conn, sent,
                 ownerVars, handled>>

-----------------------------------------------------------------------------
ThreadStep ==
  \/ ThreadTop
  \/ ThreadSelectNothing \/ ThreadSelectError \/ ThreadSelectData
  \/ ThreadReceive \/ ThreadReceiveThrew
  \/ ThreadLock \/ ThreadPush
  \/ ThreadCancelled

StopStep == StopJoin \/ StopPreCheck \/ StopKillJoin

Next ==
  \/ ThreadStep
  \/ Acquire
  \/ Release
  \/ \E new \in BOOLEAN : Begin(new)
  \/ \E forever \in BOOLEAN : StopThread(forever)
  \/ StopStep
  \/ ClearError
  \/ Destroy
  \/ \E s \in Streams : PeerSends(s)
  \/ LinkFails

Spec == Init /\ [][Next]_vars

\* The thread is scheduled, and gets a mutex that is free again and again:
\* between two looks at the queue its owner sleeps (MasterLoop of the server
\* and of the node).
ThreadFairness == SF_vars(ThreadStep)

StopFairness == WF_vars(StopStep)

\* The owner polls.
OwnerFairness == SF_vars(Acquire) /\ WF_vars(Release)

FairSpec == Spec /\ ThreadFairness /\ StopFairness /\ OwnerFairness

-----------------------------------------------------------------------------
TypeOK ==
  /\ queue \in Seq(Streams)
  /\ mutex \in {"free", "thread", "owner"}
  /\ error \in BOOLEAN
  /\ shouldDie \in BOOLEAN
  /\ tpc \in ThreadStates
  /\ incoming \in Streams \cup {NoStream}
  /\ conn \in 0 .. MaxConn
  /\ link \in {"up", "broken", "stalled"}
  /\ wire \in Seq(Streams)
  /\ partial \in BOOLEAN
  /\ opc \in {"idle", "holding", "spin", "precheck", "kill", "destroyed"}
  /\ cur \in Streams \cup {NoStream}
  /\ sent \in SUBSET Streams
  /\ downloaded \in Seq(Streams)
  /\ handled \in Seq(Streams)

\* While the owner handles what Head_Acquire gave it, the list does not
\* change: the stream is its head, and a list found empty stays empty, so the
\* Head_Release(true) behind it pops that stream and no other.
HeldStill ==
  opc = "holding" =>
    /\ mutex = "owner"
    /\ cur = IF queue = <<>> THEN NoStream ELSE Head(queue)

\* What the thread downloaded is handled once, in that order, over breaks,
\* restarts and cancellations, until the queue is destroyed.
OnceInOrder ==
  opc # "destroyed" => downloaded = handled \o Kept

\* The mutex is held by whoever is between its lock and its unlock.
MutexHeld ==
  /\ mutex = "thread" <=> tpc = "push"
  /\ mutex = "owner" <=> opc = "holding"

\* What the others rest on.
Owned ==
  /\ tpc \in {"lock", "push"} => incoming \in Streams
  /\ opc = "destroyed" => tpc \in {"none", "exited"} /\ queue = <<>>

IInv == TypeOK /\ MutexHeld /\ HeldStill /\ OnceInOrder /\ Owned

\* The queue implements the Inbox: what was downloaded counts as kept from
\* the end of its download on.
InboxView == INSTANCE Inbox
  WITH arriving <- wire, kept <- Kept, done <- handled
InboxSpec == InboxView!Spec

\* StopThread() with no limit spins for good while the thread is in the middle
\* of a stream of which no more comes.
Stuck == opc = "spin" /\ tpc = "receive" /\ link = "stalled"

\* A stream that was downloaded is handled if the owner goes on polling.
AllHandled ==
  \A s \in Streams :
    s \in Range(downloaded) ~>
      s \in Range(handled) \/ opc = "destroyed" \/ Stuck

\* StopThread() with no limit returns unless it is stuck; with a limit it
\* always returns.
StopReturns ==
  /\ opc = "spin" ~> opc = "idle" \/ Stuck
  /\ opc \in {"precheck", "kill"} ~> opc = "idle"

\* The two together: neither the streams nor whoever stops the queue wait for
\* ever.
Progress == AllHandled /\ StopReturns
=============================================================================
