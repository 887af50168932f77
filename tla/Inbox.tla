------------------------------- MODULE Inbox --------------------------------
(***************************************************************************)
(* What a NetScheduler::ReadQueue promises the program that owns it,       *)
(* without threads, locks or partial reads: the streams of a connection    *)
(* come in one by one in the order they were sent, the end of a connection *)
(* cuts off what has not come in yet, and what has come in is handed out   *)
(* once, oldest first, until the queue object goes away.                   *)
(* ReadQueue implements it (ReadQueue!InboxSpec).                          *)
(***************************************************************************)
EXTENDS Naturals, Sequences

CONSTANT Streams

VARIABLES
  arriving,           \* the streams sent on the connection and not come in
  kept,               \* the streams come in and not handed out
  done                \* the streams handed out, in order

vars == <<arriving, kept, done>>

Init ==
  /\ arriving = <<>>
  /\ kept = <<>>
  /\ done = <<>>

Send(s) ==
  /\ arriving' = Append(arriving, s)
  /\ UNCHANGED <<kept, done>>

ComeIn ==
  /\ arriving # <<>>
  /\ arriving' = Tail(arriving)
  /\ kept' = Append(kept, Head(arriving))
  /\ UNCHANGED done

CutOff ==
  /\ \E n \in 0 .. Len(arriving) : arriving' = SubSeq(arriving, 1, n)
  /\ UNCHANGED <<kept, done>>

HandOut ==
  /\ kept # <<>>
  /\ kept' = Tail(kept)
  /\ done' = Append(done, Head(kept))
  /\ UNCHANGED arriving

GiveUp ==
  /\ kept' = <<>>
  /\ UNCHANGED <<arriving, done>>

Next ==
  \/ \E s \in Streams : Send(s)
  \/ ComeIn
  \/ CutOff
  \/ HandOut
  \/ GiveUp

Spec == Init /\ [][Next]_vars
=============================================================================
