------------------------------- MODULE Outbox -------------------------------
(***************************************************************************)
(* What a NetScheduler::WriteQueue promises the program that owns it,      *)
(* without threads, locks or connections: a list of the streams accepted   *)
(* and not yet sent, of which only the head is ever sent, whole and once,  *)
(* and which is given up only as a whole, when the queue object goes away. *)
(* WriteQueue implements it (WriteQueue!OutboxSpec).                       *)
(***************************************************************************)
EXTENDS Sequences

CONSTANT Streams      \* the identities of the ConationStream objects

VARIABLES
  sent,               \* the streams handed whole to the network, in order
  unsent,             \* the streams accepted and not sent, in order
  closed              \* the queue object is gone

vars == <<sent, unsent, closed>>

Init ==
  /\ sent = <<>>
  /\ unsent = <<>>
  /\ closed = FALSE

Accept(s) ==
  /\ ~closed
  /\ unsent' = Append(unsent, s)
  /\ UNCHANGED <<sent, closed>>

Transmit ==
  /\ ~closed
  /\ unsent # <<>>
  /\ sent' = Append(sent, Head(unsent))
  /\ unsent' = Tail(unsent)
  /\ UNCHANGED closed

Close ==
  /\ ~closed
  /\ closed' = TRUE
  /\ unsent' = <<>>
  /\ UNCHANGED sent

Next ==
  \/ \E s \in Streams : Accept(s)
  \/ Transmit
  \/ Close

Spec == Init /\ [][Next]_vars
=============================================================================
