---------------------------- MODULE ChannelSpec ----------------------------
(***************************************************************************)
(* What a HolyPHP channel promises, without ring buffer, waiter queues or  *)
(* threads: values are accepted one after the other until the channel is   *)
(* closed, and they are taken in the order in which they were accepted,    *)
(* each one once.  A value may pass straight from a sender to a waiting    *)
(* receiver (Handoff) only when nothing older is pending.                  *)
(***************************************************************************)
EXTENDS Naturals, Sequences

CONSTANT Payload           \* the values that may travel over the channel

VARIABLES
  accepted,                \* every value a send has been accepted with, in order
  taken,                   \* every value a receive has taken, in order
  closed                   \* has chan_close run?

vars == <<accepted, taken, closed>>

Init ==
  /\ accepted = <<>>
  /\ taken = <<>>
  /\ closed = FALSE

Accept(v) ==
  /\ ~closed
  /\ accepted' = Append(accepted, v)
  /\ UNCHANGED <<taken, closed>>

Take ==
  /\ Len(taken) < Len(accepted)
  /\ taken' = Append(taken, accepted[Len(taken) + 1])
  /\ UNCHANGED <<accepted, closed>>

Handoff(v) ==
  /\ ~closed
  /\ Len(taken) = Len(accepted)
  /\ accepted' = Append(accepted, v)
  /\ taken' = Append(taken, v)
  /\ UNCHANGED closed

Close ==
  /\ closed' = TRUE
  /\ UNCHANGED <<accepted, taken>>

Next ==
  \/ \E v \in Payload : Accept(v) \/ Handoff(v)
  \/ Take
  \/ Close

Spec == Init /\ [][Next]_vars
=============================================================================
