------------------------------ MODULE Channel ------------------------------
(***************************************************************************)
(* One channel of runtime/hphp_thr.c (ChanRec) and the threads that use    *)
(* it.  Every critical section of ch->mu is one action: it starts when the *)
(* thread gets ch->mu and ends when it lets go of it, and the signalling   *)
(* of waiters inside it belongs to it.  What happens between a thread's    *)
(* going to sleep on its own ChanWaiter and its waking up is the           *)
(* interleaving the module is about.                                       *)
(*                                                                         *)
(* A ChanWaiter exists only while its thread is blocked, so it is a field  *)
(* of the thread: wt[t].  The memory the waiters of senders live in is     *)
(* modelled by WaiterMemory; here a waiter's fields keep their values      *)
(* until its own thread is done with them.                                 *)
(***************************************************************************)
EXTENDS Integers, Sequences, FiniteSets

CONSTANTS
  Sender,        \* threads that send on the channel
  Receiver,      \* threads that receive from it (a thread may do both)
  Value,         \* payloads other than null
  Null,          \* HV_NULL
  Capacity,      \* the capacities chan_new may be called with, 0 = rendezvous
  MaxSends       \* bound: accepted sends of a behaviour

ASSUME ChannelAssumption ==
  /\ Capacity \subseteq Nat
  /\ MaxSends \in Nat
  /\ Null \notin Value
  /\ IsFiniteSet(Sender) /\ IsFiniteSet(Receiver)

Thread == Sender \cup Receiver

Payload == Value \cup {Null}

VARIABLES
  ch,            \* the ChanRec
  wt,            \* wt[t]: the call t is blocked in and its ChanWaiter
  hist           \* history: values accepted, taken by and returned to receivers

vars == <<ch, wt, hist>>

(***************************************************************************)
(* State.                                                                  *)
(***************************************************************************)
ChanRec(cap) ==
  [cap : {cap}, buf : [0..(cap - 1) -> Payload], head : Int, tail : Int, len : Int,
   closed : BOOLEAN, sendq : Seq(Thread), recvq : Seq(Thread)]

ChanWaiter ==
  [op : {"none", "send", "recv"}, value : Payload, done : BOOLEAN]

History ==
  [accepted : Seq(Payload), taken : Seq(Payload), returned : [Payload -> Nat]]

NoWaiter == [op |-> "none", value |-> Null, done |-> FALSE]

Init ==
  /\ \E cap \in Capacity :
       ch = [cap |-> cap, buf |-> [i \in 0..(cap - 1) |-> Null], head |-> 0, tail |-> 0,
             len |-> 0, closed |-> FALSE, sendq |-> <<>>, recvq |-> <<>>]
  /\ wt = [t \in Thread |-> NoWaiter]
  /\ hist = [accepted |-> <<>>, taken |-> <<>>,
             returned |-> [v \in Payload |-> 0]]

Idle(t) == wt[t].op = "none"

\* Is t blocked in op with its handshake completed?
Woken(t, op) == wt[t].op = op /\ wt[t].done

(***************************************************************************)
(* The operators named Slip* are plausible mistakes in the definition that *)
(* follows them.  No specification uses them; each one, put in the place   *)
(* of the real definition, must break a property.                          *)
(***************************************************************************)

(***************************************************************************)
(* chan_send and chan_try_send.                                            *)
(***************************************************************************)
Sendable(t) ==
  /\ Idle(t)
  /\ ~ch.closed
  /\ Len(hist.accepted) < MaxSends

HasRoom == ch.cap > 0 /\ ch.len < ch.cap

\* A receiver waits: hand the value over and wake it.
SendHandoff(t, v) ==
  /\ Sendable(t)
  /\ ch.recvq # <<>>
  /\ ch' = [ch EXCEPT !.recvq = Tail(@)]
  /\ wt' = [wt EXCEPT ![Head(ch.recvq)] = [op |-> "recv", value |-> v, done |-> TRUE]]
  /\ hist' = [hist EXCEPT !.accepted = Append(@, v), !.taken = Append(@, v)]

PutInBuffer(v) ==
  /\ ch' = [ch EXCEPT !.buf[ch.tail] = v, !.tail = (@ + 1) % ch.cap, !.len = @ + 1]
  /\ hist' = [hist EXCEPT !.accepted = Append(@, v)]
  /\ UNCHANGED wt

SlipBufferOneTooMany(t, v) ==
  Sendable(t) /\ ch.recvq = <<>> /\ ch.cap > 0 /\ ch.len <= ch.cap /\ PutInBuffer(v)

\* The ring buffer has room.
SendBuffer(t, v) ==
  /\ Sendable(t)
  /\ ch.recvq = <<>>
  /\ HasRoom
  /\ PutInBuffer(v)

PutInQueue(t, v, queue, done) ==
  /\ ch' = [ch EXCEPT !.sendq = queue]
  /\ wt' = [wt EXCEPT ![t] = [op |-> "send", value |-> v, done |-> done]]
  /\ hist' = [hist EXCEPT !.accepted = Append(@, v)]

SlipQueueBeforeReceivers(t, v) ==
  Sendable(t) /\ ~HasRoom /\ PutInQueue(t, v, Append(ch.sendq, t), FALSE)

SlipQueueAtFront(t, v) ==
  Sendable(t) /\ ch.recvq = <<>> /\ ~HasRoom /\ PutInQueue(t, v, <<t>> \o ch.sendq, FALSE)

SlipQueueDoneAtOnce(t, v) ==
  Sendable(t) /\ ch.recvq = <<>> /\ ~HasRoom /\ PutInQueue(t, v, Append(ch.sendq, t), TRUE)

\* No receiver and no room: chan_send queues and sleeps.
SendQueue(t, v) ==
  /\ Sendable(t)
  /\ ch.recvq = <<>>
  /\ ~HasRoom
  /\ PutInQueue(t, v, Append(ch.sendq, t), FALSE)

\* The call returns false at once: closed, or chan_try_send would block.
SendRefused(t) ==
  /\ Idle(t)
  /\ ch.closed \/ (ch.recvq = <<>> /\ ~HasRoom)
  /\ UNCHANGED vars

\* The sleeping sender finds done set and returns true.
SendWake(t) ==
  /\ Woken(t, "send")
  /\ wt' = [wt EXCEPT ![t] = NoWaiter]
  /\ UNCHANGED <<ch, hist>>

(***************************************************************************)
(* chan_recv and chan_try_recv.  Recv* are the branches of the loop of     *)
(* chan_recv_impl; they run with ch->mu held, either on entry or after a   *)
(* wake-up that brought no value.                                          *)
(***************************************************************************)
Returns(v) == [hist.returned EXCEPT ![v] = @ + 1]

\* The head of the ring buffer; one queued sender moves into the freed slot.
RecvBuffer(t) ==
  LET v == ch.buf[ch.head]
      sender == Head(ch.sendq)
  IN  /\ ch.len > 0
      /\ IF ch.sendq = <<>>
         THEN /\ ch' = [ch EXCEPT !.head = (@ + 1) % ch.cap, !.len = @ - 1]
              /\ wt' = [wt EXCEPT ![t] = NoWaiter]
         ELSE /\ ch' = [ch EXCEPT !.head = (@ + 1) % ch.cap,
                                  !.buf[ch.tail] = wt[sender].value,
                                  !.tail = (@ + 1) % ch.cap,
                                  !.sendq = Tail(@)]
              /\ wt' = [wt EXCEPT ![sender].done = TRUE, ![t] = NoWaiter]
      /\ hist' = [hist EXCEPT !.taken = Append(@, v), !.returned = Returns(v)]

SlipSenderNoSignal(t) ==
  LET sender == Head(ch.sendq)
      v == wt[sender].value
  IN  /\ ch.len = 0
      /\ ch.sendq # <<>>
      /\ ch' = [ch EXCEPT !.sendq = Tail(@)]
      /\ wt' = [wt EXCEPT ![t] = NoWaiter]
      /\ hist' = [hist EXCEPT !.taken = Append(@, v), !.returned = Returns(v)]

\* Nothing buffered: take the value of the first queued sender.
RecvSender(t) ==
  LET sender == Head(ch.sendq)
      v == wt[sender].value
  IN  /\ ch.len = 0
      /\ ch.sendq # <<>>
      /\ ch' = [ch EXCEPT !.sendq = Tail(@)]
      /\ wt' = [wt EXCEPT ![sender].done = TRUE, ![t] = NoWaiter]
      /\ hist' = [hist EXCEPT !.taken = Append(@, v), !.returned = Returns(v)]

Empty == ch.len = 0 /\ ch.sendq = <<>>

\* Closed and drained: false.
RecvClosed(t) ==
  /\ Empty /\ ch.closed
  /\ wt' = [wt EXCEPT ![t] = NoWaiter]
  /\ UNCHANGED <<ch, hist>>

\* Open and empty: queue a fresh waiter and sleep.
RecvQueue(t) ==
  /\ Empty /\ ~ch.closed
  /\ ch' = [ch EXCEPT !.recvq = Append(@, t)]
  /\ wt' = [wt EXCEPT ![t] = [op |-> "recv", value |-> Null, done |-> FALSE]]
  /\ UNCHANGED hist

RecvLoop(t) ==
  RecvBuffer(t) \/ RecvSender(t) \/ RecvClosed(t) \/ RecvQueue(t)

\* chan_recv takes ch->mu for the first time.
Recv(t) == Idle(t) /\ RecvLoop(t)

\* chan_try_recv: the same, but false instead of sleeping.
TryRecv(t) ==
  /\ Idle(t)
  /\ \/ RecvBuffer(t)
     \/ RecvSender(t)
     \/ Empty /\ UNCHANGED vars

SlipClosedBeatsValue(t) ==
  /\ Woken(t, "recv")
  /\ wt[t].value # Null
  /\ wt' = [wt EXCEPT ![t] = NoWaiter]
  /\ hist' = [hist EXCEPT !.returned = IF ch.closed THEN @ ELSE Returns(wt[t].value)]
  /\ UNCHANGED ch

\* The sleeping receiver finds done set and a value in its waiter.
RecvWake(t) ==
  /\ Woken(t, "recv")
  /\ wt[t].value # Null
  /\ wt' = [wt EXCEPT ![t] = NoWaiter]
  /\ hist' = [hist EXCEPT !.returned = Returns(wt[t].value)]
  /\ UNCHANGED ch

\* It finds done set and null: false when closed and drained, else once more
\* around the loop, without having let go of ch->mu.
RecvWakeNull(t) ==
  /\ Woken(t, "recv")
  /\ wt[t].value = Null
  /\ RecvLoop(t)

SlipCloseNoSignal(t) ==
  /\ Idle(t)
  /\ ch' = [ch EXCEPT !.closed = TRUE, !.recvq = <<>>]
  /\ UNCHANGED <<wt, hist>>

(***************************************************************************)
(* chan_close: every queued receiver is woken, queued senders stay.        *)
(***************************************************************************)
Close(t) ==
  /\ Idle(t)
  /\ ch' = [ch EXCEPT !.closed = TRUE, !.recvq = <<>>]
  /\ wt' = [u \in Thread |->
              IF \E i \in 1..Len(ch.recvq) : ch.recvq[i] = u
              THEN [wt[u] EXCEPT !.done = TRUE] ELSE wt[u]]
  /\ UNCHANGED hist

(***************************************************************************)
(* Specification.                                                          *)
(***************************************************************************)
Send(t, v) == SendHandoff(t, v) \/ SendBuffer(t, v) \/ SendQueue(t, v)

Wake(t) == SendWake(t) \/ RecvWake(t) \/ RecvWakeNull(t)

Next ==
  \/ \E t \in Sender : SendRefused(t) \/ \E v \in Payload : Send(t, v)
  \/ \E t \in Receiver : Recv(t) \/ TryRecv(t)
  \/ \E t \in Thread : Wake(t) \/ Close(t)

Spec == Init /\ [][Next]_vars

\* A woken thread is scheduled and, as nobody sleeps with ch->mu held, gets it.
Fairness == \A t \in Thread : WF_vars(Wake(t))

FairSpec == Spec /\ Fairness

\* In addition the threads that only receive call chan_recv again and again: the
\* "range over channel" loop of lib/thread.
LiveSpec == FairSpec /\ \A t \in Receiver \ Sender : WF_vars(Recv(t))

(***************************************************************************)
(* Properties.                                                             *)
(***************************************************************************)

\* The ring buffer is what the code takes it for: its three counters agree and
\* stay within the capacity, whatever mix of direct handoffs and moves of
\* queued senders (chan_recv_impl lines 367-381) came before.
RingOK ==
  /\ ch.len \in 0..ch.cap
  /\ IF ch.cap = 0 THEN ch.head = 0 /\ ch.tail = 0
     ELSE /\ ch.head \in 0..(ch.cap - 1)
          /\ ch.tail = (ch.head + ch.len) % ch.cap

\* Every variable has its type and the ring buffer of the ChanRec is well formed.
TypeOK ==
  /\ \E cap \in Capacity : ch \in ChanRec(cap)
  /\ wt \in [Thread -> ChanWaiter]
  /\ hist \in History
  /\ RingOK

\* Nobody sleeps while what it waits for is there: a queued receiver means an
\* open channel with nothing buffered and no queued sender, a queued sender
\* means a full buffer (the order of the tests in chan_send_impl/chan_recv_impl).
NoIdleWaiter ==
  /\ ch.recvq # <<>> => ~ch.closed /\ ch.len = 0 /\ ch.sendq = <<>>
  /\ ch.sendq # <<>> => ch.len = ch.cap

\* No wake-up is lost: a blocked thread is in its queue, exactly once, or its
\* handshake is complete (the done flag of ChanWaiter), never neither and
\* never both.
NoLostWakeup ==
  /\ \A i, j \in 1..Len(ch.sendq) : ch.sendq[i] = ch.sendq[j] => i = j
  /\ \A i, j \in 1..Len(ch.recvq) : ch.recvq[i] = ch.recvq[j] => i = j
  /\ \A t \in Thread :
       /\ (\E i \in 1..Len(ch.sendq) : ch.sendq[i] = t)
            <=> wt[t].op = "send" /\ ~wt[t].done
       /\ (\E i \in 1..Len(ch.recvq) : ch.recvq[i] = t)
            <=> wt[t].op = "recv" /\ ~wt[t].done

\* Nothing is lost, duplicated or reordered on its way: what was accepted is
\* what was taken, then the ring buffer from head on, then the values of the
\* queued senders in queue order.
Fifo ==
  LET a == hist.accepted  n == Len(hist.taken)  q == ch.sendq
  IN  /\ Len(a) = n + ch.len + Len(q)
      /\ \A i \in 1..n : a[i] = hist.taken[i]
      /\ \A i \in 0..(ch.len - 1) : a[n + 1 + i] = ch.buf[(ch.head + i) % ch.cap]
      /\ \A i \in 1..Len(q) : a[n + ch.len + i] = wt[q[i]].value

\* Backpressure, and true rendezvous for ch.cap = 0: the sends that have returned
\* never outnumber the values taken by more than the capacity.  A send is
\* accepted and has not returned while its thread is blocked in it.
Backpressure ==
  Len(hist.accepted) - Cardinality({t \in Thread : wt[t].op = "send"})
    <= Len(hist.taken) + ch.cap

Taken(v) == Cardinality({i \in 1..Len(hist.taken) : hist.taken[i] = v})

Carrying(v) ==
  Cardinality({t \in Thread : Woken(t, "recv") /\ wt[t].value = v})

\* A value that was taken for a receiver is returned to a receiver exactly
\* once: it has been returned, or it sits in the waiter of a receiver that was
\* woken and has not run yet.
ReturnedOnce ==
  \A v \in Value : Taken(v) = hist.returned[v] + Carrying(v)

\* The same for null, which the code says "may legitimately" be sent.  A waiter
\* woken by chan_close carries null too, hence the inequality.
NullReturned == Taken(Null) <= hist.returned[Null] + Carrying(Null)

\* After chan_close nothing is accepted any more and no thread goes to sleep
\* on the channel again.
ClosedForGood ==
  [][ch.closed => /\ ch'.closed
                  /\ hist'.accepted = hist.accepted
                  /\ \A t \in Thread : wt'[t].op # "none" => wt[t].op # "none"]_vars

\* The implementation is a FIFO channel in the sense of ChannelSpec.
Abstract == INSTANCE ChannelSpec WITH
  accepted <- hist.accepted, taken <- hist.taken, closed <- ch.closed
Implements == Abstract!Spec

\* chan_close releases every blocked receiver.
CloseReleases == \A t \in Thread : ch.closed ~> wt[t].op # "recv"

\* While somebody keeps receiving, no sender stays blocked for good, closed
\* channel or not ("queued senders still get their handoff").
SendersProgress == \A t \in Thread : wt[t].op = "send" ~> wt[t].op # "send"

\* Blocked threads go on: receivers when the channel is closed, senders while somebody
\* receives (chan_close, the handoffs of chan_recv_impl).
Progress == CloseReleases /\ SendersProgress
=============================================================================
