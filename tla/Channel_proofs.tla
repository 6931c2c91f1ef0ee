--------------------------- MODULE Channel_proofs ---------------------------
(***************************************************************************)
(* Proofs about Channel, for every set of threads and values, every        *)
(* capacity and every number of sends.                                     *)
(***************************************************************************)
EXTENDS Channel, TLAPS

(***************************************************************************)
(* Waiter queues.                                                          *)
(***************************************************************************)
In(q, t) == \E i \in 1..Len(q) : q[i] = t

Distinct(q) == \A i, j \in 1..Len(q) : q[i] = q[j] => i = j

\* chan_push: a thread that is not in a queue joins its end; the queue stays
\* free of duplicates.
LEMMA PushQueue ==
  ASSUME NEW T, NEW q \in Seq(T), NEW t \in T, Distinct(q), ~In(q, t)
  PROVE  /\ Append(q, t) \in Seq(T)
         /\ Distinct(Append(q, t))
         /\ \A u : In(Append(q, t), u) <=> In(q, u) \/ u = t
<1>1. /\ Append(q, t) \in Seq(T) /\ Len(Append(q, t)) = Len(q) + 1
      /\ \A i \in 1..Len(q) : Append(q, t)[i] = q[i]
      /\ Append(q, t)[Len(q) + 1] = t
      /\ Len(q) \in Nat
  OBVIOUS
<1>2. Distinct(Append(q, t))
  BY <1>1 DEF Distinct, In
<1>3. ASSUME NEW u PROVE In(Append(q, t), u) <=> In(q, u) \/ u = t
  BY <1>1 DEF In
<1> QED BY <1>1, <1>2, <1>3

\* chan_pop: the head leaves the queue, and only the head.
LEMMA PopQueue ==
  ASSUME NEW T, NEW q \in Seq(T), q # <<>>, Distinct(q)
  PROVE  /\ Tail(q) \in Seq(T)
         /\ Head(q) \in T
         /\ In(q, Head(q))
         /\ Distinct(Tail(q))
         /\ \A u : In(Tail(q), u) <=> In(q, u) /\ u # Head(q)
<1>1. /\ Tail(q) \in Seq(T) /\ Head(q) \in T /\ Head(q) = q[1]
      /\ Len(q) \in Nat /\ Len(q) >= 1 /\ Len(Tail(q)) = Len(q) - 1
      /\ \A i \in 1..(Len(q) - 1) : Tail(q)[i] = q[i + 1]
  OBVIOUS
<1>2. In(q, Head(q))
  BY <1>1 DEF In
<1>3. Distinct(Tail(q))
  BY <1>1 DEF Distinct
<1>4. ASSUME NEW u PROVE In(Tail(q), u) <=> In(q, u) /\ u # Head(q)
  <2>1. ASSUME In(Tail(q), u) PROVE In(q, u) /\ u # Head(q)
    <3>1. PICK i \in 1..(Len(q) - 1) : q[i + 1] = u
      BY <1>1, <2>1 DEF In
    <3> QED BY <1>1, <3>1 DEF In, Distinct
  <2>2. ASSUME In(q, u), u # Head(q) PROVE In(Tail(q), u)
    <3>1. PICK i \in 1..Len(q) : q[i] = u
      BY <2>2 DEF In
    <3>2. i - 1 \in 1..(Len(q) - 1) /\ Tail(q)[i - 1] = u
      BY <1>1, <2>2, <3>1
    <3> QED BY <1>1, <3>2 DEF In
  <2> QED BY <2>1, <2>2
<1> QED BY <1>1, <1>2, <1>3, <1>4

\* The empty queue.
LEMMA EmptyQueue ==
  ASSUME NEW T
  PROVE  /\ <<>> \in Seq(T) /\ Distinct(<<>>) /\ \A u : ~In(<<>>, u)
  BY DEF Distinct, In

(***************************************************************************)
(* Ring buffer arithmetic.                                                 *)
(***************************************************************************)
\* The slot n after slot h, of c slots.
After(h, n, c) == (h + n) % c

\* Positions in the ring are at most one lap apart.
LEMMA RingPosition ==
  ASSUME NEW c \in Nat \ {0}, NEW a \in 0..(c - 1), NEW b \in 0..c
  PROVE  After(a, b, c) = IF a + b < c THEN a + b ELSE a + b - c
<1>1. CASE a + b < c
  BY <1>1 DEF After
<1>2. CASE a + b >= c
  <2>1. a + b - c \in 0..(c - 1)
    BY <1>2
  <2>2. (a + b - c) % c = a + b - c
    BY <2>1
  <2>3. ((a + b - c) + c) % c = (a + b - c) % c
    BY <2>1
  <2> QED BY <1>2, <2>1, <2>2, <2>3 DEF After
<1> QED BY <1>1, <1>2

\* One slot more is used at the tail, one less at the head; in a full ring the
\* two coincide.
LEMMA RingSteps ==
  ASSUME NEW c \in Nat \ {0}, NEW h \in 0..(c - 1), NEW n \in 0..c
  PROVE  /\ After(h, n, c) \in 0..(c - 1)
         /\ n < c => After(After(h, n, c), 1, c) = After(h, n + 1, c)
         /\ n > 0 => After(After(h, 1, c), n - 1, c) = After(h, n, c)
         /\ After(h, c, c) = h
<1> DEFINE t == After(h, n, c)
           g == After(h, 1, c)
<1>1. t = IF h + n < c THEN h + n ELSE h + n - c
  BY RingPosition
<1>2. g = IF h + 1 < c THEN h + 1 ELSE h + 1 - c
  <2>1. 1 \in 0..c
    OBVIOUS
  <2> QED BY <2>1, RingPosition
<1> HIDE DEF t, g
<1>3. t \in 0..(c - 1) /\ g \in 0..(c - 1)
  BY <1>1, <1>2
<1>4. ASSUME n < c PROVE After(t, 1, c) = After(h, n + 1, c)
  <2>1. 1 \in 0..c /\ n + 1 \in 0..c
    BY <1>4
  <2>2. After(t, 1, c) = IF t + 1 < c THEN t + 1 ELSE t + 1 - c
    BY <1>3, <2>1, RingPosition
  <2>3. After(h, n + 1, c) = IF h + (n + 1) < c THEN h + (n + 1) ELSE h + (n + 1) - c
    BY <2>1, RingPosition
  <2> QED BY <1>1, <1>3, <1>4, <2>2, <2>3
<1>5. ASSUME n > 0 PROVE After(g, n - 1, c) = After(h, n, c)
  <2>1. n - 1 \in 0..c
    BY <1>5
  <2>2. After(g, n - 1, c) = IF g + (n - 1) < c THEN g + (n - 1) ELSE g + (n - 1) - c
    BY <1>3, <2>1, RingPosition
  <2> QED BY <1>1, <1>2, <1>5, <2>2 DEF t
<1>6. After(h, c, c) = h
  <2>1. c \in 0..c
    OBVIOUS
  <2> QED BY <2>1, RingPosition
<1> QED BY <1>3, <1>4, <1>5, <1>6 DEF t, g

(***************************************************************************)
(* The structural invariant.                                               *)
(***************************************************************************)
Inv == TypeOK /\ NoIdleWaiter /\ NoLostWakeup


\* The queues of a channel and the threads in them.
Queues ==
  /\ Distinct(ch.sendq) /\ Distinct(ch.recvq)
  /\ \A t \in Thread :
       /\ In(ch.sendq, t) <=> wt[t].op = "send" /\ ~wt[t].done
       /\ In(ch.recvq, t) <=> wt[t].op = "recv" /\ ~wt[t].done

\* The record of a channel, with its own capacity.
Record == ch.cap \in Capacity /\ ch \in ChanRec(ch.cap)

Facts ==
  /\ Record
  /\ wt \in [Thread -> ChanWaiter]
  /\ hist \in History
  /\ RingOK
  /\ NoIdleWaiter
  /\ Queues

\* Inv in the terms of the lemmas above and for the capacity at hand.
LEMMA InvFacts == (Inv <=> Facts) /\ (Inv' <=> Facts')
<1>1. (\E cap \in Capacity : ch \in ChanRec(cap)) <=> Record
  BY DEF ChanRec, Record
<1>2. (\E cap \in Capacity : ch' \in ChanRec(cap)) <=> Record'
  BY DEF ChanRec, Record
<1>3. (NoLostWakeup <=> Queues) /\ (NoLostWakeup' <=> Queues')
  BY DEF NoLostWakeup, Queues, In, Distinct
<1> QED BY <1>1, <1>2, <1>3 DEF Inv, TypeOK, Facts

\* A new channel.
LEMMA InvInit == Init => Inv
<1> SUFFICES ASSUME Init PROVE Inv
  OBVIOUS
<1> USE ChannelAssumption
<1>1. PICK cap \in Capacity :
        ch = [cap |-> cap, buf |-> [i \in 0..(cap - 1) |-> Null], head |-> 0, tail |-> 0,
              len |-> 0, closed |-> FALSE, sendq |-> <<>>, recvq |-> <<>>]
  BY DEF Init
<1>2. cap \in Nat /\ Null \in Payload
  BY DEF Payload
<1>3. Record
  BY <1>1, <1>2 DEF ChanRec, Record
<1>4. wt \in [Thread -> ChanWaiter] /\ hist \in History
  BY <1>2 DEF Init, NoWaiter, ChanWaiter, History
<1>5. RingOK
  BY <1>1, <1>2 DEF RingOK
<1>6. NoIdleWaiter
  BY <1>1 DEF NoIdleWaiter
<1>7. \A t \in Thread : wt[t].op = "none"
  BY DEF Init, NoWaiter
<1>8. Queues
  BY <1>1, <1>7, EmptyQueue DEF Queues
<1> QED BY <1>3, <1>4, <1>5, <1>6, <1>8, InvFacts DEF Facts

(***************************************************************************)
(* Every action preserves it.                                              *)
(***************************************************************************)
\* What the actions do to the history.
LEMMA HistoryGrows ==
  ASSUME hist \in History, NEW v \in Payload
  PROVE  /\ Append(hist.accepted, v) \in Seq(Payload)
         /\ Append(hist.taken, v) \in Seq(Payload)
         /\ Returns(v) \in [Payload -> Nat]
<1>1. hist.accepted \in Seq(Payload) /\ hist.taken \in Seq(Payload)
      /\ hist.returned \in [Payload -> Nat]
  BY DEF History
<1> QED BY <1>1 DEF Returns

\* A value is handed to the first queued receiver.
LEMMA SendHandoffInv ==
  ASSUME Inv, NEW t \in Thread, NEW v \in Payload, SendHandoff(t, v)
  PROVE  Inv'
<1> DEFINE r == Head(ch.recvq)
<1>0. Facts
  BY InvFacts
<1>1. /\ Tail(ch.recvq) \in Seq(Thread) /\ r \in Thread /\ In(ch.recvq, r)
      /\ Distinct(Tail(ch.recvq))
      /\ \A u : In(Tail(ch.recvq), u) <=> In(ch.recvq, u) /\ u # r
  BY <1>0, PopQueue DEF Facts, Record, ChanRec, Queues, SendHandoff
<1>2. /\ ch' = [ch EXCEPT !.recvq = Tail(ch.recvq)]
      /\ wt' = [wt EXCEPT ![r] = [op |-> "recv", value |-> v, done |-> TRUE]]
      /\ hist' = [hist EXCEPT !.accepted = Append(hist.accepted, v),
                              !.taken = Append(hist.taken, v)]
      /\ ch.recvq # <<>>
  BY DEF SendHandoff
<1>3. Record'
  BY <1>0, <1>1, <1>2 DEF Facts, Record, ChanRec
<1>4. wt' \in [Thread -> ChanWaiter]
  BY <1>0, <1>1, <1>2 DEF Facts, ChanWaiter
<1>5. hist' \in History
  BY <1>0, <1>2, HistoryGrows DEF Facts, History
<1>6. RingOK'
  BY <1>0, <1>2 DEF Facts, Record, ChanRec, RingOK
<1>7. NoIdleWaiter'
  BY <1>0, <1>2 DEF Facts, Record, ChanRec, NoIdleWaiter
<1>8. Queues'
  BY <1>0, <1>1, <1>2 DEF Facts, Record, ChanRec, Queues, ChanWaiter
<1> QED BY <1>3, <1>4, <1>5, <1>6, <1>7, <1>8, InvFacts DEF Facts

\* A value goes into the ring buffer.
LEMMA SendBufferInv ==
  ASSUME Inv, NEW t \in Thread, NEW v \in Payload, SendBuffer(t, v)
  PROVE  Inv'
<1>0. Facts
  BY InvFacts
<1>1. /\ ch' = [ch EXCEPT !.buf[ch.tail] = v, !.tail = (ch.tail + 1) % ch.cap,
                          !.len = ch.len + 1]
      /\ hist' = [hist EXCEPT !.accepted = Append(hist.accepted, v)]
      /\ wt' = wt
      /\ ch.recvq = <<>> /\ ch.cap > 0 /\ ch.len < ch.cap
  BY DEF SendBuffer, PutInBuffer, HasRoom
<1>2. /\ ch.cap \in Nat \ {0} /\ ch.len \in 0..(ch.cap - 1) /\ ch.head \in 0..(ch.cap - 1)
      /\ ch.tail = (ch.head + ch.len) % ch.cap
  BY <1>0, <1>1, ChannelAssumption DEF Facts, Record, RingOK
<1>3. /\ ch.tail \in 0..(ch.cap - 1)
      /\ (ch.tail + 1) % ch.cap = (ch.head + (ch.len + 1)) % ch.cap
      /\ (ch.tail + 1) % ch.cap \in Int
  <2> DEFINE c == ch.cap
             h == ch.head
             n == ch.len
  <2>1. /\ c \in Nat \ {0} /\ h \in 0..(c - 1) /\ n \in 0..c /\ n < c /\ n + 1 \in 0..c
        /\ ch.tail = After(h, n, c)
    BY <1>2 DEF After
  <2> HIDE DEF c, h, n
  <2>2. After(h, n, c) \in 0..(c - 1) /\ After(After(h, n, c), 1, c) = After(h, n + 1, c)
    BY <2>1, RingSteps
  <2>3. After(h, n + 1, c) \in 0..(c - 1)
    BY <2>1, RingSteps
  <2>4. ch.tail \in 0..(c - 1) /\ After(ch.tail, 1, c) = After(h, n + 1, c)
        /\ After(h, n + 1, c) \in Int
    BY <2>1, <2>2, <2>3
  <2> QED BY <2>4 DEF After, c, h, n
<1>4. Record'
  <2> DEFINE b == [ch.buf EXCEPT ![ch.tail] = v]
  <2>1. b \in [0..(ch.cap - 1) -> Payload] /\ ch.len + 1 \in Int
    BY <1>0, <1>2 DEF Facts, Record, ChanRec
  <2>2. ch' = [ch EXCEPT !.buf = b, !.tail = (ch.tail + 1) % ch.cap, !.len = ch.len + 1]
    BY <1>0, <1>1 DEF Facts, Record, ChanRec
  <2> HIDE DEF b
  <2> QED BY <1>0, <1>3, <2>1, <2>2 DEF Facts, Record, ChanRec
<1>5. hist' \in History
  BY <1>0, <1>1, HistoryGrows DEF Facts, History
<1>6. /\ ch'.cap = ch.cap /\ ch'.head = ch.head /\ ch'.tail = (ch.tail + 1) % ch.cap
      /\ ch'.len = ch.len + 1 /\ ch'.sendq = ch.sendq /\ ch'.recvq = ch.recvq
  BY <1>0, <1>1 DEF Facts, Record, ChanRec
<1>7. RingOK'
  BY <1>2, <1>3, <1>6 DEF RingOK
<1>8. NoIdleWaiter'
  BY <1>0, <1>1, <1>2, <1>6 DEF Facts, NoIdleWaiter
<1>9. Queues'
  BY <1>0, <1>1, <1>6 DEF Facts, Queues
<1> QED BY <1>0, <1>1, <1>4, <1>5, <1>7, <1>8, <1>9, InvFacts DEF Facts

\* A sender queues and sleeps.
LEMMA SendQueueInv ==
  ASSUME Inv, NEW t \in Thread, NEW v \in Payload, SendQueue(t, v)
  PROVE  Inv'
<1>0. Facts
  BY InvFacts
<1>1. /\ ch' = [ch EXCEPT !.sendq = Append(ch.sendq, t)]
      /\ wt' = [wt EXCEPT ![t] = [op |-> "send", value |-> v, done |-> FALSE]]
      /\ hist' = [hist EXCEPT !.accepted = Append(hist.accepted, v)]
      /\ ch.recvq = <<>> /\ ~(ch.cap > 0 /\ ch.len < ch.cap)
      /\ wt[t].op = "none"
  BY DEF SendQueue, PutInQueue, HasRoom, Sendable, Idle
<1>2. /\ Append(ch.sendq, t) \in Seq(Thread)
      /\ Distinct(Append(ch.sendq, t))
      /\ \A u : In(Append(ch.sendq, t), u) <=> In(ch.sendq, u) \/ u = t
  BY <1>0, <1>1, PushQueue DEF Facts, Record, ChanRec, Queues
<1>3. Record'
  BY <1>0, <1>1, <1>2 DEF Facts, Record, ChanRec
<1>4. wt' \in [Thread -> ChanWaiter]
  BY <1>0, <1>1 DEF Facts, ChanWaiter
<1>5. hist' \in History
  BY <1>0, <1>1, HistoryGrows DEF Facts, History
<1>6. RingOK'
  BY <1>0, <1>1 DEF Facts, Record, ChanRec, RingOK
<1>7. NoIdleWaiter'
  BY <1>0, <1>1, ChannelAssumption DEF Facts, Record, ChanRec, RingOK, NoIdleWaiter
<1>8. Queues'
  BY <1>0, <1>1, <1>2 DEF Facts, Record, ChanRec, Queues, ChanWaiter
<1> QED BY <1>3, <1>4, <1>5, <1>6, <1>7, <1>8, InvFacts DEF Facts

\* A thread inside chan_recv_impl that is in neither queue.
Free(t) == wt[t].op = "none" \/ (wt[t].op = "recv" /\ wt[t].done)

\* A receiver takes from the ring buffer, nobody waits to send.
LEMMA RecvBufferAloneInv ==
  ASSUME Inv, NEW t \in Thread, Free(t), RecvBuffer(t), ch.sendq = <<>>
  PROVE  Inv'
<1> DEFINE v == ch.buf[ch.head]
<1>0. Facts
  BY InvFacts
<1>1. /\ ch.len > 0
      /\ ch' = [ch EXCEPT !.head = (ch.head + 1) % ch.cap, !.len = ch.len - 1]
      /\ wt' = [wt EXCEPT ![t] = NoWaiter]
      /\ hist' = [hist EXCEPT !.taken = Append(hist.taken, v), !.returned = Returns(v)]
  BY DEF RecvBuffer
<1>2. /\ ch.cap \in Nat \ {0} /\ ch.len \in 1..ch.cap /\ ch.head \in 0..(ch.cap - 1)
      /\ ch.tail = (ch.head + ch.len) % ch.cap
  BY <1>0, <1>1, ChannelAssumption DEF Facts, Record, RingOK
<1>3. v \in Payload
  BY <1>0, <1>2 DEF Facts, Record, ChanRec
<1>4. /\ (ch.head + 1) % ch.cap \in 0..(ch.cap - 1)
      /\ (((ch.head + 1) % ch.cap) + (ch.len - 1)) % ch.cap = (ch.head + ch.len) % ch.cap
  <2>1. ch.len \in 0..ch.cap /\ 1 \in 0..ch.cap
    BY <1>2
  <2>2. After(ch.head, 1, ch.cap) \in 0..(ch.cap - 1)
    BY <1>2, <2>1, RingSteps
  <2>3. After(After(ch.head, 1, ch.cap), ch.len - 1, ch.cap) = After(ch.head, ch.len, ch.cap)
    BY <1>1, <1>2, <2>1, RingSteps
  <2> QED BY <2>2, <2>3 DEF After
<1> HIDE DEF v
<1>5. Record'
  <2> DEFINE h == (ch.head + 1) % ch.cap
             n == ch.len - 1
  <2>1. h \in Int /\ n \in Int
    BY <1>2, <1>4
  <2>2. ch' = [ch EXCEPT !.head = h, !.len = n]
    BY <1>1
  <2> HIDE DEF h, n
  <2> QED BY <1>0, <2>1, <2>2 DEF Facts, Record, ChanRec
<1>6. wt' \in [Thread -> ChanWaiter]
  BY <1>0, <1>1 DEF Facts, ChanWaiter, NoWaiter, Payload
<1>7. hist' \in History
  BY <1>0, <1>1, <1>3, HistoryGrows DEF Facts, History
<1>8. /\ ch'.cap = ch.cap /\ ch'.head = (ch.head + 1) % ch.cap /\ ch'.tail = ch.tail
      /\ ch'.len = ch.len - 1 /\ ch'.sendq = ch.sendq /\ ch'.recvq = ch.recvq
  BY <1>0, <1>1 DEF Facts, Record, ChanRec
<1>9. RingOK'
  BY <1>2, <1>4, <1>8 DEF RingOK
<1>10. ch.recvq = <<>>
  BY <1>0, <1>1 DEF Facts, NoIdleWaiter
<1>11. NoIdleWaiter'
  BY <1>8, <1>10 DEF NoIdleWaiter
<1>12. Queues'
  BY <1>0, <1>1, <1>8 DEF Facts, Queues, Free, NoWaiter
<1> QED BY <1>5, <1>6, <1>7, <1>9, <1>11, <1>12, InvFacts DEF Facts

\* A receiver takes from the full ring buffer and a queued sender fills the slot.
LEMMA RecvBufferRefillInv ==
  ASSUME Inv, NEW t \in Thread, Free(t), RecvBuffer(t), ch.sendq # <<>>
  PROVE  Inv'
<1> DEFINE v == ch.buf[ch.head]
           s == Head(ch.sendq)
           b == [ch.buf EXCEPT ![ch.tail] = wt[s].value]
<1>0. Facts
  BY InvFacts
<1>1. /\ ch.len > 0
      /\ ch' = [ch EXCEPT !.head = (ch.head + 1) % ch.cap, !.buf[ch.tail] = wt[s].value,
                          !.tail = (ch.tail + 1) % ch.cap, !.sendq = Tail(ch.sendq)]
      /\ wt' = [wt EXCEPT ![s].done = TRUE, ![t] = NoWaiter]
      /\ hist' = [hist EXCEPT !.taken = Append(hist.taken, v), !.returned = Returns(v)]
  BY DEF RecvBuffer
<1>2. /\ Tail(ch.sendq) \in Seq(Thread) /\ s \in Thread /\ In(ch.sendq, s)
      /\ Distinct(Tail(ch.sendq))
      /\ \A u : In(Tail(ch.sendq), u) <=> In(ch.sendq, u) /\ u # s
  BY <1>0, PopQueue DEF Facts, Record, ChanRec, Queues
<1>3. wt[s].op = "send" /\ ~wt[s].done /\ s # t
  BY <1>0, <1>2 DEF Facts, Queues, Free
<1>4. ch.len = ch.cap /\ ch.recvq = <<>>
  BY <1>0, <1>1 DEF Facts, NoIdleWaiter
<1>5. /\ ch.cap \in Nat \ {0} /\ ch.head \in 0..(ch.cap - 1)
      /\ ch.tail = (ch.head + ch.cap) % ch.cap
  BY <1>0, <1>1, <1>4, ChannelAssumption DEF Facts, Record, RingOK
<1>6. /\ ch.tail = ch.head
      /\ (ch.head + 1) % ch.cap \in 0..(ch.cap - 1)
      /\ (ch.head + 1) % ch.cap = (((ch.head + 1) % ch.cap) + ch.cap) % ch.cap
  <2>1. 1 \in 0..ch.cap /\ ch.cap \in 0..ch.cap
    BY <1>5
  <2>2. After(ch.head, ch.cap, ch.cap) = ch.head
    BY <1>5, <2>1, RingSteps
  <2>3. After(ch.head, 1, ch.cap) \in 0..(ch.cap - 1)
    BY <1>5, <2>1, RingSteps
  <2>4. After(After(ch.head, 1, ch.cap), ch.cap, ch.cap) = After(ch.head, 1, ch.cap)
    BY <1>5, <2>1, <2>3, RingSteps
  <2> QED BY <1>5, <2>2, <2>3, <2>4 DEF After
<1>7. /\ v \in Payload /\ b \in [0..(ch.cap - 1) -> Payload]
      /\ ch' = [ch EXCEPT !.head = (ch.head + 1) % ch.cap, !.buf = b,
                          !.tail = (ch.tail + 1) % ch.cap, !.sendq = Tail(ch.sendq)]
  BY <1>0, <1>1, <1>2, <1>5 DEF Facts, Record, ChanRec, ChanWaiter
<1> HIDE DEF v, b
<1>8. Record'
  <2> DEFINE h == (ch.head + 1) % ch.cap
  <2>1. h \in Int
    BY <1>6
  <2>2. ch' = [ch EXCEPT !.head = h, !.buf = b, !.tail = h, !.sendq = Tail(ch.sendq)]
    BY <1>6, <1>7
  <2> HIDE DEF h
  <2> QED BY <1>0, <1>2, <1>7, <2>1, <2>2 DEF Facts, Record, ChanRec
<1>9. wt' \in [Thread -> ChanWaiter]
  BY <1>0, <1>1, <1>2 DEF Facts, ChanWaiter, NoWaiter, Payload
<1>10. hist' \in History
  BY <1>0, <1>1, <1>7, HistoryGrows DEF Facts, History
<1>11. /\ ch'.cap = ch.cap /\ ch'.head = (ch.head + 1) % ch.cap
       /\ ch'.tail = (ch.tail + 1) % ch.cap
       /\ ch'.len = ch.len /\ ch'.sendq = Tail(ch.sendq) /\ ch'.recvq = ch.recvq
  BY <1>0, <1>7 DEF Facts, Record, ChanRec
<1>12. RingOK'
  BY <1>4, <1>5, <1>6, <1>11 DEF RingOK
<1>13. NoIdleWaiter'
  BY <1>4, <1>11 DEF NoIdleWaiter
<1>14. Queues'
  BY <1>0, <1>1, <1>2, <1>3, <1>11 DEF Facts, Queues, Free, NoWaiter, ChanWaiter
<1> QED BY <1>8, <1>9, <1>10, <1>12, <1>13, <1>14, InvFacts DEF Facts

\* A receiver takes the value of the first queued sender.
LEMMA RecvSenderInv ==
  ASSUME Inv, NEW t \in Thread, Free(t), RecvSender(t)
  PROVE  Inv'
<1> DEFINE s == Head(ch.sendq)
           v == wt[s].value
<1>0. Facts
  BY InvFacts
<1>1. /\ ch.len = 0 /\ ch.sendq # <<>>
      /\ ch' = [ch EXCEPT !.sendq = Tail(ch.sendq)]
      /\ wt' = [wt EXCEPT ![s].done = TRUE, ![t] = NoWaiter]
      /\ hist' = [hist EXCEPT !.taken = Append(hist.taken, v), !.returned = Returns(v)]
  BY DEF RecvSender
<1>2. /\ Tail(ch.sendq) \in Seq(Thread) /\ s \in Thread /\ In(ch.sendq, s)
      /\ Distinct(Tail(ch.sendq))
      /\ \A u : In(Tail(ch.sendq), u) <=> In(ch.sendq, u) /\ u # s
  BY <1>0, <1>1, PopQueue DEF Facts, Record, ChanRec, Queues
<1>3. wt[s].op = "send" /\ ~wt[s].done /\ s # t /\ v \in Payload
  BY <1>0, <1>2 DEF Facts, Queues, Free, ChanWaiter
<1> HIDE DEF v
<1>4. ch.len = ch.cap /\ ch.recvq = <<>>
  BY <1>0, <1>1 DEF Facts, NoIdleWaiter
<1>5. Record'
  BY <1>0, <1>1, <1>2 DEF Facts, Record, ChanRec
<1>6. wt' \in [Thread -> ChanWaiter]
  BY <1>0, <1>1, <1>2 DEF Facts, ChanWaiter, NoWaiter, Payload
<1>7. hist' \in History
  BY <1>0, <1>1, <1>3, HistoryGrows DEF Facts, History
<1>8. /\ ch'.cap = ch.cap /\ ch'.head = ch.head /\ ch'.tail = ch.tail
      /\ ch'.len = ch.len /\ ch'.sendq = Tail(ch.sendq) /\ ch'.recvq = ch.recvq
  BY <1>0, <1>1 DEF Facts, Record, ChanRec
<1>9. RingOK'
  BY <1>0, <1>8 DEF Facts, RingOK
<1>10. NoIdleWaiter'
  BY <1>4, <1>8 DEF NoIdleWaiter
<1>11. Queues'
  BY <1>0, <1>1, <1>2, <1>3, <1>8 DEF Facts, Queues, Free, NoWaiter, ChanWaiter
<1> QED BY <1>5, <1>6, <1>7, <1>9, <1>10, <1>11, InvFacts DEF Facts

\* A receiver finds the channel closed and drained.
LEMMA RecvClosedInv ==
  ASSUME Inv, NEW t \in Thread, Free(t), RecvClosed(t)
  PROVE  Inv'
<1>0. Facts
  BY InvFacts
<1>1. wt' = [wt EXCEPT ![t] = NoWaiter] /\ ch' = ch /\ hist' = hist
  BY DEF RecvClosed
<1>2. wt' \in [Thread -> ChanWaiter]
  BY <1>0, <1>1 DEF Facts, ChanWaiter, NoWaiter, Payload
<1>3. Queues'
  BY <1>0, <1>1 DEF Facts, Queues, Free, NoWaiter
<1> QED BY <1>0, <1>1, <1>2, <1>3, InvFacts DEF Facts, Record, RingOK, NoIdleWaiter

\* A receiver queues and sleeps.
LEMMA RecvQueueInv ==
  ASSUME Inv, NEW t \in Thread, Free(t), RecvQueue(t)
  PROVE  Inv'
<1>0. Facts
  BY InvFacts
<1>1. /\ ch.len = 0 /\ ch.sendq = <<>> /\ ~ch.closed
      /\ ch' = [ch EXCEPT !.recvq = Append(ch.recvq, t)]
      /\ wt' = [wt EXCEPT ![t] = [op |-> "recv", value |-> Null, done |-> FALSE]]
      /\ hist' = hist
  BY DEF RecvQueue, Empty
<1>2. /\ Append(ch.recvq, t) \in Seq(Thread)
      /\ Distinct(Append(ch.recvq, t))
      /\ \A u : In(Append(ch.recvq, t), u) <=> In(ch.recvq, u) \/ u = t
  BY <1>0, PushQueue DEF Facts, Record, ChanRec, Queues, Free
<1>3. Record'
  BY <1>0, <1>1, <1>2 DEF Facts, Record, ChanRec
<1>4. wt' \in [Thread -> ChanWaiter]
  BY <1>0, <1>1 DEF Facts, ChanWaiter, Payload
<1>5. RingOK'
  BY <1>0, <1>1 DEF Facts, Record, ChanRec, RingOK
<1>6. NoIdleWaiter'
  BY <1>0, <1>1 DEF Facts, Record, ChanRec, NoIdleWaiter
<1>7. Queues'
  BY <1>0, <1>1, <1>2 DEF Facts, Record, ChanRec, Queues, Free, ChanWaiter
<1> QED BY <1>0, <1>1, <1>3, <1>4, <1>5, <1>6, <1>7, InvFacts DEF Facts

\* Once around the loop of chan_recv_impl.
LEMMA RecvLoopInv ==
  ASSUME Inv, NEW t \in Thread, Free(t), RecvLoop(t)
  PROVE  Inv'
  BY RecvBufferAloneInv, RecvBufferRefillInv, RecvSenderInv, RecvClosedInv, RecvQueueInv
     DEF RecvLoop

\* A blocked call returns.
LEMMA WakeInv ==
  ASSUME Inv, NEW t \in Thread, Wake(t)
  PROVE  Inv'
<1>0. Facts
  BY InvFacts
<1>1. CASE SendWake(t) \/ RecvWake(t)
  <2>1. wt' = [wt EXCEPT ![t] = NoWaiter] /\ ch' = ch /\ wt[t].done
    BY <1>1 DEF SendWake, RecvWake, Woken
  <2>2. wt' \in [Thread -> ChanWaiter]
    BY <1>0, <2>1 DEF Facts, ChanWaiter, NoWaiter, Payload
  <2>3. hist' \in History
    <3>1. CASE SendWake(t)
      BY <1>0, <3>1 DEF SendWake, Facts
    <3>2. CASE RecvWake(t)
      <4>1. wt[t].value \in Payload
        BY <1>0 DEF Facts, ChanWaiter
      <4>2. hist' = [hist EXCEPT !.returned = Returns(wt[t].value)]
        BY <3>2 DEF RecvWake
      <4> QED BY <1>0, <4>1, <4>2, HistoryGrows DEF Facts, History
    <3> QED BY <1>1, <3>1, <3>2
  <2>4. Queues'
    BY <1>0, <2>1 DEF Facts, Queues, NoWaiter
  <2> QED BY <1>0, <2>1, <2>2, <2>3, <2>4, InvFacts DEF Facts, Record, RingOK, NoIdleWaiter
<1>2. CASE RecvWakeNull(t)
  BY <1>2, RecvLoopInv DEF RecvWakeNull, Woken, Free
<1> QED BY <1>1, <1>2 DEF Wake

\* The channel is closed and its receivers are woken.
LEMMA CloseInv ==
  ASSUME Inv, NEW t \in Thread, Close(t)
  PROVE  Inv'
<1>0. Facts
  BY InvFacts
<1>1. /\ ch' = [ch EXCEPT !.closed = TRUE, !.recvq = <<>>]
      /\ wt' = [u \in Thread |->
                  IF In(ch.recvq, u) THEN [wt[u] EXCEPT !.done = TRUE] ELSE wt[u]]
      /\ hist' = hist
  BY DEF Close, In
<1>2. Record'
  <2> DEFINE q == <<>>
  <2>1. q \in Seq(Thread)
    BY EmptyQueue
  <2>2. ch' = [ch EXCEPT !.closed = TRUE, !.recvq = q]
    BY <1>1
  <2> HIDE DEF q
  <2> QED BY <1>0, <2>1, <2>2 DEF Facts, Record, ChanRec
<1>3. wt' \in [Thread -> ChanWaiter]
  BY <1>0, <1>1 DEF Facts, ChanWaiter
<1>4. /\ ch'.cap = ch.cap /\ ch'.head = ch.head /\ ch'.tail = ch.tail
      /\ ch'.len = ch.len /\ ch'.sendq = ch.sendq /\ ch'.recvq = <<>>
  BY <1>0, <1>1 DEF Facts, Record, ChanRec
<1>5. RingOK' /\ NoIdleWaiter'
  BY <1>0, <1>4 DEF Facts, RingOK, NoIdleWaiter
<1>6. \A u \in Thread : /\ wt'[u].op = wt[u].op
                        /\ wt'[u].done = (wt[u].done \/ In(ch.recvq, u))
  BY <1>0, <1>1 DEF Facts, ChanWaiter
<1>7. Queues'
  <2>1. Distinct(ch'.sendq) /\ Distinct(ch'.recvq)
    BY <1>0, <1>4, EmptyQueue DEF Facts, Queues
  <2>2. ASSUME NEW u \in Thread
        PROVE  /\ In(ch'.sendq, u) <=> wt'[u].op = "send" /\ ~wt'[u].done
               /\ In(ch'.recvq, u) <=> wt'[u].op = "recv" /\ ~wt'[u].done
    BY <1>0, <1>4, <1>6, EmptyQueue DEF Facts, Queues
  <2> QED BY <2>1, <2>2 DEF Queues
<1> QED BY <1>0, <1>1, <1>2, <1>3, <1>5, <1>7, InvFacts DEF Facts

\* Every step of the specification.
LEMMA InvNext ==
  ASSUME Inv, [Next]_vars
  PROVE  Inv'
<1>1. CASE UNCHANGED vars
  BY <1>1 DEF vars, Inv, TypeOK, RingOK, NoIdleWaiter, NoLostWakeup
<1>2. ASSUME NEW t \in Sender, SendRefused(t) \/ \E v \in Payload : Send(t, v)
      PROVE  Inv'
  <2>1. t \in Thread
    BY DEF Thread
  <2> QED BY <1>1, <1>2, <2>1, SendHandoffInv, SendBufferInv, SendQueueInv
          DEF SendRefused, Send
<1>3. ASSUME NEW t \in Receiver, Recv(t) \/ TryRecv(t)
      PROVE  Inv'
  <2>1. t \in Thread
    BY DEF Thread
  <2>2. CASE Recv(t)
    BY <2>1, <2>2, RecvLoopInv DEF Recv, Idle, Free
  <2>3. CASE TryRecv(t)
    BY <1>1, <2>1, <2>3, RecvLoopInv DEF TryRecv, RecvLoop, Idle, Free
  <2> QED BY <1>3, <2>2, <2>3
<1>4. ASSUME NEW t \in Thread, Wake(t) \/ Close(t)
      PROVE  Inv'
  BY <1>4, WakeInv, CloseInv
<1> QED BY <1>1, <1>2, <1>3, <1>4 DEF Next

\* The structure of a channel holds at all times: its record is well typed and
\* its ring buffer well formed, nobody sleeps while what it waits for is there,
\* and no wake-up is lost.
THEOREM Structure == Spec => []Inv
  BY InvInit, InvNext, PTL DEF Spec

\* Every variable has its type and the ring buffer is well formed.
THEOREM TypeCorrect == Spec => []TypeOK
<1>1. Inv => TypeOK
  BY DEF Inv
<1> QED BY <1>1, Structure, PTL

\* No thread sleeps on the channel while what it waits for is there.
THEOREM NobodyWaitsIdly == Spec => []NoIdleWaiter
<1>1. Inv => NoIdleWaiter
  BY DEF Inv
<1> QED BY <1>1, Structure, PTL

\* A blocked thread is in its queue or its handshake is complete.
THEOREM NoWakeupIsLost == Spec => []NoLostWakeup
<1>1. Inv => NoLostWakeup
  BY DEF Inv
<1> QED BY <1>1, Structure, PTL

\* A closed channel stays closed, accepts nothing, and puts nobody to sleep.
THEOREM StaysClosed == Spec => ClosedForGood
<1> DEFINE Kept == /\ ch'.closed
                   /\ hist'.accepted = hist.accepted
                   /\ \A t \in Thread : wt'[t].op # "none" => wt[t].op # "none"
<1>1. ASSUME Inv, ch.closed, NEW t \in Thread, RecvLoop(t) PROVE Kept
  <2>0. Facts
    BY <1>1, InvFacts
  <2>1. CASE RecvBuffer(t) /\ ch.sendq = <<>>
    <3>1. /\ ch'.closed /\ hist'.accepted = hist.accepted
          /\ wt' = [wt EXCEPT ![t] = NoWaiter]
      BY <1>1, <2>0, <2>1 DEF RecvBuffer, Facts, Record, ChanRec, History
    <3> QED BY <2>0, <3>1 DEF Facts, NoWaiter
  <2>2. CASE (RecvBuffer(t) \/ RecvSender(t)) /\ ch.sendq # <<>>
    <3>1. /\ ch'.closed /\ hist'.accepted = hist.accepted
          /\ wt' = [wt EXCEPT ![Head(ch.sendq)].done = TRUE, ![t] = NoWaiter]
      BY <1>1, <2>0, <2>2 DEF RecvBuffer, RecvSender, Facts, Record, ChanRec, History
    <3>2. \A u \in Thread : wt'[u].op = wt[u].op \/ wt'[u].op = "none"
      BY <2>0, <3>1 DEF Facts, ChanWaiter, NoWaiter
    <3> QED BY <3>1, <3>2
  <2>3. CASE RecvClosed(t)
    <3>1. ch' = ch /\ hist' = hist /\ wt' = [wt EXCEPT ![t] = NoWaiter]
      BY <2>3 DEF RecvClosed
    <3> QED BY <1>1, <2>0, <3>1 DEF Facts, NoWaiter
  <2> QED BY <1>1, <2>1, <2>2, <2>3 DEF RecvLoop, RecvSender, RecvQueue
<1>2. ASSUME Inv, ch.closed, NEW t \in Thread, Wake(t) \/ Close(t) PROVE Kept
  <2>0. Facts
    BY <1>2, InvFacts
  <2>1. CASE SendWake(t) \/ RecvWake(t)
    <3>1. ch' = ch /\ hist'.accepted = hist.accepted /\ wt' = [wt EXCEPT ![t] = NoWaiter]
      BY <2>0, <2>1 DEF SendWake, RecvWake, Facts, History
    <3> QED BY <1>2, <2>0, <3>1 DEF Facts, NoWaiter
  <2>2. CASE RecvWakeNull(t)
    BY <1>1, <1>2, <2>2 DEF RecvWakeNull
  <2>3. CASE Close(t)
    <3>1. ch'.closed /\ hist' = hist /\ \A u \in Thread : wt'[u].op = wt[u].op
      BY <2>0, <2>3 DEF Close, Facts, Record, ChanRec, ChanWaiter
    <3> QED BY <3>1
  <2> QED BY <1>2, <2>1, <2>2, <2>3 DEF Wake
<1>3. ASSUME Inv, ch.closed, [Next]_vars PROVE Kept \/ UNCHANGED vars
  <2>1. ASSUME NEW t \in Sender, SendRefused(t) \/ \E v \in Payload : Send(t, v)
        PROVE  UNCHANGED vars
    BY <1>3, <2>1 DEF SendRefused, Send, SendHandoff, SendBuffer, SendQueue, Sendable
  <2>2. ASSUME NEW t \in Receiver, Recv(t) \/ TryRecv(t)
        PROVE  Kept \/ UNCHANGED vars
    <3>1. t \in Thread
      BY DEF Thread
    <3> HIDE DEF Kept
    <3> QED BY <1>1, <1>3, <2>2, <3>1 DEF Recv, TryRecv, RecvLoop
  <2> HIDE DEF Kept
  <2> QED BY <1>2, <1>3, <2>1, <2>2 DEF Next
<1>4. Inv /\ [Next]_vars =>
        [ch.closed => /\ ch'.closed
                      /\ hist'.accepted = hist.accepted
                      /\ \A t \in Thread : wt'[t].op # "none" => wt[t].op # "none"]_vars
  BY <1>3
<1> QED BY <1>4, Structure, PTL DEF Spec, ClosedForGood
=============================================================================
