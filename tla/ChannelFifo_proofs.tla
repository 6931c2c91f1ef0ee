------------------------- MODULE ChannelFifo_proofs -------------------------
(***************************************************************************)
(* A channel delivers in order and implements ChannelSpec: the line of     *)
(* values, from those taken over the ring buffer to the queued senders, is *)
(* what was accepted.  A value taken for a receiver is returned to it      *)
(* once.                                                                   *)
(***************************************************************************)
EXTENDS Channel_proofs, FiniteSetTheorems

(***************************************************************************)
(* The line of values, apart from the variables: a was accepted, k taken;  *)
(* n values sit in the ring buffer b of c slots from slot h on; w[1..m]    *)
(* are those of the queued senders.                                        *)
(***************************************************************************)
Line(a, k, b, h, n, c, m, w) ==
  /\ Len(a) = Len(k) + n + m
  /\ \A i \in 1..Len(k) : a[i] = k[i]
  /\ \A i \in 0..(n - 1) : a[Len(k) + 1 + i] = b[After(h, i, c)]
  /\ \A i \in 1..m : a[Len(k) + n + i] = w[i]

\* Two positions less than a lap apart are different slots.
LEMMA RingDistinct ==
  ASSUME NEW c \in Nat \ {0}, NEW h \in 0..(c - 1), NEW i \in 0..(c - 1), NEW j \in 0..(c - 1),
         i # j
  PROVE  After(h, i, c) # After(h, j, c)
<1>1. i \in 0..c /\ j \in 0..c
  OBVIOUS
<1>2. After(h, i, c) = IF h + i < c THEN h + i ELSE h + i - c
  BY <1>1, RingPosition
<1>3. After(h, j, c) = IF h + j < c THEN h + j ELSE h + j - c
  BY <1>1, RingPosition
<1> QED BY <1>2, <1>3

\* What appending does to a sequence.
LEMMA AppendFacts ==
  ASSUME NEW T, NEW s \in Seq(T), NEW x \in T
  PROVE  /\ Append(s, x) \in Seq(T)
         /\ Len(Append(s, x)) = Len(s) + 1
         /\ \A i \in 1..Len(s) : Append(s, x)[i] = s[i]
         /\ Append(s, x)[Len(s) + 1] = x
         /\ Len(s) \in Nat
  OBVIOUS

\* A value handed over when nothing is pending.
LEMMA HandoffLine ==
  ASSUME NEW T, NEW a \in Seq(T), NEW k \in Seq(T), NEW v \in T,
         NEW b, NEW h, NEW c, NEW w, NEW w2,
         Line(a, k, b, h, 0, c, 0, w)
  PROVE  Line(Append(a, v), Append(k, v), b, h, 0, c, 0, w2)
  BY AppendFacts DEF Line

\* A value into the free slot behind the last one.
LEMMA BufferLine ==
  ASSUME NEW T, NEW a \in Seq(T), NEW k \in Seq(T), NEW v \in T,
         NEW c \in Nat \ {0}, NEW b \in [0..(c - 1) -> T],
         NEW h \in 0..(c - 1), NEW n \in 0..(c - 1), NEW w, NEW w2,
         Line(a, k, b, h, n, c, 0, w)
  PROVE  Line(Append(a, v), k, [b EXCEPT ![After(h, n, c)] = v], h, n + 1, c, 0, w2)
<1> DEFINE e == [b EXCEPT ![After(h, n, c)] = v]
<1>1. Len(Append(a, v)) = Len(k) + (n + 1) + 0
  BY AppendFacts DEF Line
<1>2. ASSUME NEW i \in 1..Len(k) PROVE Append(a, v)[i] = k[i]
  BY AppendFacts DEF Line
<1>3. ASSUME NEW i \in 0..n PROVE Append(a, v)[Len(k) + 1 + i] = e[After(h, i, c)]
  <2>1. n \in 0..c /\ After(h, n, c) \in 0..(c - 1)
    BY RingSteps
  <2>2. CASE i = n
    <3>1. e[After(h, n, c)] = v
      BY <2>1
    <3>2. Append(a, v)[Len(k) + 1 + n] = v
      BY AppendFacts DEF Line
    <3> QED BY <2>2, <3>1, <3>2
  <2>3. CASE i # n
    <3>1. i \in 0..(n - 1) /\ i \in 0..(c - 1) /\ i \in 0..c
      BY <2>3
    <3>2. After(h, i, c) # After(h, n, c)
      BY <2>3, <3>1, RingDistinct
    <3>3. After(h, i, c) \in 0..(c - 1)
      BY <3>1, RingSteps
    <3>4. e[After(h, i, c)] = b[After(h, i, c)]
      BY <3>2, <3>3
    <3>5. Append(a, v)[Len(k) + 1 + i] = a[Len(k) + 1 + i]
      BY <3>1, AppendFacts DEF Line
    <3> QED BY <3>1, <3>4, <3>5 DEF Line
  <2> QED BY <2>2, <2>3
<1> HIDE DEF e
<1>4. (n + 1) - 1 = n /\ 1..0 = {}
  OBVIOUS
<1>5. Line(Append(a, v), k, e, h, n + 1, c, 0, w2)
  BY <1>1, <1>2, <1>3, <1>4 DEF Line
<1> QED BY <1>5 DEF e

\* A sender joins the end of the queue.
LEMMA QueueLine ==
  ASSUME NEW T, NEW a \in Seq(T), NEW k \in Seq(T), NEW v \in T,
         NEW c, NEW b, NEW h, NEW n \in Nat, NEW m \in Nat, NEW w, NEW w2,
         Line(a, k, b, h, n, c, m, w),
         \A i \in 1..m : w2[i] = w[i],
         w2[m + 1] = v
  PROVE  Line(Append(a, v), k, b, h, n, c, m + 1, w2)
<1>1. Len(Append(a, v)) = Len(k) + n + (m + 1)
  BY AppendFacts DEF Line
<1>2. ASSUME NEW i \in 1..(Len(k) + n + m) PROVE Append(a, v)[i] = a[i]
  BY AppendFacts DEF Line
<1>3. Len(k) \in Nat
  OBVIOUS
<1>4. ASSUME NEW i \in 1..Len(k) PROVE Append(a, v)[i] = k[i]
  BY <1>2, <1>3 DEF Line
<1>5. ASSUME NEW i \in 0..(n - 1) PROVE Append(a, v)[Len(k) + 1 + i] = b[After(h, i, c)]
  <2>1. Len(k) + 1 + i \in 1..(Len(k) + n + m)
    BY <1>3
  <2> QED BY <1>2, <2>1 DEF Line
<1>6. ASSUME NEW i \in 1..(m + 1) PROVE Append(a, v)[Len(k) + n + i] = w2[i]
  <2>1. CASE i = m + 1
    BY <1>3, <2>1, AppendFacts DEF Line
  <2>2. CASE i # m + 1
    <3>1. i \in 1..m /\ Len(k) + n + i \in 1..(Len(k) + n + m)
      BY <1>3, <2>2
    <3> QED BY <1>2, <3>1 DEF Line
  <2> QED BY <2>1, <2>2
<1> QED BY <1>1, <1>4, <1>5, <1>6 DEF Line

\* The value at the head of the ring buffer is taken.
LEMMA TakeLine ==
  ASSUME NEW T, NEW a \in Seq(T), NEW k \in Seq(T),
         NEW c \in Nat \ {0}, NEW b \in [0..(c - 1) -> T],
         NEW h \in 0..(c - 1), NEW n \in 1..c, NEW m \in Nat, NEW w,
         Line(a, k, b, h, n, c, m, w)
  PROVE  /\ b[h] \in T
         /\ Len(k) < Len(a) /\ b[h] = a[Len(k) + 1]
         /\ Line(a, Append(k, b[h]), b, After(h, 1, c), n - 1, c, m, w)
<1> DEFINE x == b[h]
           k2 == Append(k, x)
<1>1. x \in T
  OBVIOUS
<1>2. k2 \in Seq(T) /\ Len(k2) = Len(k) + 1 /\ Len(k) \in Nat
      /\ (\A i \in 1..Len(k) : k2[i] = k[i]) /\ k2[Len(k) + 1] = x
  BY <1>1, AppendFacts
<1>3. After(h, 0, c) = h
  <2>1. 0 \in 0..c
    OBVIOUS
  <2> QED BY <2>1, RingPosition
<1>4. a[Len(k) + 1] = x
  <2>1. 0 \in 0..(n - 1)
    OBVIOUS
  <2>2. a[Len(k) + 1 + 0] = b[After(h, 0, c)]
    BY <2>1 DEF Line
  <2> QED BY <1>2, <1>3, <2>2
<1> HIDE DEF x, k2
<1>5. ASSUME NEW i \in 1..Len(k2) PROVE a[i] = k2[i]
  BY <1>2, <1>4 DEF Line
<1>6. ASSUME NEW i \in 0..((n - 1) - 1)
      PROVE  a[Len(k2) + 1 + i] = b[After(After(h, 1, c), i, c)]
  <2>1. i + 1 \in 0..c /\ i + 1 > 0 /\ i + 1 \in 0..(n - 1)
    OBVIOUS
  <2>2. After(After(h, 1, c), (i + 1) - 1, c) = After(h, i + 1, c)
    BY <2>1, RingSteps
  <2>3. a[Len(k) + 1 + (i + 1)] = b[After(h, i + 1, c)]
    BY <2>1 DEF Line
  <2>4. (i + 1) - 1 = i /\ Len(k) + 1 + (i + 1) = Len(k2) + 1 + i
    BY <1>2
  <2> QED BY <2>2, <2>3, <2>4
<1>7. ASSUME NEW i \in 1..m PROVE a[Len(k2) + (n - 1) + i] = w[i]
  <2>1. Len(k2) + (n - 1) + i = Len(k) + n + i
    BY <1>2
  <2> QED BY <2>1 DEF Line
<1>8. Len(a) = Len(k2) + (n - 1) + m
  BY <1>2 DEF Line
<1>9. Line(a, k2, b, After(h, 1, c), n - 1, c, m, w)
  BY <1>5, <1>6, <1>7, <1>8 DEF Line
<1>10. Len(k) < Len(a)
  BY <1>2, <1>8
<1> QED BY <1>1, <1>4, <1>9, <1>10 DEF x, k2

\* The first queued sender moves into the slot that became free.
LEMMA RefillLine ==
  ASSUME NEW T, NEW a \in Seq(T), NEW k \in Seq(T),
         NEW c \in Nat \ {0}, NEW b \in [0..(c - 1) -> T], NEW x \in T,
         NEW h \in 0..(c - 1), NEW n \in 0..(c - 1), NEW m \in Nat, NEW w, NEW w2,
         Line(a, k, b, h, n, c, m + 1, w),
         w[1] = x,
         \A i \in 1..m : w2[i] = w[i + 1]
  PROVE  Line(a, k, [b EXCEPT ![After(h, n, c)] = x], h, n + 1, c, m, w2)
<1> DEFINE e == [b EXCEPT ![After(h, n, c)] = x]
<1>1. n \in 0..c /\ After(h, n, c) \in 0..(c - 1) /\ Len(k) \in Nat
  BY RingSteps
<1>2. ASSUME NEW i \in 0..n PROVE a[Len(k) + 1 + i] = e[After(h, i, c)]
  <2>1. CASE i = n
    <3>1. e[After(h, n, c)] = x
      BY <1>1
    <3>2. 1 \in 1..(m + 1) /\ Len(k) + n + 1 = Len(k) + 1 + n
      BY <1>1
    <3>3. a[Len(k) + n + 1] = w[1]
      BY <3>2 DEF Line
    <3> QED BY <2>1, <3>1, <3>2, <3>3
  <2>2. CASE i # n
    <3>1. i \in 0..(n - 1) /\ i \in 0..(c - 1) /\ i \in 0..c
      BY <2>2
    <3>2. After(h, i, c) # After(h, n, c) /\ After(h, i, c) \in 0..(c - 1)
      BY ZenonT(60), <2>2, <3>1, RingDistinct, RingSteps
    <3>3. e[After(h, i, c)] = b[After(h, i, c)]
      BY <3>2
    <3> QED BY <3>1, <3>3 DEF Line
  <2> QED BY <2>1, <2>2
<1>3. ASSUME NEW i \in 1..m PROVE a[Len(k) + (n + 1) + i] = w2[i]
  <2>1. i + 1 \in 1..(m + 1) /\ Len(k) + n + (i + 1) = Len(k) + (n + 1) + i
    BY <1>1
  <2>2. a[Len(k) + n + (i + 1)] = w[i + 1]
    BY <2>1 DEF Line
  <2> QED BY <2>1, <2>2
<1>4. Len(a) = Len(k) + (n + 1) + m
  BY <1>1 DEF Line
<1>5. \A i \in 1..Len(k) : a[i] = k[i]
  BY DEF Line
<1> HIDE DEF e
<1>6. (n + 1) - 1 = n
  OBVIOUS
<1>7. Line(a, k, e, h, n + 1, c, m, w2)
  BY <1>2, <1>3, <1>4, <1>5, <1>6 DEF Line
<1> QED BY <1>7 DEF e

\* Nothing is buffered: the value of the first queued sender is taken.
LEMMA SenderLine ==
  ASSUME NEW T, NEW a \in Seq(T), NEW k \in Seq(T), NEW x \in T,
         NEW b, NEW h, NEW c, NEW m \in Nat, NEW w, NEW w2,
         Line(a, k, b, h, 0, c, m + 1, w),
         w[1] = x,
         \A i \in 1..m : w2[i] = w[i + 1]
  PROVE  /\ Len(k) < Len(a) /\ x = a[Len(k) + 1]
         /\ Line(a, Append(k, x), b, h, 0, c, m, w2)
<1> DEFINE k2 == Append(k, x)
<1>1. k2 \in Seq(T) /\ Len(k2) = Len(k) + 1 /\ Len(k) \in Nat
      /\ (\A i \in 1..Len(k) : k2[i] = k[i]) /\ k2[Len(k) + 1] = x
  BY AppendFacts
<1>2. a[Len(k) + 1] = x
  <2>1. 1 \in 1..(m + 1) /\ Len(k) + 0 + 1 = Len(k) + 1
    BY <1>1
  <2> QED BY <2>1 DEF Line
<1> HIDE DEF k2
<1>3. ASSUME NEW i \in 1..m PROVE a[Len(k2) + 0 + i] = w2[i]
  <2>1. i + 1 \in 1..(m + 1) /\ Len(k) + 0 + (i + 1) = Len(k2) + 0 + i
    BY <1>1
  <2>2. a[Len(k) + 0 + (i + 1)] = w[i + 1]
    BY <2>1 DEF Line
  <2> QED BY <2>1, <2>2
<1>4. Len(a) = Len(k2) + 0 + m /\ Len(k) < Len(a)
  BY <1>1 DEF Line
<1>5. ASSUME NEW i \in 1..Len(k2) PROVE a[i] = k2[i]
  BY <1>1, <1>2 DEF Line
<1>6. 0..(0 - 1) = {}
  OBVIOUS
<1>7. Line(a, k2, b, h, 0, c, m, w2)
  BY <1>3, <1>4, <1>5, <1>6 DEF Line
<1> QED BY <1>2, <1>4, <1>7 DEF k2

(***************************************************************************)
(* The line of values of the state, and what a step does to it.            *)
(***************************************************************************)
Values == [i \in 1..Len(ch.sendq) |-> wt[ch.sendq[i]].value]

FifoLine ==
  Line(hist.accepted, hist.taken, ch.buf, ch.head, ch.len, ch.cap, Len(ch.sendq), Values)

\* A step of ChannelSpec, or none.
AbstractStep == Abstract!Next \/ UNCHANGED <<hist.accepted, hist.taken, ch.closed>>

LEMMA FifoIsLine == (Fifo <=> FifoLine) /\ (Fifo' <=> FifoLine')
  BY DEF Fifo, FifoLine, Line, Values, After

\* The types the lemmas on lines ask for.
LEMMA LineTypes ==
  ASSUME Facts
  PROVE  /\ hist.accepted \in Seq(Payload) /\ hist.taken \in Seq(Payload)
         /\ ch.cap \in Nat /\ ch.len \in 0..ch.cap /\ ch.sendq \in Seq(Thread)
         /\ Len(ch.sendq) \in Nat
         /\ ch.buf \in [0..(ch.cap - 1) -> Payload]
         /\ ch.cap # 0 => ch.head \in 0..(ch.cap - 1)
<1>1. hist.accepted \in Seq(Payload) /\ hist.taken \in Seq(Payload)
  BY DEF Facts, History
<1>2. ch.cap \in Nat /\ ch.sendq \in Seq(Thread) /\ ch.buf \in [0..(ch.cap - 1) -> Payload]
  BY ChannelAssumption DEF Facts, Record, ChanRec
<1>3. ch.len \in 0..ch.cap /\ (ch.cap # 0 => ch.head \in 0..(ch.cap - 1))
  BY <1>2 DEF Facts, RingOK
<1> QED BY <1>1, <1>2, <1>3

\* A value is handed to the first queued receiver.
LEMMA SendHandoffFifo ==
  ASSUME Inv, Fifo, NEW t \in Thread, NEW v \in Payload, SendHandoff(t, v)
  PROVE  Fifo' /\ AbstractStep
<1>0. Facts /\ FifoLine
  BY InvFacts, FifoIsLine
<1>1. /\ ch' = [ch EXCEPT !.recvq = Tail(ch.recvq)]
      /\ hist' = [hist EXCEPT !.accepted = Append(hist.accepted, v),
                              !.taken = Append(hist.taken, v)]
      /\ ch.recvq # <<>> /\ ~ch.closed
  BY DEF SendHandoff, Sendable
<1>2. ch.len = 0 /\ ch.sendq = <<>> /\ Len(ch.sendq) = 0
  BY <1>0, <1>1 DEF Facts, NoIdleWaiter
<1>3. /\ hist'.accepted = Append(hist.accepted, v) /\ hist'.taken = Append(hist.taken, v)
      /\ ch'.buf = ch.buf /\ ch'.head = ch.head /\ ch'.len = ch.len /\ ch'.cap = ch.cap
      /\ ch'.sendq = ch.sendq /\ ch'.closed = ch.closed
  BY <1>0, <1>1 DEF Facts, Record, ChanRec, History
<1>4. Line(hist.accepted, hist.taken, ch.buf, ch.head, 0, ch.cap, 0, Values)
  BY <1>0, <1>2 DEF FifoLine
<1>5. Line(Append(hist.accepted, v), Append(hist.taken, v), ch.buf, ch.head, 0, ch.cap, 0, Values')
  BY <1>0, <1>4, LineTypes, HandoffLine
<1>6. FifoLine'
  BY <1>2, <1>3, <1>5 DEF FifoLine
<1>7. Len(hist.taken) = Len(hist.accepted)
  BY <1>0, <1>4, LineTypes DEF Line
<1>8. Abstract!Handoff(v)
  BY <1>1, <1>3, <1>7 DEF Abstract!Handoff
<1> QED BY <1>6, <1>8, FifoIsLine DEF AbstractStep, Abstract!Next

\* A value goes into the ring buffer.
LEMMA SendBufferFifo ==
  ASSUME Inv, Fifo, NEW t \in Thread, NEW v \in Payload, SendBuffer(t, v)
  PROVE  Fifo' /\ AbstractStep
<1>0. Facts /\ FifoLine
  BY InvFacts, FifoIsLine
<1>1. /\ ch' = [ch EXCEPT !.buf[ch.tail] = v, !.tail = (ch.tail + 1) % ch.cap,
                          !.len = ch.len + 1]
      /\ hist' = [hist EXCEPT !.accepted = Append(hist.accepted, v)]
      /\ ch.cap > 0 /\ ch.len < ch.cap /\ ~ch.closed
  BY DEF SendBuffer, PutInBuffer, HasRoom, Sendable
<1>2. /\ ch.cap \in Nat \ {0} /\ ch.len \in 0..(ch.cap - 1) /\ ch.head \in 0..(ch.cap - 1)
      /\ ch.tail = After(ch.head, ch.len, ch.cap)
  BY <1>0, <1>1, LineTypes DEF Facts, RingOK, After
<1>3. ch.sendq = <<>> /\ Len(ch.sendq) = 0
  BY <1>0, <1>1, <1>2 DEF Facts, NoIdleWaiter
<1>4. /\ hist'.accepted = Append(hist.accepted, v) /\ hist'.taken = hist.taken
      /\ ch'.buf = [ch.buf EXCEPT ![After(ch.head, ch.len, ch.cap)] = v]
      /\ ch'.head = ch.head /\ ch'.len = ch.len + 1 /\ ch'.cap = ch.cap
      /\ ch'.sendq = ch.sendq /\ ch'.closed = ch.closed
  BY <1>0, <1>1, <1>2 DEF Facts, Record, ChanRec, History
<1>5. Line(hist.accepted, hist.taken, ch.buf, ch.head, ch.len, ch.cap, 0, Values)
  BY <1>0, <1>3 DEF FifoLine
<1>6. Line(Append(hist.accepted, v), hist.taken,
           [ch.buf EXCEPT ![After(ch.head, ch.len, ch.cap)] = v],
           ch.head, ch.len + 1, ch.cap, 0, Values')
  BY <1>0, <1>2, <1>5, LineTypes, BufferLine
<1>7. FifoLine'
  BY <1>3, <1>4, <1>6 DEF FifoLine
<1>8. Abstract!Accept(v)
  BY <1>1, <1>4 DEF Abstract!Accept
<1> QED BY <1>7, <1>8, FifoIsLine DEF AbstractStep, Abstract!Next

\* A sender queues.
LEMMA SendQueueFifo ==
  ASSUME Inv, Fifo, NEW t \in Thread, NEW v \in Payload, SendQueue(t, v)
  PROVE  Fifo' /\ AbstractStep
<1> DEFINE q == ch.sendq
           m == Len(ch.sendq)
<1>0. Facts /\ FifoLine
  BY InvFacts, FifoIsLine
<1>1. /\ ch' = [ch EXCEPT !.sendq = Append(ch.sendq, t)]
      /\ wt' = [wt EXCEPT ![t] = [op |-> "send", value |-> v, done |-> FALSE]]
      /\ hist' = [hist EXCEPT !.accepted = Append(hist.accepted, v)]
      /\ wt[t].op = "none" /\ ~ch.closed
  BY DEF SendQueue, PutInQueue, Sendable, Idle
<1>2. /\ hist'.accepted = Append(hist.accepted, v) /\ hist'.taken = hist.taken
      /\ ch'.buf = ch.buf /\ ch'.head = ch.head /\ ch'.len = ch.len /\ ch'.cap = ch.cap
      /\ ch'.sendq = Append(ch.sendq, t) /\ ch'.closed = ch.closed
  BY <1>0, <1>1 DEF Facts, Record, ChanRec, History
<1>3. /\ Len(ch'.sendq) = m + 1 /\ m \in Nat /\ q \in Seq(Thread)
      /\ \A i \in 1..m : ch'.sendq[i] = q[i]
      /\ \A i \in 1..m : q[i] \in Thread
      /\ ch'.sendq[m + 1] = t
  <2>1. q \in Seq(Thread)
    BY <1>0, LineTypes
  <2> QED BY <1>2, <2>1, AppendFacts
<1>4. \A i \in 1..m : q[i] # t
  BY <1>0, <1>1, <1>3 DEF Facts, Queues, In
<1>5. (\A i \in 1..m : Values'[i] = Values[i]) /\ Values'[m + 1] = v
  BY <1>0, <1>1, <1>3, <1>4 DEF Values, Facts
<1>6. Line(hist.accepted, hist.taken, ch.buf, ch.head, ch.len, ch.cap, m, Values)
  BY <1>0 DEF FifoLine
<1>7. ch.len \in Nat /\ hist.accepted \in Seq(Payload) /\ hist.taken \in Seq(Payload)
  BY <1>0, LineTypes
<1> HIDE DEF q, m
<1>8. Line(Append(hist.accepted, v), hist.taken, ch.buf, ch.head, ch.len, ch.cap, m + 1, Values')
  BY <1>3, <1>5, <1>6, <1>7, QueueLine
<1>9. FifoLine'
  BY <1>2, <1>3, <1>8 DEF FifoLine
<1>10. Abstract!Accept(v)
  BY <1>1, <1>2 DEF Abstract!Accept
<1> QED BY <1>9, <1>10, FifoIsLine DEF AbstractStep, Abstract!Next

\* What a step leaves alone of the line, when queued senders keep their values.
LEMMA QuietFifo ==
  ASSUME FifoLine,
         hist'.accepted = hist.accepted, hist'.taken = hist.taken,
         ch'.buf = ch.buf, ch'.head = ch.head, ch'.len = ch.len, ch'.cap = ch.cap,
         ch'.sendq = ch.sendq, ch'.closed = ch.closed \/ ch'.closed = TRUE,
         \A i \in 1..Len(ch.sendq) : wt'[ch.sendq[i]].value = wt[ch.sendq[i]].value
  PROVE  Fifo' /\ AbstractStep
<1>1. \A i \in 1..Len(ch.sendq) : Values'[i] = Values[i]
  BY DEF Values
<1>2. FifoLine'
  BY <1>1 DEF FifoLine, Line
<1>3. AbstractStep
  BY DEF AbstractStep, Abstract!Next, Abstract!Close
<1> QED BY <1>2, <1>3, FifoIsLine

\* A thread that is in no queue does not touch the values of queued senders.
LEMMA OthersKeepValues ==
  ASSUME Facts, NEW t \in Thread, ~(wt[t].op = "send" /\ ~wt[t].done),
         \A u \in Thread : u # t => wt'[u].value = wt[u].value
  PROVE  \A i \in 1..Len(ch.sendq) : wt'[ch.sendq[i]].value = wt[ch.sendq[i]].value
<1>1. ASSUME NEW i \in 1..Len(ch.sendq)
      PROVE  ch.sendq[i] \in Thread /\ ch.sendq[i] # t
  <2>1. ch.sendq \in Seq(Thread)
    BY LineTypes
  <2>2. ch.sendq[i] \in Thread
    BY <2>1
  <2>3. In(ch.sendq, ch.sendq[i])
    BY DEF In
  <2> QED BY <2>2, <2>3 DEF Facts, Queues
<1> QED BY <1>1

\* A receiver takes from the ring buffer, nobody waits to send.
LEMMA RecvBufferAloneFifo ==
  ASSUME Inv, Fifo, NEW t \in Thread, RecvBuffer(t), ch.sendq = <<>>
  PROVE  Fifo' /\ AbstractStep
<1> DEFINE x == ch.buf[ch.head]
<1>0. Facts /\ FifoLine
  BY InvFacts, FifoIsLine
<1>1. /\ ch.len > 0
      /\ ch' = [ch EXCEPT !.head = (ch.head + 1) % ch.cap, !.len = ch.len - 1]
      /\ hist' = [hist EXCEPT !.taken = Append(hist.taken, x), !.returned = Returns(x)]
  BY DEF RecvBuffer
<1>2. /\ ch.cap \in Nat \ {0} /\ ch.len \in 1..ch.cap /\ ch.head \in 0..(ch.cap - 1)
  BY <1>0, <1>1, LineTypes
<1>3. /\ hist'.accepted = hist.accepted /\ hist'.taken = Append(hist.taken, x)
      /\ ch'.buf = ch.buf /\ ch'.head = After(ch.head, 1, ch.cap) /\ ch'.len = ch.len - 1
      /\ ch'.cap = ch.cap /\ ch'.sendq = ch.sendq /\ ch'.closed = ch.closed
  BY <1>0, <1>1 DEF Facts, Record, ChanRec, History, After
<1>4. Line(hist.accepted, hist.taken, ch.buf, ch.head, ch.len, ch.cap, 0, Values)
  BY <1>0 DEF FifoLine
<1>5. /\ Len(hist.taken) < Len(hist.accepted) /\ x = hist.accepted[Len(hist.taken) + 1]
      /\ Line(hist.accepted, Append(hist.taken, x), ch.buf, After(ch.head, 1, ch.cap),
              ch.len - 1, ch.cap, 0, Values)
  <2> DEFINE a == hist.accepted
             k == hist.taken
             b == ch.buf
             h == ch.head
             n == ch.len
             c == ch.cap
             m == 0
             w == Values
  <2>1. /\ a \in Seq(Payload) /\ k \in Seq(Payload) /\ c \in Nat \ {0} /\ b \in [0..(c - 1) -> Payload]
        /\ h \in 0..(c - 1) /\ n \in 1..c /\ m \in Nat
        /\ Line(a, k, b, h, n, c, m, w)
    BY <1>0, <1>2, <1>4, LineTypes
  <2> HIDE DEF a, k, b, h, n, c, m, w
  <2>2. /\ Len(k) < Len(a) /\ b[h] = a[Len(k) + 1]
        /\ Line(a, Append(k, b[h]), b, After(h, 1, c), n - 1, c, m, w)
    BY <2>1, TakeLine
  <2> QED BY <2>2 DEF a, k, b, h, n, c, m, w
<1>6. FifoLine'
  <2>1. Len(ch'.sendq) = 0 /\ 1..0 = {}
    BY <1>3
  <2>2. Line(hist'.accepted, hist'.taken, ch'.buf, ch'.head, ch'.len, ch'.cap, 0, Values)
    BY <1>3, <1>5
  <2>3. Line(hist'.accepted, hist'.taken, ch'.buf, ch'.head, ch'.len, ch'.cap, 0, Values')
    BY <2>1, <2>2 DEF Line
  <2> QED BY <2>1, <2>3 DEF FifoLine
<1>7. Abstract!Take
  BY <1>3, <1>5 DEF Abstract!Take
<1> QED BY <1>6, <1>7, FifoIsLine DEF AbstractStep, Abstract!Next

\* What is left of the queue of senders when its head is served by t.
LEMMA ServedQueue ==
  ASSUME Facts, ch.sendq # <<>>, NEW t \in Thread, Free(t),
         ch'.sendq = Tail(ch.sendq),
         wt' = [wt EXCEPT ![Head(ch.sendq)].done = TRUE, ![t] = NoWaiter]
  PROVE  /\ Len(ch'.sendq) \in Nat /\ Len(ch.sendq) = Len(ch'.sendq) + 1
         /\ wt[Head(ch.sendq)].value \in Payload
         /\ Values[1] = wt[Head(ch.sendq)].value
         /\ \A i \in 1..Len(ch'.sendq) : Values'[i] = Values[i + 1]
<1> DEFINE q == ch.sendq
<1>1. q \in Seq(Thread)
  BY LineTypes
<1>2. /\ Len(Tail(q)) \in Nat /\ Len(q) = Len(Tail(q)) + 1 /\ Head(q) = q[1] /\ Head(q) \in Thread
      /\ \A i \in 1..Len(Tail(q)) : Tail(q)[i] = q[i + 1]
  BY <1>1
<1>3. \A i \in 1..Len(q) : q[i] \in Thread /\ q[i] # t
  <2>1. ASSUME NEW i \in 1..Len(q) PROVE q[i] \in Thread /\ q[i] # t
    <3>1. q[i] \in Thread
      BY <1>1
    <3>2. In(q, q[i])
      BY DEF In
    <3> QED BY <3>1, <3>2 DEF Facts, Queues, Free
  <2> QED BY <2>1
<1>4. \A u \in Thread : u # t => wt'[u].value = wt[u].value
  BY <1>2 DEF Facts, ChanWaiter
<1>5. ASSUME NEW i \in 1..Len(Tail(q)) PROVE Values'[i] = Values[i + 1]
  <2>1. i + 1 \in 1..Len(q)
    BY <1>2
  <2>2. Values'[i] = wt'[Tail(q)[i]].value /\ Values[i + 1] = wt[q[i + 1]].value
    BY <2>1 DEF Values
  <2> QED BY <1>2, <1>3, <1>4, <2>1, <2>2
<1>6. Values[1] = wt[Head(q)].value /\ wt[Head(q)].value \in Payload
  BY <1>2 DEF Values, Facts, ChanWaiter
<1> QED BY <1>2, <1>5, <1>6

\* A receiver takes from the full ring buffer and a queued sender fills the slot.
LEMMA RecvBufferRefillFifo ==
  ASSUME Inv, Fifo, NEW t \in Thread, Free(t), RecvBuffer(t), ch.sendq # <<>>
  PROVE  Fifo' /\ AbstractStep
<1> DEFINE x == ch.buf[ch.head]
           y == wt[Head(ch.sendq)].value
           g == After(ch.head, 1, ch.cap)
<1>0. Facts /\ FifoLine
  BY InvFacts, FifoIsLine
<1>1. /\ ch.len > 0
      /\ ch' = [ch EXCEPT !.head = (ch.head + 1) % ch.cap, !.buf[ch.tail] = y,
                          !.tail = (ch.tail + 1) % ch.cap, !.sendq = Tail(ch.sendq)]
      /\ wt' = [wt EXCEPT ![Head(ch.sendq)].done = TRUE, ![t] = NoWaiter]
      /\ hist' = [hist EXCEPT !.taken = Append(hist.taken, x), !.returned = Returns(x)]
  BY DEF RecvBuffer
<1>2. /\ ch.len = ch.cap /\ ch.cap \in Nat \ {0} /\ ch.head \in 0..(ch.cap - 1)
      /\ ch.len \in 1..ch.cap /\ ch.tail = After(ch.head, ch.cap, ch.cap)
  BY <1>0, <1>1, LineTypes DEF Facts, NoIdleWaiter, RingOK, After
<1>3. /\ ch.tail = ch.head /\ g \in 0..(ch.cap - 1)
      /\ After(g, ch.cap - 1, ch.cap) = ch.head
  <2>1. 1 \in 0..ch.cap /\ ch.cap \in 0..ch.cap /\ ch.cap > 0
    BY <1>2
  <2> QED BY <1>2, <2>1, RingSteps
<1>4. /\ hist'.accepted = hist.accepted /\ hist'.taken = Append(hist.taken, x)
      /\ ch'.buf = [ch.buf EXCEPT ![ch.head] = y] /\ ch'.head = g /\ ch'.len = ch.cap
      /\ ch'.cap = ch.cap /\ ch'.sendq = Tail(ch.sendq) /\ ch'.closed = ch.closed
  BY <1>0, <1>1, <1>2, <1>3 DEF Facts, Record, ChanRec, History, After
<1>5. /\ Len(ch'.sendq) \in Nat /\ Len(ch.sendq) = Len(ch'.sendq) + 1
      /\ y \in Payload /\ Values[1] = y
      /\ \A i \in 1..Len(ch'.sendq) : Values'[i] = Values[i + 1]
  BY <1>0, <1>1, <1>4, ServedQueue
<1>6. Line(hist.accepted, hist.taken, ch.buf, ch.head, ch.len, ch.cap, Len(ch.sendq), Values)
  BY <1>0 DEF FifoLine
<1>7. /\ hist.accepted \in Seq(Payload) /\ hist.taken \in Seq(Payload)
      /\ ch.buf \in [0..(ch.cap - 1) -> Payload] /\ Len(ch.sendq) \in Nat
  BY <1>0, LineTypes
<1>8. /\ Len(hist.taken) < Len(hist.accepted) /\ x = hist.accepted[Len(hist.taken) + 1]
      /\ x \in Payload
      /\ Line(hist.accepted, Append(hist.taken, x), ch.buf, g, ch.len - 1, ch.cap,
              Len(ch.sendq), Values)
  <2> DEFINE a == hist.accepted
             k == hist.taken
             b == ch.buf
             h == ch.head
             n == ch.len
             c == ch.cap
             m == Len(ch.sendq)
             w == Values
  <2>1. /\ a \in Seq(Payload) /\ k \in Seq(Payload) /\ c \in Nat \ {0} /\ b \in [0..(c - 1) -> Payload]
        /\ h \in 0..(c - 1) /\ n \in 1..c /\ m \in Nat
        /\ Line(a, k, b, h, n, c, m, w)
    BY <1>2, <1>6, <1>7
  <2> HIDE DEF a, k, b, h, n, c, m, w
  <2>2. /\ Len(k) < Len(a) /\ b[h] = a[Len(k) + 1] /\ b[h] \in Payload
        /\ Line(a, Append(k, b[h]), b, After(h, 1, c), n - 1, c, m, w)
    BY <2>1, TakeLine
  <2> QED BY <2>2 DEF a, k, b, h, n, c, m, w
<1> HIDE DEF x, y, g
<1>9. Line(hist.accepted, Append(hist.taken, x), [ch.buf EXCEPT ![ch.head] = y], g,
           ch.cap, ch.cap, Len(ch'.sendq), Values')
  <2> DEFINE n == ch.cap - 1
             k == Append(hist.taken, x)
             m == Len(ch'.sendq)
  <2>1. n \in 0..(ch.cap - 1) /\ n + 1 = ch.cap /\ ch.len - 1 = n
    BY <1>2
  <2>2. k \in Seq(Payload)
    BY <1>7, <1>8, AppendFacts
  <2>3. Line(hist.accepted, k, ch.buf, g, n, ch.cap, m + 1, Values)
    BY <1>5, <1>8, <2>1
  <2>4. m \in Nat /\ (\A i \in 1..m : Values'[i] = Values[i + 1]) /\ After(g, n, ch.cap) = ch.head
    BY <1>3, <1>5
  <2> HIDE DEF n, k, m
  <2>5. Line(hist.accepted, k, [ch.buf EXCEPT ![After(g, n, ch.cap)] = y], g, n + 1, ch.cap,
             m, Values')
    BY ZenonT(60), <1>2, <1>3, <1>5, <1>7, <2>1, <2>2, <2>3, <2>4, RefillLine
  <2> QED BY <2>1, <2>4, <2>5 DEF k, m
<1>10. FifoLine'
  BY <1>4, <1>9 DEF FifoLine
<1>11. Abstract!Take
  BY <1>4, <1>8 DEF Abstract!Take
<1> QED BY <1>10, <1>11, FifoIsLine DEF AbstractStep, Abstract!Next

\* A receiver takes the value of the first queued sender.
LEMMA RecvSenderFifo ==
  ASSUME Inv, Fifo, NEW t \in Thread, Free(t), RecvSender(t)
  PROVE  Fifo' /\ AbstractStep
<1> DEFINE y == wt[Head(ch.sendq)].value
<1>0. Facts /\ FifoLine
  BY InvFacts, FifoIsLine
<1>1. /\ ch.len = 0 /\ ch.sendq # <<>>
      /\ ch' = [ch EXCEPT !.sendq = Tail(ch.sendq)]
      /\ wt' = [wt EXCEPT ![Head(ch.sendq)].done = TRUE, ![t] = NoWaiter]
      /\ hist' = [hist EXCEPT !.taken = Append(hist.taken, y), !.returned = Returns(y)]
  BY DEF RecvSender
<1>2. /\ hist'.accepted = hist.accepted /\ hist'.taken = Append(hist.taken, y)
      /\ ch'.buf = ch.buf /\ ch'.head = ch.head /\ ch'.len = 0
      /\ ch'.cap = ch.cap /\ ch'.sendq = Tail(ch.sendq) /\ ch'.closed = ch.closed
  BY <1>0, <1>1 DEF Facts, Record, ChanRec, History
<1>3. /\ Len(ch'.sendq) \in Nat /\ Len(ch.sendq) = Len(ch'.sendq) + 1
      /\ y \in Payload /\ Values[1] = y
      /\ \A i \in 1..Len(ch'.sendq) : Values'[i] = Values[i + 1]
  BY <1>0, <1>1, <1>2, ServedQueue
<1>4. Line(hist.accepted, hist.taken, ch.buf, ch.head, 0, ch.cap, Len(ch'.sendq) + 1, Values)
  BY <1>0, <1>1, <1>3 DEF FifoLine
<1>5. hist.accepted \in Seq(Payload) /\ hist.taken \in Seq(Payload)
  BY <1>0, LineTypes
<1> HIDE DEF y
<1>6. /\ Len(hist.taken) < Len(hist.accepted) /\ y = hist.accepted[Len(hist.taken) + 1]
      /\ Line(hist.accepted, Append(hist.taken, y), ch.buf, ch.head, 0, ch.cap,
              Len(ch'.sendq), Values')
  <2> DEFINE a == hist.accepted
             k == hist.taken
             m == Len(ch'.sendq)
             w == Values
             w2 == Values'
  <2>1. /\ a \in Seq(Payload) /\ k \in Seq(Payload) /\ y \in Payload /\ m \in Nat
        /\ Line(a, k, ch.buf, ch.head, 0, ch.cap, m + 1, w)
        /\ w[1] = y /\ \A i \in 1..m : w2[i] = w[i + 1]
    BY <1>3, <1>4, <1>5
  <2> HIDE DEF a, k, m, w, w2
  <2>2. /\ Len(k) < Len(a) /\ y = a[Len(k) + 1]
        /\ Line(a, Append(k, y), ch.buf, ch.head, 0, ch.cap, m, w2)
    BY <2>1, SenderLine
  <2> QED BY <2>2 DEF a, k, m, w, w2
<1>7. FifoLine'
  BY <1>2, <1>6 DEF FifoLine
<1>8. Abstract!Take
  BY <1>2, <1>6 DEF Abstract!Take
<1> QED BY <1>7, <1>8, FifoIsLine DEF AbstractStep, Abstract!Next

\* The loop of chan_recv_impl.
LEMMA RecvLoopFifo ==
  ASSUME Inv, Fifo, NEW t \in Thread, Free(t), RecvLoop(t)
  PROVE  Fifo' /\ AbstractStep
<1>0. Facts /\ FifoLine
  BY InvFacts, FifoIsLine
<1>1. CASE RecvBuffer(t)
  BY <1>1, RecvBufferAloneFifo, RecvBufferRefillFifo
<1>2. CASE RecvSender(t)
  BY <1>2, RecvSenderFifo
<1>3. CASE RecvClosed(t) \/ RecvQueue(t)
  <2>1. /\ hist' = hist
        /\ ch'.buf = ch.buf /\ ch'.head = ch.head /\ ch'.len = ch.len /\ ch'.cap = ch.cap
        /\ ch'.sendq = ch.sendq /\ ch'.closed = ch.closed
    BY <1>0, <1>3 DEF RecvClosed, RecvQueue, Facts, Record, ChanRec
  <2>2. \A u \in Thread : u # t => wt'[u].value = wt[u].value
    BY <1>0, <1>3 DEF RecvClosed, RecvQueue, Facts
  <2>3. ~(wt[t].op = "send" /\ ~wt[t].done)
    BY DEF Free
  <2>4. \A i \in 1..Len(ch.sendq) : wt'[ch.sendq[i]].value = wt[ch.sendq[i]].value
    BY <1>0, <2>2, <2>3, OthersKeepValues
  <2> QED BY <1>0, <2>1, <2>4, QuietFifo
<1> QED BY <1>1, <1>2, <1>3 DEF RecvLoop

\* A woken thread runs.
LEMMA WakeFifo ==
  ASSUME Inv, Fifo, NEW t \in Thread, Wake(t)
  PROVE  Fifo' /\ AbstractStep
<1>0. Facts /\ FifoLine
  BY InvFacts, FifoIsLine
<1>1. CASE SendWake(t) \/ RecvWake(t)
  <2>1. /\ ch' = ch /\ wt[t].done
        /\ wt' = [wt EXCEPT ![t] = NoWaiter]
        /\ hist' = hist \/ hist' = [hist EXCEPT !.returned = Returns(wt[t].value)]
    BY <1>1 DEF SendWake, RecvWake, Woken
  <2>2. hist'.accepted = hist.accepted /\ hist'.taken = hist.taken
    BY <1>0, <2>1 DEF Facts, History
  <2>3. \A u \in Thread : u # t => wt'[u].value = wt[u].value
    BY <1>0, <2>1 DEF Facts
  <2>4. \A i \in 1..Len(ch.sendq) : wt'[ch.sendq[i]].value = wt[ch.sendq[i]].value
    BY <1>0, <2>1, <2>3, OthersKeepValues
  <2> QED BY <1>0, <2>1, <2>2, <2>4, QuietFifo
<1>2. CASE RecvWakeNull(t)
  BY <1>2, RecvLoopFifo DEF RecvWakeNull, Woken, Free
<1> QED BY <1>1, <1>2 DEF Wake

\* The channel is closed.
LEMMA CloseFifo ==
  ASSUME Inv, Fifo, NEW t \in Thread, Close(t)
  PROVE  Fifo' /\ AbstractStep
<1>0. Facts /\ FifoLine
  BY InvFacts, FifoIsLine
<1>1. /\ ch' = [ch EXCEPT !.closed = TRUE, !.recvq = <<>>]
      /\ wt' = [u \in Thread |->
                  IF In(ch.recvq, u) THEN [wt[u] EXCEPT !.done = TRUE] ELSE wt[u]]
      /\ hist' = hist
  BY DEF Close, In
<1>2. /\ ch'.buf = ch.buf /\ ch'.head = ch.head /\ ch'.len = ch.len /\ ch'.cap = ch.cap
      /\ ch'.sendq = ch.sendq /\ ch'.closed = TRUE
  BY <1>0, <1>1 DEF Facts, Record, ChanRec
<1>3. \A u \in Thread : wt'[u].value = wt[u].value
  BY <1>0, <1>1 DEF Facts, ChanWaiter
<1>4. \A i \in 1..Len(ch.sendq) : ch.sendq[i] \in Thread
  <2>1. ch.sendq \in Seq(Thread)
    BY <1>0, LineTypes
  <2> QED BY <2>1
<1> QED BY <1>0, <1>1, <1>2, <1>3, <1>4, QuietFifo

\* Every step of the specification keeps the order and is a step of ChannelSpec
\* or none.
LEMMA FifoNext ==
  ASSUME Inv, Fifo, [Next]_vars
  PROVE  Fifo' /\ AbstractStep
<1>0. FifoLine
  BY FifoIsLine
<1>1. CASE UNCHANGED vars
  BY <1>0, <1>1, QuietFifo DEF vars
<1>2. ASSUME NEW t \in Sender, SendRefused(t) \/ \E v \in Payload : Send(t, v)
      PROVE  Fifo' /\ AbstractStep
  <2>1. t \in Thread
    BY DEF Thread
  <2> QED BY <1>1, <1>2, <2>1, SendHandoffFifo, SendBufferFifo, SendQueueFifo
          DEF SendRefused, Send
<1>3. ASSUME NEW t \in Receiver, Recv(t) \/ TryRecv(t)
      PROVE  Fifo' /\ AbstractStep
  <2>1. t \in Thread
    BY DEF Thread
  <2>2. CASE Recv(t)
    BY <2>1, <2>2, RecvLoopFifo DEF Recv, Idle, Free
  <2>3. CASE TryRecv(t)
    BY <1>1, <2>1, <2>3, RecvLoopFifo DEF TryRecv, RecvLoop, Idle, Free
  <2> QED BY <1>3, <2>2, <2>3
<1>4. ASSUME NEW t \in Thread, Wake(t) \/ Close(t)
      PROVE  Fifo' /\ AbstractStep
  BY <1>4, WakeFifo, CloseFifo
<1> QED BY <1>1, <1>2, <1>3, <1>4 DEF Next

\* A new channel: nothing was accepted, nothing is on its way.
LEMMA FifoInit == Init => Fifo /\ Abstract!Init
<1> SUFFICES ASSUME Init PROVE Fifo /\ Abstract!Init
  OBVIOUS
<1>1. /\ hist.accepted = <<>> /\ hist.taken = <<>> /\ ch.len = 0 /\ ch.sendq = <<>>
      /\ ch.closed = FALSE
  BY DEF Init
<1>2. Len(hist.accepted) = 0 /\ Len(hist.taken) = 0 /\ Len(ch.sendq) = 0
      /\ 1..0 = {} /\ 0..(0 - 1) = {}
  BY <1>1
<1>3. Fifo
  BY <1>1, <1>2 DEF Fifo
<1> QED BY <1>1, <1>3 DEF Abstract!Init

\* Nothing is lost, duplicated or reordered between a send and a receive, at any
\* capacity and with any number of threads.
THEOREM DeliversInOrder == Spec => []Fifo
<1>1. Init => Fifo
  BY FifoInit
<1>2. Inv /\ Fifo /\ [Next]_vars => Fifo'
  BY FifoNext
<1> QED BY <1>1, <1>2, Structure, PTL DEF Spec

\* The channel of hphp_thr.c implements the FIFO channel of ChannelSpec.
THEOREM ImplementsFifoChannel == Spec => Implements
<1>1. Init => Abstract!Init
  BY FifoInit
<1>2. Inv /\ Fifo /\ [Next]_vars => [Abstract!Next]_(Abstract!vars)
  BY FifoNext DEF AbstractStep, Abstract!vars
<1> QED BY <1>1, <1>2, Structure, DeliversInOrder, PTL DEF Spec, Implements, Abstract!Spec

(***************************************************************************)
(* Back pressure.                                                          *)
(***************************************************************************)
Blocked == {t \in Thread : wt[t].op = "send"}

\* The queue of senders is no longer than the set of threads blocked in a send.
LEMMA QueuedAreBlocked ==
  ASSUME Facts
  PROVE  Cardinality(Blocked) \in Nat /\ Len(ch.sendq) <= Cardinality(Blocked)
<1> DEFINE q == ch.sendq
           m == Len(ch.sendq)
           f == [i \in 1..m |-> q[i]]
<1>1. IsFiniteSet(Thread)
  BY ChannelAssumption, FS_Union DEF Thread
<1>2. Blocked \in SUBSET Thread
  BY DEF Blocked
<1>3. IsFiniteSet(Blocked) /\ Cardinality(Blocked) \in Nat
  BY <1>1, <1>2, FS_Subset, FS_CardinalityType
<1>4. q \in Seq(Thread) /\ m \in Nat
  BY LineTypes
<1>5. ASSUME NEW i \in 1..m PROVE q[i] \in Blocked
  <2>1. q[i] \in Thread /\ In(q, q[i])
    BY <1>4 DEF In
  <2> QED BY <2>1 DEF Facts, Queues, Blocked
<1>6. \A i, j \in 1..m : q[i] = q[j] => i = j
  BY DEF Facts, Queues, Distinct
<1>7. f \in Injection(1..m, Blocked)
  BY <1>5, <1>6 DEF Injection, IsInjective
<1>8. Cardinality(1..m) <= Cardinality(Blocked)
  BY <1>3, <1>7, FS_Injection
<1>9. Cardinality(1..m) = m
  BY <1>4, FS_Interval
<1> QED BY <1>3, <1>8, <1>9

\* The sends that have returned never outnumber the values taken by more than
\* the capacity: at capacity 0 a send returns only after its value was taken.
THEOREM PressesBack == Spec => []Backpressure
<1>1. Inv /\ Fifo => Backpressure
  <2> SUFFICES ASSUME Inv, Fifo PROVE Backpressure
    OBVIOUS
  <2>1. Facts
    BY InvFacts
  <2>2. /\ Len(hist.accepted) = Len(hist.taken) + ch.len + Len(ch.sendq)
        /\ Len(hist.taken) \in Nat /\ ch.cap \in Nat /\ ch.len \in 0..ch.cap
        /\ Len(ch.sendq) \in Nat
    BY <2>1, LineTypes DEF Fifo
  <2>3. Cardinality(Blocked) \in Nat /\ Len(ch.sendq) <= Cardinality(Blocked)
    BY <2>1, QueuedAreBlocked
  <2>4. Len(hist.accepted) - Cardinality(Blocked) <= Len(hist.taken) + ch.cap
    BY <2>2, <2>3
  <2> QED BY <2>4 DEF Backpressure, Blocked
<1> QED BY <1>1, Structure, DeliversInOrder, PTL

(***************************************************************************)
(* Every value that is taken for a receiver is returned to one.            *)
(***************************************************************************)
\* The receivers that were handed v and have not run yet.
Bearers(v) == {t \in Thread : Woken(t, "recv") /\ wt[t].value = v}

\* A receiver that sleeps in its queue has a waiter without a value, so that
\* the wake-up of chan_close carries none.
WaitersEmpty == \A t \in Thread : wt[t].op = "recv" /\ ~wt[t].done => wt[t].value = Null

ReturnInv == Inv /\ WaitersEmpty /\ ReturnedOnce

\* The positions of v in a sequence.
Places(s, v) == {i \in 1..Len(s) : s[i] = v}

\* 1 when v is the value in question.
One(x, v) == IF x = v THEN 1 ELSE 0

\* The two counts of ReturnedOnce, before and after a step.
LEMMA Counts ==
  ASSUME NEW v
  PROVE  /\ Taken(v) = Cardinality(Places(hist.taken, v))
         /\ Taken(v)' = Cardinality(Places(hist'.taken, v))
         /\ Carrying(v) = Cardinality(Bearers(v))
         /\ Carrying(v)' = Cardinality(Bearers(v)')
         /\ Carrying(v)' = Cardinality(Bearers(v))'
BY DEF Taken, Carrying, Places, Bearers

\* Appending to a sequence counts one more of what is appended.
LEMMA CountAppend ==
  ASSUME NEW T, NEW s \in Seq(T), NEW x \in T, NEW v
  PROVE  /\ Cardinality(Places(s, v)) \in Nat
         /\ Cardinality(Places(Append(s, x), v)) = Cardinality(Places(s, v)) + One(x, v)
<1> DEFINE n == Len(s)
           r == Append(s, x)
<1>1. n \in Nat /\ Len(r) = n + 1 /\ r[n + 1] = x /\ \A i \in 1..n : r[i] = s[i]
  BY AppendFacts
<1>2. IsFiniteSet(Places(s, v)) /\ Cardinality(Places(s, v)) \in Nat
  <2>1. IsFiniteSet(1..n)
    <3>1. n \in Int /\ 1 \in Int
      BY <1>1
    <3> HIDE DEF n, r
    <3> QED BY <3>1, FS_Interval
  <2>2. Places(s, v) \in SUBSET (1..n)
    BY DEF Places
  <2> QED BY <2>1, <2>2, FS_Subset, FS_CardinalityType
<1>3. n + 1 \notin Places(s, v)
  BY <1>1 DEF Places
<1> HIDE DEF r
<1>4. x = v => Places(r, v) = Places(s, v) \cup {n + 1}
  BY <1>1 DEF Places
<1>5. x # v => Places(r, v) = Places(s, v)
  BY <1>1 DEF Places
<1>6. Cardinality(Places(s, v) \cup {n + 1}) = Cardinality(Places(s, v)) + 1
  BY <1>2, <1>3, FS_AddElement
<1>7. CASE x = v
  BY <1>2, <1>4, <1>6, <1>7 DEF One, r
<1>8. CASE x # v
  BY <1>2, <1>5, <1>8 DEF One, r
<1> QED BY <1>7, <1>8

\* The set of threads is finite, so what is counted is a number.
LEMMA BearersFinite == \A v : IsFiniteSet(Bearers(v)) /\ Cardinality(Bearers(v)) \in Nat
<1> SUFFICES ASSUME NEW v PROVE IsFiniteSet(Bearers(v)) /\ Cardinality(Bearers(v)) \in Nat
  OBVIOUS
<1>1. IsFiniteSet(Thread) /\ Bearers(v) \in SUBSET Thread
  BY ChannelAssumption, FS_Union DEF Thread, Bearers
<1> QED BY <1>1, FS_Subset, FS_CardinalityType

\* A step that takes and returns nothing and wakes nobody with a value.
LEMMA QuietReturn ==
  ASSUME ReturnedOnce, hist'.taken = hist.taken, hist'.returned = hist.returned,
         \A v \in Value : Bearers(v)' = Bearers(v)
  PROVE  ReturnedOnce'
<1> SUFFICES ASSUME NEW v \in Value PROVE Taken(v)' = hist'.returned[v] + Carrying(v)'
  BY DEF ReturnedOnce
<1>1. Taken(v)' = Taken(v) /\ Carrying(v)' = Carrying(v)
  BY Counts
<1> QED BY <1>1 DEF ReturnedOnce

\* A step that takes a value and returns it to its own caller at once.
LEMMA TakeReturn ==
  ASSUME Facts, ReturnedOnce, NEW x \in Payload,
         hist'.taken = Append(hist.taken, x), hist'.returned = Returns(x),
         \A v \in Value : Bearers(v)' = Bearers(v)
  PROVE  ReturnedOnce'
<1> SUFFICES ASSUME NEW v \in Value PROVE Taken(v)' = hist'.returned[v] + Carrying(v)'
  BY DEF ReturnedOnce
<1>1. hist.taken \in Seq(Payload) /\ hist.returned \in [Payload -> Nat] /\ v \in Payload
  BY DEF Facts, History, Payload
<1>2. Taken(v) \in Nat /\ Taken(v)' = Taken(v) + One(x, v)
  BY <1>1, CountAppend, Counts
<1>3. hist'.returned[v] = hist.returned[v] + One(x, v)
  BY <1>1 DEF Returns, One
<1>4. Carrying(v)' = Carrying(v) /\ Carrying(v) \in Nat
  BY BearersFinite, Counts
<1>5. Taken(v) = hist.returned[v] + Carrying(v) /\ hist.returned[v] \in Nat
  BY <1>1 DEF ReturnedOnce
<1>6. One(x, v) \in Nat
  BY DEF One
<1> QED BY <1>2, <1>3, <1>4, <1>5, <1>6

\* A handoff: the first queued receiver now bears the value.
LEMMA SendHandoffReturn ==
  ASSUME ReturnInv, NEW t \in Thread, NEW x \in Payload, SendHandoff(t, x)
  PROVE  ReturnedOnce' /\ WaitersEmpty'
<1> DEFINE r == Head(ch.recvq)
<1>0. Facts
  BY InvFacts DEF ReturnInv
<1>1. r \in Thread /\ In(ch.recvq, r)
  BY <1>0, PopQueue DEF Facts, Record, ChanRec, Queues, SendHandoff
<1>2. /\ wt' = [wt EXCEPT ![r] = [op |-> "recv", value |-> x, done |-> TRUE]]
      /\ hist' = [hist EXCEPT !.accepted = Append(@, x), !.taken = Append(@, x)]
  BY DEF SendHandoff
<1>3. wt[r].op = "recv" /\ ~wt[r].done
  BY <1>0, <1>1 DEF Facts, Queues
<1> HIDE DEF r
<1>4. /\ wt'[r].op = "recv" /\ wt'[r].done /\ wt'[r].value = x
      /\ \A u \in Thread \ {r} : wt'[u] = wt[u]
  BY <1>0, <1>1, <1>2 DEF Facts
<1>5. hist.taken \in Seq(Payload) /\ hist'.taken = Append(hist.taken, x)
      /\ hist'.returned = hist.returned /\ hist.returned \in [Payload -> Nat]
  BY <1>0, <1>2 DEF Facts, History
<1>6. WaitersEmpty'
  BY <1>1, <1>4 DEF ReturnInv, WaitersEmpty
<1>7. ASSUME NEW v \in Value PROVE Taken(v)' = hist'.returned[v] + Carrying(v)'
  <2>1. Taken(v) \in Nat /\ Taken(v)' = Taken(v) + One(x, v)
    BY <1>5, CountAppend, Counts
  <2>2. r \notin Bearers(v)
    BY <1>3 DEF Bearers, Woken
  <2>3. x = v => Bearers(v)' = Bearers(v) \cup {r}
    BY <1>1, <1>4 DEF Bearers, Woken
  <2>4. x # v => Bearers(v)' = Bearers(v)
    BY <1>1, <1>3, <1>4 DEF Bearers, Woken
  <2>5. IsFiniteSet(Bearers(v)) /\ Cardinality(Bearers(v)) \in Nat
    BY BearersFinite
  <2>6. Carrying(v)' = Carrying(v) + One(x, v)
    <3>1. Cardinality(Bearers(v) \cup {r}) = Cardinality(Bearers(v)) + 1
      BY <2>2, <2>5, FS_AddElement
    <3>2. CASE x = v
      BY <2>3, <3>1, <3>2, Counts DEF One
    <3>3. CASE x # v
      BY <2>4, <2>5, <3>3, Counts DEF One
    <3> QED BY <3>2, <3>3
  <2>7. Taken(v) = hist.returned[v] + Carrying(v) /\ hist.returned[v] \in Nat
    BY <1>5 DEF ReturnInv, ReturnedOnce, Payload
  <2>8. Carrying(v) \in Nat /\ One(x, v) \in Nat
    BY <2>5, Counts DEF One
  <2> QED BY <1>5, <2>1, <2>6, <2>7, <2>8
<1> QED BY <1>6, <1>7 DEF ReturnedOnce

\* Nobody starts or stops bearing a value when waiters change that bear none,
\* to waiters that bear none.
LEMMA SameBearers ==
  ASSUME \A u \in Thread : \/ wt'[u] = wt[u]
                           \/ /\ ~(wt[u].op = "recv" /\ wt[u].done /\ wt[u].value \in Value)
                              /\ ~(wt'[u].op = "recv" /\ wt'[u].done /\ wt'[u].value \in Value)
  PROVE  \A v \in Value : Bearers(v)' = Bearers(v)
BY DEF Bearers, Woken

\* A send that no receiver waits for.
LEMMA SendReturn ==
  ASSUME ReturnInv, NEW t \in Thread, NEW x \in Payload, SendBuffer(t, x) \/ SendQueue(t, x)
  PROVE  ReturnedOnce' /\ WaitersEmpty'
<1>0. Facts
  BY InvFacts DEF ReturnInv
<1>1. hist' = [hist EXCEPT !.accepted = Append(@, x)] /\ wt[t].op = "none"
  BY DEF SendBuffer, SendQueue, PutInBuffer, PutInQueue, Sendable, Idle
<1>2. hist'.taken = hist.taken /\ hist'.returned = hist.returned
  BY <1>0, <1>1 DEF Facts, History
<1>3. /\ \A u \in Thread \ {t} : wt'[u] = wt[u]
      /\ wt'[t].op \in {"none", "send"}
  BY <1>0, <1>1 DEF Facts, SendBuffer, SendQueue, PutInBuffer, PutInQueue
<1>4. \A v \in Value : Bearers(v)' = Bearers(v)
  BY <1>1, <1>3, SameBearers
<1>5. WaitersEmpty'
  BY <1>3 DEF ReturnInv, WaitersEmpty
<1> QED BY <1>2, <1>4, <1>5, QuietReturn DEF ReturnInv

\* A thread in the loop of chan_recv_impl carries no value of its own.
Unburdened(t) == Free(t) /\ ~(Woken(t, "recv") /\ wt[t].value \in Value)

\* Once around the loop: what is taken is returned there and then; the sender
\* that is served, or moves up, is no receiver.
LEMMA RecvLoopReturn ==
  ASSUME ReturnInv, NEW t \in Thread, Unburdened(t), RecvLoop(t)
  PROVE  ReturnedOnce' /\ WaitersEmpty'
<1> DEFINE s == Head(ch.sendq)
<1>0. Facts
  BY InvFacts DEF ReturnInv
<1>1. hist.taken \in Seq(Payload) /\ hist \in History /\ wt \in [Thread -> ChanWaiter]
      /\ NoWaiter \in ChanWaiter /\ NoWaiter.op = "none"
  BY <1>0 DEF Facts, History, NoWaiter, ChanWaiter, Payload
<1>2. ASSUME ch.sendq # <<>> PROVE s \in Thread /\ wt[s].op = "send" /\ wt[s].value \in Payload
  <2>1. s \in Thread /\ In(ch.sendq, s)
    BY <1>0, <1>2, PopQueue DEF Facts, Record, ChanRec, Queues
  <2> QED BY <1>0, <1>1, <2>1 DEF Facts, Queues, ChanWaiter
<1> HIDE DEF s
<1>3. ASSUME NEW x \in Payload, hist' = [hist EXCEPT !.taken = Append(@, x), !.returned = Returns(x)],
             \/ wt' = [wt EXCEPT ![t] = NoWaiter]
             \/ ch.sendq # <<>> /\ wt' = [wt EXCEPT ![s].done = TRUE, ![t] = NoWaiter]
      PROVE  ReturnedOnce' /\ WaitersEmpty'
  <2>1. hist'.taken = Append(hist.taken, x) /\ hist'.returned = Returns(x)
    BY <1>1, <1>3 DEF History
  <2>2. CASE wt' = [wt EXCEPT ![t] = NoWaiter]
    <3>1. wt'[t].op = "none" /\ \A u \in Thread \ {t} : wt'[u] = wt[u]
      BY <1>1, <2>2
    <3>2. \A v \in Value : Bearers(v)' = Bearers(v)
      BY <3>1, SameBearers DEF Unburdened, Woken
    <3>3. WaitersEmpty'
      BY <3>1 DEF ReturnInv, WaitersEmpty
    <3> QED BY <1>0, <1>3, <2>1, <3>2, <3>3, TakeReturn DEF ReturnInv
  <2>3. CASE ch.sendq # <<>> /\ wt' = [wt EXCEPT ![s].done = TRUE, ![t] = NoWaiter]
    <3>1. /\ wt'[t].op = "none" /\ wt'[s].op \in {"none", "send"} /\ wt[s].op = "send"
          /\ \A u \in Thread \ {t, s} : wt'[u] = wt[u]
      BY <1>1, <1>2, <2>3 DEF ChanWaiter
    <3>2. \A v \in Value : Bearers(v)' = Bearers(v)
      BY <3>1, SameBearers DEF Unburdened, Woken
    <3>3. WaitersEmpty'
      BY <3>1 DEF ReturnInv, WaitersEmpty
    <3> QED BY <1>0, <1>3, <2>1, <3>2, <3>3, TakeReturn DEF ReturnInv
  <2> QED BY <1>3, <2>2, <2>3
<1>4. CASE RecvBuffer(t)
  <2>1. ch.buf[ch.head] \in Payload
    BY <1>0, <1>4, ChannelAssumption DEF Facts, Record, ChanRec, RingOK, RecvBuffer
  <2> QED BY <1>3, <1>4, <2>1 DEF RecvBuffer, s
<1>5. CASE RecvSender(t)
  BY <1>2, <1>3, <1>5 DEF RecvSender, s
<1>6. CASE RecvClosed(t) \/ RecvQueue(t)
  <2>1. hist' = hist /\ (wt'[t].op = "none" \/ (wt'[t].op = "recv" /\ ~wt'[t].done /\ wt'[t].value = Null))
        /\ \A u \in Thread \ {t} : wt'[u] = wt[u]
    BY <1>1, <1>6 DEF RecvClosed, RecvQueue
  <2>2. \A v \in Value : Bearers(v)' = Bearers(v)
    BY <2>1, SameBearers DEF Unburdened, Woken
  <2>3. WaitersEmpty'
    BY <2>1 DEF ReturnInv, WaitersEmpty
  <2> QED BY <2>1, <2>2, <2>3, QuietReturn DEF ReturnInv
<1> QED BY <1>4, <1>5, <1>6 DEF RecvLoop

\* A woken receiver returns what it bears; a woken sender bears nothing.
LEMMA WakeReturn ==
  ASSUME ReturnInv, NEW t \in Thread, Wake(t)
  PROVE  ReturnedOnce' /\ WaitersEmpty'
<1>0. Facts
  BY InvFacts DEF ReturnInv
<1>1. hist \in History /\ wt \in [Thread -> ChanWaiter]
      /\ NoWaiter \in ChanWaiter /\ NoWaiter.op = "none"
  BY <1>0 DEF Facts, NoWaiter, ChanWaiter, Payload
<1>2. CASE SendWake(t)
  <2>1. wt[t].op = "send" /\ wt'[t].op = "none" /\ hist' = hist
        /\ \A u \in Thread \ {t} : wt'[u] = wt[u]
    BY <1>1, <1>2 DEF SendWake, Woken
  <2>2. \A v \in Value : Bearers(v)' = Bearers(v)
    BY <2>1, SameBearers
  <2>3. WaitersEmpty'
    BY <2>1 DEF ReturnInv, WaitersEmpty
  <2> QED BY <2>1, <2>2, <2>3, QuietReturn DEF ReturnInv
<1>3. CASE RecvWake(t)
  <2> DEFINE x == wt[t].value
  <2>1. /\ Woken(t, "recv") /\ x \in Payload
        /\ wt'[t].op = "none" /\ \A u \in Thread \ {t} : wt'[u] = wt[u]
        /\ hist' = [hist EXCEPT !.returned = Returns(x)]
    BY <1>1, <1>3 DEF RecvWake, ChanWaiter
  <2> HIDE DEF x
  <2>2. hist'.taken = hist.taken /\ hist'.returned = Returns(x)
        /\ hist.returned \in [Payload -> Nat]
    BY <1>1, <2>1 DEF History
  <2>3. WaitersEmpty'
    BY <2>1 DEF ReturnInv, WaitersEmpty
  <2>4. ASSUME NEW v \in Value PROVE Taken(v)' = hist'.returned[v] + Carrying(v)'
    <3>1. Taken(v)' = Taken(v)
      BY <2>2, Counts
    <3>2. hist'.returned[v] = hist.returned[v] + One(x, v)
      BY <2>1, <2>2 DEF Returns, Payload, One
    <3>3. Bearers(v)' = Bearers(v) \ {t} /\ (t \in Bearers(v) <=> x = v)
      BY <2>1 DEF Bearers, Woken, x
    <3>4. IsFiniteSet(Bearers(v)) /\ Cardinality(Bearers(v)) \in Nat
      BY BearersFinite
    <3>5. Carrying(v)' = Carrying(v) - One(x, v)
      <4>1. Cardinality(Bearers(v) \ {t})
              = IF t \in Bearers(v) THEN Cardinality(Bearers(v)) - 1 ELSE Cardinality(Bearers(v))
        BY <3>4, FS_RemoveElement
      <4>2. CASE x = v
        BY <3>3, <3>4, <4>1, <4>2, Counts DEF One
      <4>3. CASE x # v
        BY <3>3, <3>4, <4>1, <4>3, Counts DEF One
      <4> QED BY <4>2, <4>3
    <3>6. Taken(v) = hist.returned[v] + Carrying(v) /\ hist.returned[v] \in Nat
      BY <2>2 DEF ReturnInv, ReturnedOnce, Payload
    <3>7. Carrying(v) \in Nat /\ One(x, v) \in Nat
      BY <3>4, Counts DEF One
    <3> QED BY <3>1, <3>2, <3>5, <3>6, <3>7
  <2> QED BY <2>3, <2>4 DEF ReturnedOnce
<1>4. CASE RecvWakeNull(t)
  BY <1>4, RecvLoopReturn, ChannelAssumption DEF RecvWakeNull, Unburdened, Free, Woken
<1> QED BY <1>2, <1>3, <1>4 DEF Wake

\* chan_close completes handshakes that carry nothing.
LEMMA CloseReturn ==
  ASSUME ReturnInv, NEW t \in Thread, Close(t)
  PROVE  ReturnedOnce' /\ WaitersEmpty'
<1>0. Facts
  BY InvFacts DEF ReturnInv
<1>1. /\ hist' = hist
      /\ wt' = [u \in Thread |->
                  IF In(ch.recvq, u) THEN [wt[u] EXCEPT !.done = TRUE] ELSE wt[u]]
  BY DEF Close, In
<1>2. \A u \in Thread : ~In(ch.recvq, u) => wt'[u] = wt[u]
  BY <1>1
<1>3. \A u \in Thread : In(ch.recvq, u) =>
        wt[u].op = "recv" /\ ~wt[u].done /\ wt[u].value = Null
        /\ wt'[u].done /\ wt'[u].value = Null
  BY <1>0, <1>1 DEF Facts, Queues, ChanWaiter, ReturnInv, WaitersEmpty
<1>4. \A v \in Value : Bearers(v)' = Bearers(v)
  BY <1>2, <1>3, SameBearers, ChannelAssumption
<1>5. WaitersEmpty'
  BY <1>2, <1>3 DEF ReturnInv, WaitersEmpty
<1> QED BY <1>1, <1>4, <1>5, QuietReturn DEF ReturnInv

LEMMA ReturnNext ==
  ASSUME ReturnInv, [Next]_vars
  PROVE  ReturnInv'
<1>0. Inv'
  BY InvNext DEF ReturnInv
<1>1. CASE UNCHANGED vars
  BY <1>0, <1>1 DEF vars, ReturnInv, ReturnedOnce, Taken, Carrying, Woken, WaitersEmpty
<1>2. ASSUME NEW t \in Sender, SendRefused(t) \/ \E v \in Payload : Send(t, v)
      PROVE  ReturnedOnce' /\ WaitersEmpty'
  <2>1. t \in Thread
    BY DEF Thread
  <2> QED BY <1>1, <1>2, <2>1, SendHandoffReturn, SendReturn DEF SendRefused, Send, ReturnInv
<1>3. ASSUME NEW t \in Receiver, Recv(t) \/ TryRecv(t)
      PROVE  ReturnedOnce' /\ WaitersEmpty'
  <2>1. t \in Thread
    BY DEF Thread
  <2>2. ASSUME Idle(t) PROVE Unburdened(t)
    BY <2>2 DEF Idle, Unburdened, Free, Woken
  <2>3. CASE TryRecv(t) /\ UNCHANGED vars
    BY <1>1, <2>3 DEF ReturnInv
  <2> QED BY <1>3, <2>1, <2>2, <2>3, RecvLoopReturn DEF Recv, TryRecv, RecvLoop
<1>4. ASSUME NEW t \in Thread, Wake(t) \/ Close(t)
      PROVE  ReturnedOnce' /\ WaitersEmpty'
  BY <1>4, WakeReturn, CloseReturn
<1> QED BY <1>0, <1>1, <1>2, <1>3, <1>4 DEF Next, ReturnInv

\* A value other than null that was taken for a receiver is returned to a receiver exactly
\* once, or sits in the waiter of a receiver that was woken and has not run yet, for every
\* number of receivers that are woken, close and try again in between.
THEOREM ReturnsEachOnce == Spec => []ReturnedOnce
<1>1. Init => ReturnInv
  <2> SUFFICES ASSUME Init PROVE WaitersEmpty /\ ReturnedOnce
    BY InvInit DEF ReturnInv
  <2>1. \A t \in Thread : wt[t].op = "none"
    BY DEF Init, NoWaiter
  <2>2. ASSUME NEW v \in Value PROVE Taken(v) = hist.returned[v] + Carrying(v)
    <3>1. Places(hist.taken, v) = {}
      BY DEF Init, Places
    <3>2. Bearers(v) = {}
      BY <2>1 DEF Bearers, Woken
    <3>3. hist.returned[v] = 0
      BY DEF Init, Payload
    <3> QED BY <3>1, <3>2, <3>3, FS_EmptySet, Counts
  <2> QED BY <2>1, <2>2 DEF WaitersEmpty, ReturnedOnce
<1>2. ReturnInv /\ [Next]_vars => ReturnInv'
  BY ReturnNext
<1>3. ReturnInv => ReturnedOnce
  BY DEF ReturnInv
<1> QED BY <1>1, <1>2, <1>3, PTL DEF Spec
=============================================================================
