------------------------------ MODULE Lib_proofs ----------------------------
(***************************************************************************)
(* Proofs about the libraries that run on sockets: Loop, for every set of  *)
(* descriptors and requests, for programs whose callbacks do not close a   *)
(* socket that has ended (SelfClosing = FALSE); WebSocket, for every       *)
(* number of clients, for programs that close no client that is closed     *)
(* (ClosesTwice = FALSE).                                                  *)
(***************************************************************************)
EXTENDS Loop, WebSocket, SequenceTheorems, WellFoundedInduction, TLAPS

\* The values of the variables.
TimerRecord == [id : Nat, fn : Gets \cup {User}, every : BOOLEAN, due : BOOLEAN, cancelled : BOOLEAN]
Watcher == [handle : Handles, fn : Gets \cup {User}, conn : Nat]
Conn == [id : Nat, data : BOOLEAN, over : BOOLEAN]
Get == [state : {"new", "running", "done", "failed"}, handle : Nat, timer : Nat]
LoopType == [timers : Seq(TimerRecord), timerSeq : Nat, watchers : Seq(Watcher),
             conns : [Handles -> Conn], gets : [Gets -> Get], made : Nat]

\* The watchers; no two are of the same handle.
Ws(L) == {L.watchers[i] : i \in DOMAIN L.watchers}
Apart(L) == \A i, j \in DOMAIN L.watchers : L.watchers[i].handle = L.watchers[j].handle => i = j

\* The inductive invariant of the loop: a watcher is of the connection its handle has, and of
\* a request only while that runs and on the request's own handle; a request that runs has one.
LoopOK(L) ==
  /\ L \in LoopType
  /\ Apart(L)
  /\ \A w \in Ws(L) : w.conn # 0 /\ L.conns[w.handle].id = w.conn
  /\ \A w \in Ws(L) : w.fn \in Gets => Running(L, w.fn) /\ L.gets[w.fn].handle = w.handle
  /\ \A g \in Gets : Running(L, g) => \E w \in Ws(L) : w.fn = g

PassOK(p) ==
  /\ p \in [at : {"between", "timers", "sockets", "thrown"}, due : SUBSET Nat, ready : SUBSET Handles, pos : Nat]
  /\ p.at = "sockets" => p.pos >= 1

LoopInv == LoopOK(loop) /\ PassOK(pass)

\* What a callback does from L to M: timers stay in their places, and a cancelled one as it is.
Later(L, M) ==
  /\ DOMAIN L.timers \subseteq DOMAIN M.timers
  /\ \A i \in DOMAIN L.timers : L.timers[i].cancelled =>
       /\ M.timers[i].id = L.timers[i].id /\ M.timers[i].cancelled
       /\ L.timers[i].due => M.timers[i].due

\* What a step does: the cancelled timers stay as they are, each in some place.
Kept(L, M) ==
  \A i \in DOMAIN L.timers : L.timers[i].cancelled =>
    \E j \in DOMAIN M.timers :
      /\ M.timers[j].id = L.timers[i].id /\ M.timers[j].cancelled
      /\ L.timers[i].due => M.timers[j].due

\* h is a descriptor in use, and no request waits for it.
Unrequested(L, h) == L.conns[h].id # 0 /\ \A g \in Gets : Running(L, g) => L.gets[g].handle # h

\* A nonempty set of naturals has a least element: the descriptor the kernel gives out.
LEMMA LeastElement ==
  ASSUME NEW T, T \subseteq Nat, T # {}
  PROVE  \E x \in T : \A y \in T : x <= y
<1> DEFINE R == {ss \in Nat \X Nat : ss[1] < ss[2]}
<1>1. IsWellFoundedOn(R, Nat) BY NatLessThanWellFounded DEF OpToRel
<1> HIDE DEF R
<1>2. PICK x \in T : \A y \in T : ~ (<<y, x>> \in R)
  BY <1>1, WFMin
<1>3. ASSUME NEW y \in T PROVE x <= y
  <2>1. ~ (y < x)
    BY <1>2 DEF R
  <2> QED BY <2>1
<1> QED BY <1>3

\* The relation is one of any number of changes.
LEMMA LaterLater ==
  ASSUME NEW L, NEW M, NEW N, Later(L, M), Later(M, N)
  PROVE  Later(L, N)
BY DEF Later

\* What a callback does is what a step may do.
LEMMA LaterKept ==
  ASSUME NEW L, NEW M, Later(L, M)
  PROVE  Kept(L, M)
BY DEF Later, Kept

\* A loop whose timers are those of another is later than it.
LEMMA SameTimers ==
  ASSUME NEW L, NEW M, M.timers = L.timers
  PROVE  Later(L, M)
BY DEF Later

\* The parts of a loop.
LEMMA LoopParts ==
  ASSUME NEW L, L \in LoopType
  PROVE  /\ L.timers \in Seq(TimerRecord) /\ L.timerSeq \in Nat /\ L.watchers \in Seq(Watcher)
         /\ L.conns \in [Handles -> Conn] /\ L.gets \in [Gets -> Get] /\ L.made \in Nat
         /\ L = [timers |-> L.timers, timerSeq |-> L.timerSeq, watchers |-> L.watchers,
                 conns |-> L.conns, gets |-> L.gets, made |-> L.made]
BY DEF LoopType

(***************************************************************************)
(* The methods, field by field.                                            *)
(***************************************************************************)
\* Changing one element of a sequence of timers.
LEMMA TimerChange ==
  ASSUME NEW s \in Seq(TimerRecord), NEW id, NEW t, id \in DOMAIN s => t \in TimerRecord
  PROVE  /\ [s EXCEPT ![id] = t] \in Seq(TimerRecord)
         /\ DOMAIN [s EXCEPT ![id] = t] = DOMAIN s
         /\ \A i \in DOMAIN s : [s EXCEPT ![id] = t][i] = IF i = id THEN t ELSE s[i]
<1>1. CASE id \in DOMAIN s
  BY <1>1
<1>2. CASE id \notin DOMAIN s
  <2>1. [s EXCEPT ![id] = t] = s BY <1>2
  <2> QED BY <2>1, <1>2
<1> QED BY <1>1, <1>2

\* cancelTimer changes the flag of one timer.
LEMMA CancelFields ==
  ASSUME NEW L, L \in LoopType, NEW id
  PROVE  /\ cancelTimer(L, id) \in LoopType
         /\ cancelTimer(L, id).watchers = L.watchers /\ cancelTimer(L, id).conns = L.conns
         /\ cancelTimer(L, id).gets = L.gets
         /\ Later(L, cancelTimer(L, id))
<1>1. L.timers \in Seq(TimerRecord) BY LoopParts
<1>2. CASE id \notin DOMAIN L.timers
  <2>1. cancelTimer(L, id) = L BY <1>2 DEF cancelTimer
  <2> QED BY <2>1, SameTimers
<1>3. CASE id \in DOMAIN L.timers
  <2>1. PICK t : t = [L.timers[id] EXCEPT !.cancelled = TRUE] OBVIOUS
  <2>2. /\ t \in TimerRecord /\ t.id = L.timers[id].id /\ t.due = L.timers[id].due
        /\ t.cancelled
    <3>1. L.timers[id] \in TimerRecord BY <1>1, <1>3
    <3> QED BY <2>1, <3>1 DEF TimerRecord
  <2>3. PICK ts : ts = [L.timers EXCEPT ![id] = t] OBVIOUS
  <2>4. cancelTimer(L, id) = [L EXCEPT !.timers = ts] BY <1>3, <2>1, <2>3 DEF cancelTimer
  <2>5. ts \in Seq(TimerRecord) /\ DOMAIN ts = DOMAIN L.timers
        /\ \A i \in DOMAIN L.timers : ts[i] = IF i = id THEN t ELSE L.timers[i]
    BY <1>1, <2>2, <2>3, TimerChange
  <2>6. PICK M : M = cancelTimer(L, id) OBVIOUS
  <2>7. M \in LoopType /\ M.timers = ts /\ M.watchers = L.watchers /\ M.conns = L.conns /\ M.gets = L.gets
    BY <2>4, <2>5, <2>6 DEF LoopType
  <2>8. Later(L, M) BY <2>2, <2>5, <2>7 DEF Later
  <2> QED BY <2>6, <2>7, <2>8
<1> QED BY <1>2, <1>3

\* after puts a timer behind the others.
LEMMA AfterFields ==
  ASSUME NEW L, L \in LoopType, NEW fn \in Gets \cup {User}
  PROVE  /\ after(L, fn) \in LoopType /\ after(L, fn).watchers = L.watchers
         /\ after(L, fn).conns = L.conns /\ after(L, fn).gets = L.gets
         /\ after(L, fn).made = L.made
         /\ Later(L, after(L, fn))
<1>1. L.timers \in Seq(TimerRecord) /\ L.timerSeq \in Nat BY LoopParts
<1>2. PICK n : n = L.timerSeq + 1 OBVIOUS
<1>3. n \in Nat BY <1>1, <1>2
<1>4. PICK t : t = Timer(n, fn, FALSE) OBVIOUS
<1>5. t \in TimerRecord BY <1>3, <1>4 DEF Timer, TimerRecord
<1>6. PICK ts : ts = Append(L.timers, t) OBVIOUS
<1>7. ts \in Seq(TimerRecord) /\ Len(ts) = Len(L.timers) + 1 BY <1>1, <1>5, <1>6
<1>8. DOMAIN L.timers = 1..Len(L.timers) /\ DOMAIN ts = 1..(Len(L.timers) + 1) /\ Len(L.timers) \in Nat
  BY <1>1, <1>7
<1>9. \A i \in 1..Len(L.timers) : ts[i] = L.timers[i] BY <1>1, <1>5, <1>6
<1>10. PICK M : M = after(L, fn) OBVIOUS
<1>11. M = [L EXCEPT !.timers = ts, !.timerSeq = n] BY <1>2, <1>4, <1>6, <1>10 DEF after
<1>12. /\ M \in LoopType /\ M.timers = ts /\ M.watchers = L.watchers /\ M.conns = L.conns
       /\ M.gets = L.gets /\ M.made = L.made
  BY <1>3, <1>7, <1>11 DEF LoopType
<1>13. Later(L, M) BY <1>8, <1>9, <1>12 DEF Later
<1> QED BY <1>10, <1>12, <1>13

\* unset of a place takes its timer away and no other; the last one moves.
LEMMA UnsetFields ==
  ASSUME NEW L, L \in LoopType, NEW id \in DOMAIN L.timers
  PROVE  /\ UnsetTimer(L, id) \in LoopType /\ UnsetTimer(L, id).watchers = L.watchers
         /\ UnsetTimer(L, id).conns = L.conns /\ UnsetTimer(L, id).gets = L.gets
         /\ \A i \in DOMAIN L.timers : i # id =>
              \E j \in DOMAIN UnsetTimer(L, id).timers : UnsetTimer(L, id).timers[j] = L.timers[i]
<1> DEFINE s == L.timers
           n == Len(s)
<1>1. s \in Seq(TimerRecord) /\ n \in Nat /\ DOMAIN s = 1..n /\ id \in 1..n BY LoopParts
<1>2. n >= 1 /\ n \in 1..n /\ s[n] \in TimerRecord BY <1>1
<1>3. PICK s2 : s2 = [s EXCEPT ![id] = s[n]] OBVIOUS
<1>4. s2 \in Seq(TimerRecord) /\ Len(s2) = n /\ \A i \in 1..n : s2[i] = IF i = id THEN s[n] ELSE s[i]
  BY <1>1, <1>2, <1>3
<1>5. PICK r : r = SubSeq(s2, 1, n - 1) OBVIOUS
<1>6. r \in Seq(TimerRecord) /\ DOMAIN r = 1..(n - 1) /\ \A i \in 1..(n - 1) : r[i] = s2[i]
  BY <1>2, <1>4, <1>5
<1>7. PICK M : M = UnsetTimer(L, id) OBVIOUS
<1>8. M = [L EXCEPT !.timers = r] BY <1>3, <1>5, <1>7 DEF UnsetTimer
<1>9. M \in LoopType /\ M.timers = r /\ M.watchers = L.watchers /\ M.conns = L.conns /\ M.gets = L.gets
  BY <1>6, <1>8 DEF LoopType
<1>10. ASSUME NEW i \in 1..n, i # id PROVE \E j \in 1..(n - 1) : r[j] = s[i]
  <2>1. CASE i = n
    <3>1. id \in 1..(n - 1) BY <1>1, <1>10, <2>1
    <3>2. r[id] = s[n] BY <1>1, <1>4, <1>6, <3>1
    <3> QED BY <2>1, <3>1, <3>2
  <2>2. CASE i # n
    <3>1. i \in 1..(n - 1) BY <1>1, <2>2
    <3>2. r[i] = s[i] BY <1>4, <1>6, <1>10, <3>1
    <3> QED BY <3>1, <3>2
  <2> QED BY <2>1, <2>2
<1> QED BY <1>1, <1>6, <1>7, <1>9, <1>10

\* unwatch takes the watcher of the handle away and no other.
LEMMA UnwatchFields ==
  ASSUME NEW L, L \in LoopType, Apart(L), NEW h \in Handles
  PROVE  /\ unwatch(L, h) \in LoopType /\ Apart(unwatch(L, h))
         /\ Ws(unwatch(L, h)) = {w \in Ws(L) : w.handle # h}
         /\ unwatch(L, h).timers = L.timers /\ unwatch(L, h).conns = L.conns
         /\ unwatch(L, h).gets = L.gets
<1> DEFINE s == L.watchers
           n == Len(s)
           k == CHOOSE i \in Watched(L, h) : TRUE
<1>1. s \in Seq(Watcher) /\ n \in Nat /\ DOMAIN s = 1..n BY LoopParts
<1>2. CASE Watched(L, h) = {}
  <2>1. unwatch(L, h) = L BY <1>2 DEF unwatch
  <2>2. \A w \in Ws(L) : w.handle # h BY <1>2 DEF Watched, Ws
  <2> QED BY <2>1, <2>2
<1>3. CASE Watched(L, h) # {}
  <2>1. k \in 1..n /\ s[k].handle = h BY <1>1, <1>3 DEF Watched
  <2>2. \A i \in 1..n : s[i].handle = h => i = k BY <1>1, <2>1 DEF Apart
  <2> DEFINE s2 == [s EXCEPT ![k] = s[n]]
             r == SubSeq(s2, 1, n - 1)
  <2>3. n >= 1 /\ s[n] \in Watcher BY <1>1, <2>1
  <2>4. s2 \in Seq(Watcher) /\ Len(s2) = n /\ \A i \in 1..n : s2[i] = IF i = k THEN s[n] ELSE s[i]
    BY <1>1, <2>1, <2>3
  <2>5. unwatch(L, h) = [L EXCEPT !.watchers = r] BY <1>3 DEF unwatch
  <2> HIDE DEF s2
  <2>6. r \in Seq(Watcher) /\ Len(r) = n - 1 /\ DOMAIN r = 1..(n - 1) /\ \A i \in 1..(n - 1) : r[i] = s2[i]
    BY <1>1, <2>3, <2>4
  <2>7. \A i \in 1..(n - 1) : r[i] = IF i = k THEN s[n] ELSE s[i]
    BY <1>1, <2>3, <2>4, <2>6
  <2> HIDE DEF r, k
  <2>8. PICK M : M = unwatch(L, h) OBVIOUS
  <2>9. /\ M \in LoopType /\ M.watchers = r /\ M.timers = L.timers /\ M.conns = L.conns
        /\ M.gets = L.gets
    BY <2>5, <2>6, <2>8 DEF LoopType
  <2>10. Apart(M)
    <3> SUFFICES ASSUME NEW i \in 1..(n - 1), NEW j \in 1..(n - 1), r[i].handle = r[j].handle
                 PROVE  i = j
      BY <2>6, <2>9 DEF Apart
    <3>1. \A a, b \in 1..n : s[a].handle = s[b].handle => a = b BY <1>1 DEF Apart
    <3>2. i \in 1..n /\ j \in 1..n /\ n \in 1..n /\ i # n /\ j # n BY <1>1, <2>3
    <3>3. CASE i = k /\ j = k BY <3>3
    <3>4. CASE i = k /\ j # k
      <4>1. s[n].handle = s[j].handle BY <2>7, <3>4
      <4> QED BY <3>1, <3>2, <4>1
    <3>5. CASE i # k /\ j = k
      <4>1. s[i].handle = s[n].handle BY <2>7, <3>5
      <4> QED BY <3>1, <3>2, <4>1
    <3>6. CASE i # k /\ j # k
      <4>1. s[i].handle = s[j].handle BY <2>7, <3>6
      <4> QED BY <3>1, <3>2, <4>1
    <3> QED BY <3>3, <3>4, <3>5, <3>6
  <2>11. ASSUME NEW w \in Ws(M) PROVE w \in Ws(L) /\ w.handle # h
    <3>1. PICK i \in 1..(n - 1) : w = r[i] BY <2>6, <2>9 DEF Ws
    <3>2. CASE i = k
      <4>1. w = s[n] /\ n # k /\ n \in 1..n BY <1>1, <2>3, <2>7, <3>1, <3>2
      <4> QED BY <4>1, <1>1, <2>2 DEF Ws
    <3>3. CASE i # k
      <4>1. w = s[i] /\ i \in 1..n BY <1>1, <2>7, <3>1, <3>3
      <4> QED BY <4>1, <3>3, <1>1, <2>2 DEF Ws
    <3> QED BY <3>2, <3>3
  <2>12. ASSUME NEW w \in Ws(L), w.handle # h PROVE w \in Ws(M)
    <3>1. PICK i \in 1..n : w = s[i] BY <1>1 DEF Ws
    <3>2. i # k BY <2>1, <2>12, <3>1
    <3>3. CASE i = n
      <4>1. k \in 1..(n - 1) /\ r[k] = w BY <1>1, <2>1, <2>7, <3>1, <3>2, <3>3
      <4> QED BY <4>1, <2>6, <2>9 DEF Ws
    <3>4. CASE i # n
      <4>1. i \in 1..(n - 1) /\ r[i] = w BY <1>1, <2>7, <3>1, <3>2, <3>4
      <4> QED BY <4>1, <2>6, <2>9 DEF Ws
    <3> QED BY <3>3, <3>4
  <2>13. Ws(M) = {w \in Ws(L) : w.handle # h} BY <2>11, <2>12
  <2> QED BY <2>8, <2>9, <2>10, <2>13
<1> QED BY <1>2, <1>3

\* stream_close frees one descriptor.
LEMMA CloseFields ==
  ASSUME NEW L, L \in LoopType, NEW h \in Handles
  PROVE  /\ stream_close_(L, h) \in LoopType
         /\ stream_close_(L, h).timers = L.timers /\ stream_close_(L, h).watchers = L.watchers
         /\ stream_close_(L, h).gets = L.gets
         /\ \A k \in Handles : k # h => stream_close_(L, h).conns[k] = L.conns[k]
<1>1. NoConn \in Conn BY DEF NoConn, Conn
<1>2. L.conns \in [Handles -> Conn] BY LoopParts
<1>3. [L.conns EXCEPT ![h] = NoConn] \in [Handles -> Conn] BY <1>1, <1>2
<1>4. PICK c : c = [L.conns EXCEPT ![h] = NoConn] OBVIOUS
<1>5. stream_close_(L, h) = [L EXCEPT !.conns = c] BY <1>4 DEF stream_close_
<1>6. \A k \in Handles : k # h => c[k] = L.conns[k] BY <1>2, <1>4
<1> QED BY <1>3, <1>4, <1>5, <1>6 DEF LoopType

\* The end of a request changes its state.
LEMMA EndsFields ==
  ASSUME NEW L, L \in LoopType, NEW g \in Gets, NEW how \in {"done", "failed"}
  PROVE  /\ Ends(L, g, how) \in LoopType
         /\ Ends(L, g, how).timers = L.timers /\ Ends(L, g, how).watchers = L.watchers
         /\ Ends(L, g, how).conns = L.conns
         /\ ~ Running(Ends(L, g, how), g)
         /\ \A k \in Gets : k # g => Ends(L, g, how).gets[k] = L.gets[k]
<1>1. L.gets \in [Gets -> Get] BY LoopParts
<1> DEFINE r == [L.gets[g] EXCEPT !.state = how]
<1>2. r \in Get /\ r.state = how
  <2>1. L.gets[g] \in Get BY <1>1
  <2> QED BY <2>1 DEF Get
<1>3. Ends(L, g, how) = [L EXCEPT !.gets = [L.gets EXCEPT ![g] = r]] BY DEF Ends
<1> HIDE DEF r
<1>4. PICK c : c = [L.gets EXCEPT ![g] = r] OBVIOUS
<1>5. c \in [Gets -> Get] /\ c[g] = r /\ \A k \in Gets : k # g => c[k] = L.gets[k]
  BY <1>1, <1>2, <1>4
<1>6. PICK M : M = Ends(L, g, how) OBVIOUS
<1>7. /\ M \in LoopType /\ M.timers = L.timers /\ M.watchers = L.watchers /\ M.conns = L.conns
      /\ M.gets = c
  BY <1>3, <1>4, <1>5, <1>6 DEF LoopType
<1> QED BY <1>2, <1>5, <1>6, <1>7 DEF Running

(***************************************************************************)
(* What keeps the loop in order.                                           *)
(***************************************************************************)
\* Handle h loses its watcher, its request and perhaps its connection; nothing else changes
\* that the invariant looks at.
LEMMA Released ==
  ASSUME NEW L, LoopOK(L), NEW M, M \in LoopType, Apart(M), NEW h \in Handles,
         Ws(M) = {w \in Ws(L) : w.handle # h},
         \A k \in Handles : k # h => M.conns[k].id = L.conns[k].id,
         \A g \in Gets : Running(M, g) =>
           Running(L, g) /\ L.gets[g].handle # h,
         \A g \in Gets : Running(L, g) /\ L.gets[g].handle # h =>
           Running(M, g) /\ M.gets[g].handle = L.gets[g].handle
  PROVE  LoopOK(M)
<1>1. \A w \in Ws(L) : w \in Watcher
  BY LoopParts DEF LoopOK, Ws
<1>2. \A w \in Ws(M) : w.conn # 0 /\ M.conns[w.handle].id = w.conn
  <2> SUFFICES ASSUME NEW w \in Ws(M) PROVE w.conn # 0 /\ M.conns[w.handle].id = w.conn
    OBVIOUS
  <2>1. w \in Ws(L) /\ w.handle # h OBVIOUS
  <2>2. w.handle \in Handles BY <2>1, <1>1 DEF Watcher
  <2> QED BY <2>1, <2>2 DEF LoopOK
<1>3. \A w \in Ws(M) : w.fn \in Gets => Running(M, w.fn) /\ M.gets[w.fn].handle = w.handle
  <2> SUFFICES ASSUME NEW w \in Ws(M), w.fn \in Gets
               PROVE  Running(M, w.fn) /\ M.gets[w.fn].handle = w.handle
    OBVIOUS
  <2>1. w \in Ws(L) /\ w.handle # h OBVIOUS
  <2>2. Running(L, w.fn) /\ L.gets[w.fn].handle = w.handle BY <2>1 DEF LoopOK
  <2> QED BY <2>1, <2>2
<1>4. \A g \in Gets : Running(M, g) => \E w \in Ws(M) : w.fn = g
  <2> SUFFICES ASSUME NEW g \in Gets, Running(M, g) PROVE \E w \in Ws(M) : w.fn = g
    OBVIOUS
  <2>1. Running(L, g) /\ L.gets[g].handle # h OBVIOUS
  <2>2. PICK w \in Ws(L) : w.fn = g BY <2>1 DEF LoopOK
  <2>3. w.handle = L.gets[g].handle BY <2>2 DEF LoopOK
  <2> QED BY <2>1, <2>2, <2>3
<1> QED BY <1>2, <1>3, <1>4 DEF LoopOK

\* Nothing changes that the invariant looks at.
LEMMA Untouched ==
  ASSUME NEW L, LoopOK(L), NEW M, M \in LoopType, M.watchers = L.watchers, M.gets = L.gets,
         \A k \in Handles : M.conns[k].id = L.conns[k].id
  PROVE  LoopOK(M) /\ \A h \in Handles : Unrequested(L, h) => Unrequested(M, h)
<1>1. Ws(M) = Ws(L) /\ Apart(M) BY DEF LoopOK, Ws, Apart
<1>2. \A w \in Ws(L) : w.handle \in Handles
  <2>1. \A w \in Ws(L) : w \in Watcher BY LoopParts DEF LoopOK, Ws
  <2> QED BY <2>1 DEF Watcher
<1>3. \A g : Running(M, g) <=> Running(L, g) BY DEF Running
<1>4. LoopOK(M) BY <1>1, <1>2, <1>3 DEF LoopOK
<1> QED BY <1>3, <1>4 DEF Unrequested

\* Closing a handle no request waits for.
LEMMA CloseKeeps ==
  ASSUME NEW L, LoopOK(L), NEW h \in Handles, Unrequested(L, h)
  PROVE  LoopOK(stream_close_(unwatch(L, h), h)) /\ Later(L, stream_close_(unwatch(L, h), h))
<1>1. L \in LoopType /\ Apart(L) BY DEF LoopOK
<1>2. PICK U : U = unwatch(L, h) OBVIOUS
<1>3. /\ U \in LoopType /\ Apart(U) /\ Ws(U) = {w \in Ws(L) : w.handle # h}
      /\ U.timers = L.timers /\ U.conns = L.conns /\ U.gets = L.gets
  BY <1>1, <1>2, UnwatchFields
<1>4. PICK M : M = stream_close_(U, h) OBVIOUS
<1>5. /\ M \in LoopType /\ M.timers = U.timers /\ M.watchers = U.watchers /\ M.gets = U.gets
      /\ \A k \in Handles : k # h => M.conns[k] = U.conns[k]
  BY <1>3, <1>4, CloseFields
<1>6. Apart(M) /\ Ws(M) = {w \in Ws(L) : w.handle # h} BY <1>3, <1>5 DEF Apart, Ws
<1>7. \A g \in Gets : Running(M, g) <=> Running(L, g) BY <1>3, <1>5 DEF Running
<1>8. \A g \in Gets : Running(L, g) => L.gets[g].handle # h BY DEF Unrequested
<1>9. LoopOK(M) BY <1>3, <1>5, <1>6, <1>7, <1>8, Released
<1>10. Later(L, M) BY <1>3, <1>5, SameTimers
<1> QED BY <1>2, <1>4, <1>9, <1>10

(***************************************************************************)
(* New connections and requests.                                           *)
(***************************************************************************)
\* The kernel gives out a free descriptor.
LEMMA NewHandleFree ==
  ASSUME NEW L, CanConnect(L)
  PROVE  NewHandle(L) \in Handles /\ L.conns[NewHandle(L)].id = 0
<1> DEFINE T == {h \in Handles : L.conns[h].id = 0}
<1>1. T # {} /\ T \subseteq Nat BY LoopAssumption DEF CanConnect
<1>2. PICK h \in T : \A k \in T : h <= k BY <1>1, LeastElement
<1>3. h \in Handles /\ L.conns[h].id = 0 OBVIOUS
<1>4. ASSUME NEW k \in Handles, k < h PROVE L.conns[k].id # 0
  <2>1. k \in Nat /\ h \in Nat BY LoopAssumption, <1>3
  <2>2. ~ (h <= k) BY <2>1, <1>4
  <2>3. k \notin T BY <2>2, <1>2
  <2> QED BY <2>3
<1> QED BY <1>3, <1>4 DEF NewHandle

\* A connection is one that was not there before.
LEMMA ConnectFields ==
  ASSUME NEW L, L \in LoopType, CanConnect(L)
  PROVE  /\ Connect(L) \in LoopType
         /\ Connect(L).timers = L.timers /\ Connect(L).watchers = L.watchers
         /\ Connect(L).gets = L.gets
         /\ Connect(L).conns[NewHandle(L)].id # 0
         /\ \A k \in Handles : k # NewHandle(L) => Connect(L).conns[k] = L.conns[k]
<1>1. PICK h \in Handles : h = NewHandle(L) BY NewHandleFree
<1>2. L.conns \in [Handles -> Conn] /\ L.made \in Nat BY LoopParts
<1> DEFINE c == [NoConn EXCEPT !.id = L.made + 1]
<1>3. c \in Conn /\ c.id # 0
  <2>1. PICK n : n = NoConn OBVIOUS
  <2>2. n \in Conn BY <2>1 DEF NoConn, Conn
  <2>3. L.made + 1 \in Nat /\ L.made + 1 # 0 BY <1>2
  <2>4. c = [n EXCEPT !.id = L.made + 1] BY <2>1
  <2> HIDE DEF c
  <2> QED BY <2>2, <2>3, <2>4 DEF Conn
<1>4. Connect(L) = [L EXCEPT !.made = L.made + 1, !.conns = [L.conns EXCEPT ![h] = c]]
  BY ONLY <1>1, Zenon DEF Connect
<1> HIDE DEF c
<1>5. PICK d : d = [L.conns EXCEPT ![h] = c] OBVIOUS
<1>6. d \in [Handles -> Conn] /\ d[h] = c /\ \A k \in Handles : k # h => d[k] = L.conns[k]
  BY <1>2, <1>3, <1>5
<1>7. PICK n : n = L.made + 1 OBVIOUS
<1>8. n \in Nat BY <1>2, <1>7
<1>9. Connect(L) = [L EXCEPT !.made = n, !.conns = d] BY <1>4, <1>5, <1>7
<1>10. PICK M : M = Connect(L) OBVIOUS
<1>11. /\ M \in LoopType /\ M.timers = L.timers /\ M.watchers = L.watchers /\ M.gets = L.gets
       /\ M.conns = d
  BY <1>6, <1>8, <1>9, <1>10 DEF LoopType
<1> QED BY <1>1, <1>3, <1>6, <1>10, <1>11

\* Watching a handle nobody watches adds a watcher.
LEMMA WatchFields ==
  ASSUME NEW L, L \in LoopType, Apart(L), NEW h \in Handles, NEW fn \in Gets \cup {User},
         \A w \in Ws(L) : w.handle # h
  PROVE  /\ watch(L, h, fn) \in LoopType /\ Apart(watch(L, h, fn))
         /\ Ws(watch(L, h, fn)) = Ws(L) \cup {[handle |-> h, fn |-> fn, conn |-> L.conns[h].id]}
         /\ watch(L, h, fn).timers = L.timers /\ watch(L, h, fn).conns = L.conns
         /\ watch(L, h, fn).gets = L.gets
<1> DEFINE s == L.watchers
           n == Len(s)
           w0 == [handle |-> h, fn |-> fn, conn |-> L.conns[h].id]
<1>1. s \in Seq(Watcher) /\ n \in Nat /\ DOMAIN s = 1..n BY LoopParts
<1>2. w0 \in Watcher
  <2>1. L.conns[h] \in Conn BY LoopParts
  <2> QED BY <2>1 DEF Conn, Watcher
<1>3. Watched(L, h) = {} BY DEF Watched, Ws
<1>4. watch(L, h, fn) = [L EXCEPT !.watchers = Append(s, w0)] BY <1>3 DEF watch
<1>5. w0.handle = h OBVIOUS
<1> HIDE DEF w0
<1>6. PICK r : r = Append(s, w0) OBVIOUS
<1>7. r \in Seq(Watcher) /\ DOMAIN r = 1..(n + 1) /\ r[n + 1] = w0 /\ \A i \in 1..n : r[i] = s[i]
  BY <1>1, <1>2, <1>6
<1>8. PICK M : M = watch(L, h, fn) OBVIOUS
<1>9. /\ M \in LoopType /\ M.watchers = r /\ M.timers = L.timers /\ M.conns = L.conns
      /\ M.gets = L.gets
  BY <1>4, <1>6, <1>7, <1>8 DEF LoopType
<1>10. \A i \in 1..n : s[i].handle # h BY <1>1 DEF Ws
<1>11. Apart(M)
  <2> SUFFICES ASSUME NEW i \in 1..(n + 1), NEW j \in 1..(n + 1), r[i].handle = r[j].handle
               PROVE  i = j
    BY <1>7, <1>9 DEF Apart
  <2>1. i = n + 1 \/ i \in 1..n BY <1>1
  <2>2. j = n + 1 \/ j \in 1..n BY <1>1
  <2> QED BY <2>1, <2>2, <1>1, <1>5, <1>7, <1>10 DEF Apart
<1>12. Ws(M) = Ws(L) \cup {w0}
  <2>1. ASSUME NEW w \in Ws(M) PROVE w \in Ws(L) \cup {w0}
    <3>1. PICK i \in 1..(n + 1) : w = r[i] BY <1>7, <1>9 DEF Ws
    <3>2. i = n + 1 \/ i \in 1..n BY <1>1
    <3> QED BY <3>1, <3>2, <1>1, <1>7 DEF Ws
  <2>2. ASSUME NEW w \in Ws(L) PROVE w \in Ws(M)
    <3>1. PICK i \in 1..n : w = s[i] BY <1>1 DEF Ws
    <3>2. i \in 1..(n + 1) /\ r[i] = w BY <1>1, <1>7, <3>1
    <3> QED BY <3>2, <1>7, <1>9 DEF Ws
  <2>3. w0 \in Ws(M)
    <3>1. n + 1 \in 1..(n + 1) BY <1>1
    <3> QED BY <3>1, <1>7, <1>9 DEF Ws
  <2> QED BY <2>1, <2>2, <2>3
<1> QED BY <1>8, <1>9, <1>11, <1>12 DEF w0

\* A free handle is watched by nobody.
LEMMA FreeUnwatched ==
  ASSUME NEW L, LoopOK(L), NEW h \in Handles, L.conns[h].id = 0
  PROVE  \A w \in Ws(L) : w.handle # h
BY DEF LoopOK

\* A handle that was free gets a connection and a watcher, of the program or of a request
\* that starts.
LEMMA Added ==
  ASSUME NEW L, LoopOK(L), NEW M, M \in LoopType, Apart(M), NEW h \in Handles, NEW w0,
         L.conns[h].id = 0, M.conns[h].id # 0, w0.handle = h, w0.conn = M.conns[h].id,
         Ws(M) = Ws(L) \cup {w0},
         \A k \in Handles : k # h => M.conns[k].id = L.conns[k].id,
         w0.fn \in Gets => /\ ~ Running(L, w0.fn) /\ Running(M, w0.fn)
                           /\ M.gets[w0.fn].handle = h,
         \A g \in Gets : g # w0.fn => M.gets[g] = L.gets[g]
  PROVE  LoopOK(M) /\ \A k \in Handles : Unrequested(L, k) => Unrequested(M, k)
<1>1. \A w \in Ws(L) : w \in Watcher BY LoopParts DEF LoopOK, Ws
<1>2. \A w \in Ws(M) : w.conn # 0 /\ M.conns[w.handle].id = w.conn
  <2> SUFFICES ASSUME NEW w \in Ws(M) PROVE w.conn # 0 /\ M.conns[w.handle].id = w.conn
    OBVIOUS
  <2>1. CASE w = w0 BY <2>1
  <2>2. CASE w \in Ws(L)
    <3>1. w.handle \in Handles BY <2>2, <1>1 DEF Watcher
    <3>2. w.handle # h BY <2>2, FreeUnwatched
    <3> QED BY <2>2, <3>1, <3>2 DEF LoopOK
  <2> QED BY <2>1, <2>2
<1>3. ASSUME NEW g \in Gets, Running(L, g) PROVE M.gets[g] = L.gets[g] /\ Running(M, g)
  <2>1. g # w0.fn BY <1>3
  <2> QED BY <2>1, <1>3 DEF Running
<1>4. \A w \in Ws(M) : w.fn \in Gets => Running(M, w.fn) /\ M.gets[w.fn].handle = w.handle
  <2> SUFFICES ASSUME NEW w \in Ws(M), w.fn \in Gets
               PROVE  Running(M, w.fn) /\ M.gets[w.fn].handle = w.handle
    OBVIOUS
  <2>1. CASE w = w0 BY <2>1
  <2>2. CASE w \in Ws(L)
    <3>1. Running(L, w.fn) /\ L.gets[w.fn].handle = w.handle BY <2>2 DEF LoopOK
    <3> QED BY <3>1, <1>3
  <2> QED BY <2>1, <2>2
<1>5. \A g \in Gets : Running(M, g) => \E w \in Ws(M) : w.fn = g
  <2> SUFFICES ASSUME NEW g \in Gets, Running(M, g) PROVE \E w \in Ws(M) : w.fn = g
    OBVIOUS
  <2>1. CASE g = w0.fn BY <2>1
  <2>2. CASE g # w0.fn
    <3>1. Running(L, g) BY <2>2 DEF Running
    <3>2. PICK w \in Ws(L) : w.fn = g BY <3>1 DEF LoopOK
    <3> QED BY <3>2
  <2> QED BY <2>1, <2>2
<1>6. LoopOK(M) BY <1>2, <1>4, <1>5 DEF LoopOK
<1>7. ASSUME NEW k \in Handles, Unrequested(L, k) PROVE Unrequested(M, k)
  <2>1. k # h /\ M.conns[k].id # 0 BY <1>7 DEF Unrequested
  <2>2. ASSUME NEW g \in Gets, Running(M, g) PROVE M.gets[g].handle # k
    <3>1. CASE g = w0.fn BY <2>1, <3>1
    <3>2. CASE g # w0.fn
      <4>1. Running(L, g) /\ M.gets[g] = L.gets[g] BY <2>2, <3>2 DEF Running
      <4> QED BY <4>1, <1>7 DEF Unrequested
    <3> QED BY <3>1, <3>2
  <2> QED BY <2>1, <2>2 DEF Unrequested
<1> QED BY <1>6, <1>7

\* An accepted connection is watched by the program.
LEMMA AcceptKeeps ==
  ASSUME NEW L, LoopOK(L), CanConnect(L)
  PROVE  LET M == watch(Connect(L), NewHandle(L), User)
         IN  LoopOK(M) /\ Later(L, M)
<1>1. L \in LoopType /\ Apart(L) BY DEF LoopOK
<1>2. PICK h \in Handles : h = NewHandle(L) /\ L.conns[h].id = 0 BY NewHandleFree
<1>3. PICK C : C = Connect(L) OBVIOUS
<1>4. /\ C \in LoopType /\ C.timers = L.timers /\ C.watchers = L.watchers /\ C.gets = L.gets
      /\ C.conns[h].id # 0 /\ \A k \in Handles : k # h => C.conns[k] = L.conns[k]
  BY <1>1, <1>2, <1>3, ConnectFields
<1>5. Ws(C) = Ws(L) /\ Apart(C) BY <1>1, <1>4 DEF Ws, Apart
<1>6. \A w \in Ws(C) : w.handle # h BY <1>2, <1>5, FreeUnwatched
<1>7. PICK w0 : w0 = [handle |-> h, fn |-> User, conn |-> C.conns[h].id] OBVIOUS
<1>8. w0.handle = h /\ w0.conn = C.conns[h].id /\ w0.fn = User /\ User \notin Gets
  BY <1>7, LoopAssumption DEF User
<1>9. PICK M : M = watch(C, h, User) OBVIOUS
<1>10. /\ M \in LoopType /\ Apart(M) /\ Ws(M) = Ws(C) \cup {w0}
       /\ M.timers = C.timers /\ M.conns = C.conns /\ M.gets = C.gets
  BY <1>4, <1>5, <1>6, <1>7, <1>9, WatchFields
<1>11. LoopOK(M)
  BY <1>2, <1>4, <1>5, <1>8, <1>10, Added
<1>12. Later(L, M) BY <1>4, <1>10, SameTimers
<1> QED BY <1>2, <1>3, <1>9, <1>11, <1>12

\* A request that starts has a connection, a watcher of its own and a timer.
LEMMA HttpGetKeeps ==
  ASSUME NEW L, LoopOK(L), CanConnect(L), NEW g \in Gets, L.gets[g].state = "new"
  PROVE  /\ LoopOK(httpGet(L, g)) /\ Later(L, httpGet(L, g))
         /\ \A k \in Handles : Unrequested(L, k) => Unrequested(httpGet(L, g), k)
<1>1. L \in LoopType /\ Apart(L) BY DEF LoopOK
<1>2. PICK h \in Handles : h = NewHandle(L) /\ L.conns[h].id = 0 BY NewHandleFree
<1>3. PICK C : C = Connect(L) OBVIOUS
<1>4. /\ C \in LoopType /\ C.timers = L.timers /\ C.watchers = L.watchers /\ C.gets = L.gets
      /\ C.conns[h].id # 0 /\ \A k \in Handles : k # h => C.conns[k] = L.conns[k]
  BY <1>1, <1>2, <1>3, ConnectFields
<1>5. Ws(C) = Ws(L) /\ Apart(C) BY <1>1, <1>4 DEF Ws, Apart
<1>6. \A w \in Ws(C) : w.handle # h BY <1>2, <1>5, FreeUnwatched
<1>7. PICK w0 : w0 = [handle |-> h, fn |-> g, conn |-> C.conns[h].id] OBVIOUS
<1>8. w0.handle = h /\ w0.conn = C.conns[h].id /\ w0.fn = g BY <1>7
<1>9. PICK W : W = watch(C, h, g) OBVIOUS
<1>10. /\ W \in LoopType /\ Apart(W) /\ Ws(W) = Ws(C) \cup {w0}
       /\ W.timers = C.timers /\ W.conns = C.conns /\ W.gets = C.gets
  BY <1>4, <1>5, <1>6, <1>7, <1>9, WatchFields
<1>11. L.timerSeq \in Nat /\ L.gets \in [Gets -> Get] BY <1>1, LoopParts
<1>12. PICK A : A = after(W, g) OBVIOUS
<1>13. /\ A \in LoopType /\ A.watchers = W.watchers /\ A.conns = W.conns /\ A.gets = L.gets
       /\ Later(L, A)
  <2>1. A \in LoopType /\ A.watchers = W.watchers /\ A.conns = W.conns /\ A.gets = W.gets /\ Later(W, A)
    BY <1>10, <1>12, AfterFields
  <2>2. W.timers = L.timers BY <1>4, <1>10
  <2> QED BY <2>1, <2>2, <1>4, <1>10, SameTimers, LaterLater
<1>14. PICK r : r = [state |-> "running", handle |-> h, timer |-> L.timerSeq + 1] OBVIOUS
<1>15. r \in Get /\ r.state = "running" /\ r.handle = h
  <2>1. L.timerSeq + 1 \in Nat /\ h \in Nat BY <1>11, LoopAssumption
  <2> QED BY <2>1, <1>14 DEF Get
<1>16. PICK gs : gs = [L.gets EXCEPT ![g] = r] OBVIOUS
<1>17. gs \in [Gets -> Get] /\ gs[g] = r /\ \A k \in Gets : k # g => gs[k] = L.gets[k]
  BY <1>11, <1>15, <1>16
<1>18. httpGet(L, g) = [A EXCEPT !.gets = gs]
  <2>1. httpGet(L, g) = [A EXCEPT !.gets = [A.gets EXCEPT ![g] = r]]
    BY <1>2, <1>3, <1>9, <1>12, <1>14 DEF httpGet
  <2> QED BY <2>1, <1>13, <1>16
<1>19. PICK M : M = httpGet(L, g) OBVIOUS
<1>20. /\ M \in LoopType /\ M.timers = A.timers /\ M.gets = gs /\ M.watchers = W.watchers
       /\ M.conns = W.conns
  BY <1>13, <1>17, <1>18, <1>19 DEF LoopType
<1>21. Apart(M) /\ Ws(M) = Ws(L) \cup {w0}
  <2>1. M.watchers = W.watchers BY <1>20
  <2>2. Apart(M) BY <2>1, <1>10 DEF Apart
  <2>3. Ws(M) = Ws(W) BY <2>1 DEF Ws
  <2> QED BY <2>2, <2>3, <1>5, <1>10
<1>22. ~ Running(L, g) /\ Running(M, g) /\ M.gets[g].handle = h
  BY <1>15, <1>17, <1>20 DEF Running
<1>23. LoopOK(M) /\ \A k \in Handles : Unrequested(L, k) => Unrequested(M, k)
  <2>1. M.conns[h].id # 0 /\ w0.conn = M.conns[h].id
        /\ \A k \in Handles : k # h => M.conns[k].id = L.conns[k].id
    BY <1>4, <1>8, <1>10, <1>20
  <2>2. \A k \in Gets : k # w0.fn => M.gets[k] = L.gets[k] BY <1>8, <1>17, <1>20
  <2> QED BY <2>1, <2>2, <1>2, <1>8, <1>20, <1>21, <1>22, Added
<1>24. Later(L, M) BY <1>13, <1>20, SameTimers, LaterLater
<1> QED BY <1>19, <1>23, <1>24

(***************************************************************************)
(* Callbacks, the ends of a request, and the actions.                      *)
(***************************************************************************)
\* No two requests that run have one handle.
LEMMA OwnHandles ==
  ASSUME NEW L, LoopOK(L), NEW g \in Gets, Running(L, g)
  PROVE  \A k \in Gets : k # g /\ Running(L, k) => L.gets[k].handle # L.gets[g].handle
<1> SUFFICES ASSUME NEW k \in Gets, Running(L, k), L.gets[k].handle = L.gets[g].handle
             PROVE  k = g
  OBVIOUS
<1>1. PICK x \in Ws(L) : x.fn = k BY DEF LoopOK
<1>2. PICK y \in Ws(L) : y.fn = g BY DEF LoopOK
<1>3. x.handle = y.handle BY <1>1, <1>2 DEF LoopOK
<1>4. x = y BY <1>3 DEF LoopOK, Apart, Ws
<1> QED BY <1>1, <1>2, <1>4

\* What a callback may do keeps the loop in order.
LEMMA CallbackKeeps ==
  ASSUME NEW L, LoopOK(L), NEW M \in CallbackOf(L)
  PROVE  /\ LoopOK(M) /\ Later(L, M)
         /\ \A k \in Handles : Unrequested(L, k) => Unrequested(M, k)
<1>1. CASE M = L
  BY <1>1, SameTimers
<1>2. CASE \E id \in Cancels : M = cancelTimer(L, id)
  <2>1. PICK id : M = cancelTimer(L, id) BY <1>2
  <2>2. /\ M \in LoopType /\ M.watchers = L.watchers /\ M.conns = L.conns /\ M.gets = L.gets
        /\ Later(L, M)
    BY <2>1, CancelFields DEF LoopOK
  <2>3. LoopOK(M) /\ \A k \in Handles : Unrequested(L, k) => Unrequested(M, k)
    BY <2>2, Untouched
  <2> QED BY <2>2, <2>3
<1>3. CASE \E g \in Gets : L.gets[g].state = "new" /\ CanConnect(L) /\ M = httpGet(L, g)
  BY <1>3, HttpGetKeeps
<1> QED BY <1>1, <1>2, <1>3 DEF CallbackOf

\* A request that has an answer: its timer is cancelled, its watcher taken away, its
\* connection left to the loop, which closes it.
LEMMA ResponseKeeps ==
  ASSUME NEW L, LoopOK(L), NEW g \in Gets, NEW w \in Ws(L), w.fn = g, NEW M \in Response(L, g)
  PROVE  LoopOK(M) /\ Later(L, M) /\ Unrequested(M, w.handle)
<1>1. L \in LoopType /\ Apart(L) /\ L.gets \in [Gets -> Get] BY LoopParts DEF LoopOK
<1>2. Running(L, g) /\ L.gets[g].handle = w.handle BY DEF LoopOK
<1>3. w.handle \in Handles
  <2>1. w \in Watcher BY <1>1, LoopParts DEF Ws
  <2> QED BY <2>1 DEF Watcher
<1>4. PICK h \in Handles : h = w.handle BY <1>3
<1>5. L.conns[h].id # 0 BY <1>4 DEF LoopOK
<1>6. PICK C : C = cancelTimer(L, L.gets[g].timer) OBVIOUS
<1>7. /\ C \in LoopType /\ C.watchers = L.watchers /\ C.conns = L.conns /\ C.gets = L.gets
      /\ Later(L, C)
  BY <1>1, <1>6, CancelFields
<1>8. Ws(C) = Ws(L) /\ Apart(C) BY <1>1, <1>7 DEF Ws, Apart
<1>9. PICK U : U = unwatch(C, h) OBVIOUS
<1>10. /\ U \in LoopType /\ Apart(U) /\ Ws(U) = {x \in Ws(C) : x.handle # h}
       /\ U.timers = C.timers /\ U.conns = C.conns /\ U.gets = C.gets
  BY <1>7, <1>8, <1>9, UnwatchFields
<1>11. PICK E : E = Ends(U, g, "done") OBVIOUS
<1>12. /\ E \in LoopType /\ E.timers = U.timers /\ E.watchers = U.watchers /\ E.conns = U.conns
       /\ ~ Running(E, g) /\ \A k \in Gets : k # g => E.gets[k] = U.gets[k]
  <2>1. U \in LoopType /\ "done" \in {"done", "failed"} BY <1>10
  <2> QED BY <2>1, <1>11, EndsFields, ZenonT(60)
<1>13. Apart(E) /\ Ws(E) = {x \in Ws(L) : x.handle # h}
  <2>1. Apart(E) BY <1>10, <1>12 DEF Apart
  <2>2. Ws(E) = Ws(U) BY <1>12 DEF Ws
  <2> QED BY <2>1, <2>2, <1>8, <1>10
<1>14. \A k \in Gets : k # g => E.gets[k] = L.gets[k] BY <1>7, <1>10, <1>12
<1>15. \A k \in Gets : k # g /\ Running(L, k) => L.gets[k].handle # h
  BY <1>1, <1>2, <1>4, OwnHandles
<1>16. \A k \in Gets : Running(E, k) => k # g /\ Running(L, k) /\ E.gets[k].handle = L.gets[k].handle
  BY <1>12, <1>14 DEF Running
<1>17. \A k \in Gets : Running(L, k) /\ L.gets[k].handle # h => Running(E, k) /\ E.gets[k].handle = L.gets[k].handle
  <2> SUFFICES ASSUME NEW k \in Gets, Running(L, k), L.gets[k].handle # h
               PROVE  Running(E, k) /\ E.gets[k].handle = L.gets[k].handle
    OBVIOUS
  <2>1. k # g BY <1>2, <1>4
  <2> QED BY <2>1, <1>14 DEF Running
<1>18. E.conns = L.conns BY <1>7, <1>10, <1>12
<1>19. LoopOK(E) BY <1>12, <1>13, <1>15, <1>16, <1>17, <1>18, Released
<1>20. Unrequested(E, h) BY <1>5, <1>15, <1>16, <1>18 DEF Unrequested
<1>21. Later(L, E)
  <2>1. E.timers = C.timers BY <1>10, <1>12
  <2>2. Later(C, E) BY <2>1, SameTimers
  <2> QED BY <2>2, <1>7, LaterLater
<1>22. M \in CallbackOf(E)
  BY <1>2, <1>4, <1>6, <1>9, <1>11 DEF Response, Done, Running
<1>23. LoopOK(M) /\ Later(E, M) /\ Unrequested(M, h) BY <1>19, <1>20, <1>22, CallbackKeeps
<1> QED BY <1>4, <1>21, <1>23, LaterLater

\* A request that is given up: its watcher and its connection go.
LEMMA TimeoutKeeps ==
  ASSUME NEW L, LoopOK(L), NEW g \in Gets, NEW M \in Timeout(L, g)
  PROVE  LoopOK(M) /\ Later(L, M)
<1>1. CASE ~ Running(L, g)
  <2>1. M = L BY <1>1 DEF Timeout, Done, Running
  <2> QED BY <2>1, SameTimers
<1>2. CASE Running(L, g)
  <2>1. L \in LoopType /\ Apart(L) BY DEF LoopOK
  <2>2. PICK w \in Ws(L) : w.fn = g BY <1>2 DEF LoopOK
  <2>3. L.gets[g].handle = w.handle BY <2>2 DEF LoopOK
  <2>4. w \in Watcher BY <2>1, LoopParts DEF Ws
  <2>5. PICK h \in Handles : h = L.gets[g].handle BY <2>3, <2>4 DEF Watcher
  <2>6. PICK U : U = unwatch(L, h) OBVIOUS
  <2>7. /\ U \in LoopType /\ Apart(U) /\ Ws(U) = {x \in Ws(L) : x.handle # h}
        /\ U.timers = L.timers /\ U.conns = L.conns /\ U.gets = L.gets
    BY <2>1, <2>6, UnwatchFields
  <2>8. PICK C : C = stream_close_(U, h) OBVIOUS
  <2>9. /\ C \in LoopType /\ C.timers = U.timers /\ C.watchers = U.watchers /\ C.gets = U.gets
        /\ \A k \in Handles : k # h => C.conns[k] = U.conns[k]
    BY <2>7, <2>8, CloseFields
  <2>10. PICK E : E = Ends(C, g, "failed") OBVIOUS
  <2>11. /\ E \in LoopType /\ E.timers = C.timers /\ E.watchers = C.watchers /\ E.conns = C.conns
         /\ ~ Running(E, g) /\ \A k \in Gets : k # g => E.gets[k] = C.gets[k]
    BY <2>9, <2>10, EndsFields
  <2>12. Apart(E) /\ Ws(E) = {x \in Ws(L) : x.handle # h}
    <3>1. E.watchers = U.watchers BY <2>9, <2>11
    <3>2. Apart(E) BY <3>1, <2>7 DEF Apart
    <3>3. Ws(E) = Ws(U) BY <3>1 DEF Ws
    <3> QED BY <3>2, <3>3, <2>7
  <2>13. \A k \in Gets : k # g => E.gets[k] = L.gets[k] BY <2>7, <2>9, <2>11
  <2>14. \A k \in Gets : k # g /\ Running(L, k) => L.gets[k].handle # h
    BY <1>2, <2>5, OwnHandles
  <2>15. \A k \in Gets : Running(E, k) => Running(L, k) /\ L.gets[k].handle # h
    <3> SUFFICES ASSUME NEW k \in Gets, Running(E, k) PROVE Running(L, k) /\ L.gets[k].handle # h
      OBVIOUS
    <3>1. k # g BY <2>11
    <3>2. Running(L, k) BY <3>1, <2>13 DEF Running
    <3> QED BY <3>1, <3>2, <2>14
  <2>16. \A k \in Gets : Running(L, k) /\ L.gets[k].handle # h => Running(E, k) /\ E.gets[k].handle = L.gets[k].handle
    <3> SUFFICES ASSUME NEW k \in Gets, Running(L, k), L.gets[k].handle # h
                 PROVE  Running(E, k) /\ E.gets[k].handle = L.gets[k].handle
      OBVIOUS
    <3>1. k # g BY <2>5
    <3> QED BY <3>1, <2>13 DEF Running
  <2>17. \A k \in Handles : k # h => E.conns[k].id = L.conns[k].id BY <2>7, <2>9, <2>11
  <2>18. LoopOK(E) BY <2>11, <2>12, <2>15, <2>16, <2>17, Released
  <2>19. Later(L, E)
    <3>1. E.timers = L.timers BY <2>7, <2>9, <2>11
    <3> QED BY <3>1, SameTimers
  <2>20. M \in CallbackOf(E)
    BY <1>2, <2>5, <2>6, <2>8, <2>10 DEF Timeout, Done, Running
  <2> QED BY <2>18, <2>19, <2>20, CallbackKeeps, LaterLater
<1> QED BY <1>1, <1>2

\* A handle the program watches is of no request.
LEMMA UserUnrequested ==
  ASSUME NEW L, LoopOK(L), NEW w \in Ws(L), w.fn \notin Gets
  PROVE  w.handle \in Handles /\ Unrequested(L, w.handle)
<1>1. w \in Watcher BY LoopParts DEF LoopOK, Ws
<1>2. w.handle \in Handles BY <1>1 DEF Watcher
<1>3. L.conns[w.handle].id # 0 BY DEF LoopOK
<1>4. ASSUME NEW g \in Gets, Running(L, g), L.gets[g].handle = w.handle PROVE FALSE
  <2>1. PICK x \in Ws(L) : x.fn = g BY <1>4 DEF LoopOK
  <2>2. x.handle = w.handle BY <2>1, <1>4 DEF LoopOK
  <2>3. x = w BY <2>2 DEF LoopOK, Apart, Ws
  <2> QED BY <2>1, <2>3
<1> QED BY <1>2, <1>3, <1>4 DEF Unrequested

\* Rescheduling or unsetting a timer that was not cancelled before its callback.
LEMMA RescheduledKeeps ==
  ASSUME NEW K, NEW L, LoopOK(L), Later(K, L),
         NEW id \in DOMAIN K.timers, ~ K.timers[id].cancelled
  PROVE  LoopOK(Rescheduled(L, id)) /\ Kept(K, Rescheduled(L, id))
<1>1. L \in LoopType /\ L.timers \in Seq(TimerRecord) /\ id \in DOMAIN L.timers
  BY LoopParts DEF LoopOK, Later
<1>2. PICK M : M = Rescheduled(L, id) OBVIOUS
<1>3. /\ M \in LoopType /\ M.watchers = L.watchers /\ M.conns = L.conns /\ M.gets = L.gets
      /\ \A i \in DOMAIN L.timers : i # id => \E j \in DOMAIN M.timers : M.timers[j] = L.timers[i]
  <2>1. CASE ~ L.timers[id].every
    <3>1. M = UnsetTimer(L, id) BY <1>2, <2>1 DEF Rescheduled
    <3> QED BY <1>1, <3>1, UnsetFields
  <2>2. CASE L.timers[id].every
    <3>1. PICK t : t = [L.timers[id] EXCEPT !.due = FALSE] OBVIOUS
    <3>2. L.timers[id] \in TimerRecord BY <1>1
    <3>3. t \in TimerRecord BY <3>1, <3>2 DEF TimerRecord
    <3>4. PICK ts : ts = [L.timers EXCEPT ![id] = t] OBVIOUS
    <3>5. M = [L EXCEPT !.timers = ts] BY <1>2, <2>2, <3>1, <3>4 DEF Rescheduled
    <3>6. ts \in Seq(TimerRecord) /\ DOMAIN ts = DOMAIN L.timers
          /\ \A i \in DOMAIN L.timers : ts[i] = IF i = id THEN t ELSE L.timers[i]
      BY <1>1, <3>3, <3>4, TimerChange
    <3>7. /\ M \in LoopType /\ M.timers = ts /\ M.watchers = L.watchers /\ M.conns = L.conns
          /\ M.gets = L.gets
      BY <1>1, <3>5, <3>6 DEF LoopType
    <3> QED BY <3>6, <3>7
  <2> QED BY <2>1, <2>2
<1>4. LoopOK(M) BY <1>3, Untouched
<1>5. Kept(K, M)
  <2> SUFFICES ASSUME NEW i \in DOMAIN K.timers, K.timers[i].cancelled
               PROVE  \E j \in DOMAIN M.timers :
                        /\ M.timers[j].id = K.timers[i].id /\ M.timers[j].cancelled
                        /\ K.timers[i].due => M.timers[j].due
    BY DEF Kept
  <2>1. /\ i \in DOMAIN L.timers /\ i # id
        /\ L.timers[i].id = K.timers[i].id /\ L.timers[i].cancelled
        /\ K.timers[i].due => L.timers[i].due
    BY DEF Later
  <2>2. PICK j \in DOMAIN M.timers : M.timers[j] = L.timers[i] BY <1>3, <2>1
  <2> QED BY <2>1, <2>2
<1> QED BY <1>2, <1>4, <1>5

\* Changing a connection without changing which one it is.
LEMMA ConnKeeps ==
  ASSUME NEW L, LoopOK(L), NEW h \in Handles, NEW c \in Conn, c.id = L.conns[h].id
  PROVE  LET M == [L EXCEPT !.conns = [L.conns EXCEPT ![h] = c]]
         IN  /\ LoopOK(M) /\ Later(L, M) /\ M.watchers = L.watchers
             /\ \A k \in Handles : Unrequested(L, k) => Unrequested(M, k)
<1>1. L \in LoopType /\ L.conns \in [Handles -> Conn] BY LoopParts DEF LoopOK
<1>2. PICK d : d = [L.conns EXCEPT ![h] = c] OBVIOUS
<1>3. d \in [Handles -> Conn] /\ \A k \in Handles : d[k].id = L.conns[k].id BY <1>1, <1>2
<1>4. PICK M : M = [L EXCEPT !.conns = d] OBVIOUS
<1>5. /\ M \in LoopType /\ M.timers = L.timers /\ M.watchers = L.watchers /\ M.conns = d
      /\ M.gets = L.gets
  BY <1>1, <1>3, <1>4 DEF LoopType
<1>6. LoopOK(M) /\ \A k \in Handles : Unrequested(L, k) => Unrequested(M, k)
  BY <1>3, <1>5, Untouched
<1>7. Later(L, M) BY <1>5, SameTimers
<1> QED BY <1>2, <1>4, <1>5, <1>6, <1>7

\* The entry tick looks at is a watcher of the loop.
LEMMA EntryWatched ==
  ASSUME LoopInv, Visits
  PROVE  Entry1 \in Ws(loop) /\ Entry1.handle \in Handles
<1>1. loop.watchers \in Seq(Watcher) BY LoopParts DEF LoopInv, LoopOK
<1>2. pass.pos \in Nat /\ pass.pos >= 1 /\ pass.pos <= Len(loop.watchers)
  BY DEF LoopInv, PassOK, Visits
<1>3. pass.pos \in DOMAIN loop.watchers BY <1>1, <1>2
<1>4. Entry1 \in Watcher BY <1>1, <1>3 DEF Entry1
<1> QED BY <1>3, <1>4 DEF Entry1, Ws, Watcher

\* tick goes on to the next watcher.
LEMMA OnwardKeeps ==
  ASSUME LoopInv, Visits, Onward
  PROVE  PassOK(pass')
<1>1. pass' = [pass EXCEPT !.pos = pass.pos + 1] BY DEF Onward
<1> QED BY <1>1 DEF LoopInv, PassOK

\* What a step makes of the loop and of tick's place.
StepKeeps == LoopOK(loop') /\ Kept(loop, loop') /\ PassOK(pass')

\* A step that changes nothing in the loop.
LEMMA LoopSame ==
  ASSUME LoopInv, UNCHANGED loop, PassOK(pass')
  PROVE  StepKeeps
<1>1. LoopOK(loop') BY DEF LoopInv
<1>2. Later(loop, loop') BY SameTimers
<1> QED BY <1>1, <1>2, LaterKept DEF StepKeeps

\* tick collects the places of the timers that are due.
LEMMA StartTickKeeps ==
  ASSUME LoopInv, StartTick
  PROVE  StepKeeps
<1>1. loop.timers \in Seq(TimerRecord) BY LoopParts DEF LoopInv, LoopOK
<1>2. PICK D : D = {i \in DOMAIN loop.timers : loop.timers[i].due /\ ~ loop.timers[i].cancelled}
  OBVIOUS
<1>3. pass' = [pass EXCEPT !.at = "timers", !.due = D] BY <1>2 DEF StartTick
<1>4. D \in SUBSET Nat BY <1>1, <1>2
<1>5. PassOK(pass') BY <1>3, <1>4 DEF LoopInv, PassOK
<1> QED BY <1>5, LoopSame DEF StartTick

\* A place is taken off those to be done.
LEMMA TickedOffKeeps ==
  ASSUME LoopInv, TickedOff
  PROVE  PassOK(pass')
<1>1. PICK i : i = NextDue OBVIOUS
<1>2. pass' = [pass EXCEPT !.due = pass.due \ {i}] BY <1>1 DEF TickedOff
<1> QED BY <1>2 DEF LoopInv, PassOK

\* The timer in a place that was due runs.
LEMMA RunTimerKeeps ==
  ASSUME LoopInv, RunTimer
  PROVE  StepKeeps
<1>1. PICK id : id = NextDue OBVIOUS
<1>2. /\ loop.timers \in Seq(TimerRecord) /\ id \in DOMAIN loop.timers
      /\ ~ loop.timers[id].cancelled
  BY <1>1, LoopParts DEF LoopInv, LoopOK, RunTimer, Takes
<1>3. PICK L \in Fires(loop.timers[id]) : loop' = Rescheduled(L, id)
  BY <1>1 DEF RunTimer
<1>4. LoopOK(L) /\ Later(loop, L)
  <2>1. CASE loop.timers[id].fn = User BY <1>3, <2>1, CallbackKeeps DEF LoopInv, Fires
  <2>2. CASE loop.timers[id].fn # User
    <3>1. loop.timers[id].fn \in Gets
      <4>1. loop.timers[id] \in TimerRecord BY <1>2
      <4> QED BY <4>1, <2>2 DEF TimerRecord
    <3> QED BY <1>3, <2>2, <3>1, TimeoutKeeps DEF LoopInv, Fires
  <2> QED BY <2>1, <2>2
<1>5. LoopOK(loop') /\ Kept(loop, loop') BY <1>2, <1>3, <1>4, RescheduledKeeps
<1>6. PassOK(pass') BY TickedOffKeeps DEF RunTimer
<1> QED BY <1>5, <1>6 DEF StepKeeps

\* A timer that was cancelled is passed over.
LEMMA SkipTimerKeeps ==
  ASSUME LoopInv, SkipTimer
  PROVE  StepKeeps
BY TickedOffKeeps, LoopSame DEF SkipTimer

\* tick throws, or the program runs the loop again.
LEMMA ThrowKeeps ==
  ASSUME LoopInv, CallNull \/ RunAgain
  PROVE  StepKeeps
<1>1. PassOK(pass')
  <2>1. CASE CallNull
    <3>1. pass' = [at |-> "thrown", due |-> {}, ready |-> {}, pos |-> 0]
      BY <2>1 DEF CallNull, Between
    <3> QED BY <3>1 DEF PassOK
  <2>2. CASE RunAgain BY <2>2 DEF RunAgain, Between, PassOK
  <2> QED BY <2>1, <2>2
<1> QED BY <1>1, LoopSame DEF CallNull, RunAgain

\* tick asks which sockets are ready.
LEMMA PollKeeps ==
  ASSUME LoopInv, Poll
  PROVE  StepKeeps
<1>1. PICK R : R = Readable(loop) \cap {loop.watchers[i].handle : i \in DOMAIN loop.watchers} OBVIOUS
<1>2. R \subseteq Handles BY <1>1 DEF Readable
<1>3. pass' = [at |-> "sockets", due |-> {}, pos |-> 1, ready |-> R] BY <1>1 DEF Poll
<1>4. PassOK(pass') BY <1>2, <1>3 DEF PassOK
<1> QED BY <1>4, LoopSame DEF Poll

\* tick ends.
LEMMA EndTickKeeps ==
  ASSUME LoopInv, EndTick
  PROVE  StepKeeps
<1>1. PassOK(pass') BY DEF EndTick, Between, PassOK
<1> QED BY <1>1, LoopSame DEF EndTick

\* A watcher that is not ready is passed over.
LEMMA PassKeeps ==
  ASSUME LoopInv, Pass
  PROVE  StepKeeps
<1>1. LoopOK(loop') BY DEF LoopInv, Pass
<1>2. Later(loop, loop') BY SameTimers DEF Pass
<1>3. PassOK(pass') BY OnwardKeeps DEF Pass
<1> QED BY <1>1, <1>2, <1>3, LaterKept DEF StepKeeps

\* Data is read; a callback of the program may stop watching the socket and close it.
LEMMA DrainKeeps ==
  ASSUME LoopInv, Drain
  PROVE  StepKeeps
<1>1. Visits /\ Onward BY DEF Drain
<1>2. PICK w \in Ws(loop) : w = Entry1 /\ w.handle \in Handles BY <1>1, EntryWatched
<1>3. PICK c : c = [loop.conns[w.handle] EXCEPT !.data = FALSE] OBVIOUS
<1>4. c \in Conn /\ c.id = loop.conns[w.handle].id
  <2>1. loop.conns[w.handle] \in Conn BY <1>2, LoopParts DEF LoopInv, LoopOK
  <2> QED BY <2>1, <1>3 DEF Conn
<1>5. PICK L : L = [loop EXCEPT !.conns = [loop.conns EXCEPT ![w.handle] = c]] OBVIOUS
<1>6. /\ LoopOK(L) /\ Later(loop, L)
      /\ \A k \in Handles : Unrequested(loop, k) => Unrequested(L, k)
  BY <1>2, <1>4, <1>5, ConnKeeps DEF LoopInv
<1>7. loop' \in IF w.fn # User THEN {L}
                ELSE CallbackOf(L) \cup {stream_close_(unwatch(L, w.handle), w.handle)}
  BY <1>2, <1>3, <1>5 DEF Drain
<1>8. LoopOK(loop') /\ Later(L, loop')
  <2>1. CASE loop' = L BY <2>1, <1>6, SameTimers
  <2>2. CASE loop' \in CallbackOf(L) BY <2>2, <1>6, CallbackKeeps
  <2>3. CASE w.fn = User /\ loop' = stream_close_(unwatch(L, w.handle), w.handle)
    <3>1. w.fn \notin Gets BY <2>3, LoopAssumption DEF User
    <3>2. Unrequested(L, w.handle) BY <3>1, <1>2, <1>6, UserUnrequested DEF LoopInv
    <3> QED BY <2>3, <3>2, <1>2, <1>6, CloseKeeps
  <2> QED BY <1>7, <2>1, <2>2, <2>3
<1>9. Later(loop, loop') BY <1>6, <1>8, LaterLater
<1>10. PassOK(pass') BY <1>1, OnwardKeeps
<1> QED BY <1>8, <1>9, <1>10, LaterKept DEF StepKeeps

\* A socket has ended: after the callback the handle is released and closed.
LEMMA DeliverEndKeeps ==
  ASSUME SelfClosing = FALSE, LoopInv, DeliverEnd
  PROVE  StepKeeps
<1>1. Visits /\ Onward BY DEF DeliverEnd
<1>2. PICK w \in Ws(loop) : w = Entry1 /\ w.handle \in Handles BY <1>1, EntryWatched
<1>3. PICK L \in AfterEnd(loop, w) : loop' = stream_close_(unwatch(L, w.handle), w.handle)
  BY <1>2 DEF DeliverEnd
<1>4. LoopOK(L) /\ Later(loop, L) /\ Unrequested(L, w.handle)
  <2>1. CASE w.fn = User
    <3>1. L \in CallbackOf(loop) BY <1>3, <2>1 DEF AfterEnd
    <3>2. w.fn \notin Gets BY <2>1, LoopAssumption DEF User
    <3>3. Unrequested(loop, w.handle) BY <3>2, UserUnrequested DEF LoopInv
    <3> QED BY <3>1, <3>3, <1>2, CallbackKeeps DEF LoopInv
  <2>2. CASE w.fn # User
    <3>1. w \in Watcher BY LoopParts DEF LoopInv, LoopOK, Ws
    <3>2. w.fn \in Gets BY <3>1, <2>2 DEF Watcher
    <3>3. L \in Response(loop, w.fn) BY <1>3, <2>2 DEF AfterEnd
    <3> QED BY <3>2, <3>3, ResponseKeeps DEF LoopInv
  <2> QED BY <2>1, <2>2
<1>5. LoopOK(loop') /\ Later(L, loop') BY <1>2, <1>3, <1>4, CloseKeeps
<1>6. Later(loop, loop') BY <1>4, <1>5, LaterLater
<1>7. PassOK(pass') BY <1>1, OnwardKeeps
<1> QED BY <1>5, <1>6, <1>7, LaterKept DEF StepKeeps

\* A step outside the passes, or of a callback that accepts, leaves tick where it is.
LEMMA PassStays ==
  ASSUME LoopInv, LoopOK(loop'), Later(loop, loop'), UNCHANGED pass
  PROVE  StepKeeps
BY LaterKept DEF LoopInv, StepKeeps

\* A connection is accepted.
LEMMA AcceptStepKeeps ==
  ASSUME LoopInv, Accept
  PROVE  StepKeeps
<1>1. PICK W : W = watch(Connect(loop), NewHandle(loop), User) OBVIOUS
<1>2. LoopOK(W) /\ Later(loop, W) BY <1>1, AcceptKeeps DEF LoopInv, Accept
<1>3. loop' \in CallbackOf(W) BY <1>1 DEF Accept
<1>4. LoopOK(loop') /\ Later(W, loop') BY <1>2, <1>3, CallbackKeeps
<1>5. Later(loop, loop') BY <1>2, <1>4, LaterLater
<1> QED BY <1>4, <1>5, PassStays DEF Accept

\* The program starts a request.
LEMMA BeginKeeps ==
  ASSUME LoopInv, Begin
  PROVE  StepKeeps
<1>1. PICK g \in Gets : loop.gets[g].state = "new" /\ CanConnect(loop) /\ loop' = httpGet(loop, g)
  BY DEF Begin
<1>2. LoopOK(loop') /\ Later(loop, loop') BY <1>1, HttpGetKeeps DEF LoopInv
<1> QED BY <1>2, PassStays DEF Begin

\* The other end of a connection sends or ends.
LEMMA PeerActsKeeps ==
  ASSUME LoopInv, PeerActs
  PROVE  StepKeeps
<1>1. PICK h \in Handles :
        \/ loop' = [loop EXCEPT !.conns[h].data = TRUE]
        \/ loop' = [loop EXCEPT !.conns[h].over = TRUE]
  BY DEF PeerActs
<1>2. loop.conns[h] \in Conn BY LoopParts DEF LoopInv, LoopOK
<1>3. PICK c \in Conn : c.id = loop.conns[h].id
        /\ loop' = [loop EXCEPT !.conns = [loop.conns EXCEPT ![h] = c]]
  <2>1. CASE loop' = [loop EXCEPT !.conns[h].data = TRUE]
    <3>1. PICK c : c = [loop.conns[h] EXCEPT !.data = TRUE] OBVIOUS
    <3>2. c \in Conn /\ c.id = loop.conns[h].id BY <1>2, <3>1 DEF Conn
    <3>3. loop' = [loop EXCEPT !.conns = [loop.conns EXCEPT ![h] = c]] BY <2>1, <3>1
    <3> QED BY <3>2, <3>3
  <2>2. CASE loop' = [loop EXCEPT !.conns[h].over = TRUE]
    <3>1. PICK c : c = [loop.conns[h] EXCEPT !.over = TRUE] OBVIOUS
    <3>2. c \in Conn /\ c.id = loop.conns[h].id BY <1>2, <3>1 DEF Conn
    <3>3. loop' = [loop EXCEPT !.conns = [loop.conns EXCEPT ![h] = c]] BY <2>2, <3>1
    <3> QED BY <3>2, <3>3
  <2> QED BY <1>1, <2>1, <2>2
<1>4. LoopOK(loop') /\ Later(loop, loop') BY <1>3, ConnKeeps DEF LoopInv
<1> QED BY <1>4, PassStays DEF PeerActs

\* A timer becomes due.
LEMMA TimePassesKeeps ==
  ASSUME LoopInv, NEW id, TimePasses(id)
  PROVE  StepKeeps
<1>1. PICK at \in DOMAIN loop.timers : loop' = [loop EXCEPT !.timers[at].due = TRUE]
  BY DEF TimePasses
<1>2. PICK t : t = [loop.timers[at] EXCEPT !.due = TRUE] OBVIOUS
<1>3. /\ loop.timers \in Seq(TimerRecord) /\ t \in TimerRecord /\ t.due
      /\ t.id = loop.timers[at].id /\ t.cancelled = loop.timers[at].cancelled
  <2>1. loop.timers \in Seq(TimerRecord) BY LoopParts DEF LoopInv, LoopOK
  <2>2. loop.timers[at] \in TimerRecord BY <2>1
  <2> QED BY <2>1, <2>2, <1>2 DEF TimerRecord
<1>4. PICK ts : ts = [loop.timers EXCEPT ![at] = t] OBVIOUS
<1>5. ts \in Seq(TimerRecord) /\ DOMAIN ts = DOMAIN loop.timers
      /\ \A i \in DOMAIN loop.timers : ts[i] = IF i = at THEN t ELSE loop.timers[i]
  BY <1>3, <1>4, TimerChange
<1>6. PICK M : M = [loop EXCEPT !.timers = ts] OBVIOUS
<1>7. loop' = M BY <1>1, <1>2, <1>4, <1>6
<1>8. /\ M \in LoopType /\ M.timers = ts /\ M.watchers = loop.watchers /\ M.conns = loop.conns
      /\ M.gets = loop.gets
  BY <1>5, <1>6 DEF LoopInv, LoopOK, LoopType
<1>9. LoopOK(M) BY <1>8, Untouched DEF LoopInv
<1>10. Later(loop, M) BY <1>3, <1>5, <1>8 DEF Later
<1> QED BY <1>7, <1>9, <1>10, PassStays DEF TimePasses

\* Every step keeps the invariant, and no cancelled timer is touched.
LEMMA LoopStep ==
  ASSUME SelfClosing = FALSE, LoopInv, [LoopNext]_loopVars
  PROVE  StepKeeps
<1>1. CASE TickStep
  BY <1>1, StartTickKeeps, RunTimerKeeps, SkipTimerKeeps, ThrowKeeps, PollKeeps, PassKeeps, DrainKeeps,
     DeliverEndKeeps, EndTickKeeps DEF TickStep
<1>2. CASE Accept BY <1>2, AcceptStepKeeps
<1>3. CASE Begin BY <1>3, BeginKeeps
<1>4. CASE PeerActs BY <1>4, PeerActsKeeps
<1>5. CASE \E id \in TimerIds : TimePasses(id) BY <1>5, TimePassesKeeps
<1>6. CASE RunAgain BY <1>6, ThrowKeeps
<1>7. CASE UNCHANGED loopVars
  <2>1. PassOK(pass') BY <1>7 DEF LoopInv, loopVars
  <2> QED BY <2>1, <1>7, LoopSame DEF loopVars
<1> QED BY <1>1, <1>2, <1>3, <1>4, <1>5, <1>6, <1>7 DEF LoopNext

\* The loop starts in order: nothing is watched, no request runs.
LEMMA LoopStarts ==
  ASSUME LoopInit
  PROVE  LoopInv
<1>1. PICK every \in BOOLEAN :
        loop = [timers |-> <<Timer(1, User, every), Timer(2, User, FALSE)>>, timerSeq |-> 2, watchers |-> <<>>,
                conns |-> [h \in Handles |-> NoConn],
                gets |-> [g \in Gets |-> [state |-> "new", handle |-> 0, timer |-> 0]],
                made |-> 0]
  BY DEF LoopInit
<1>2. Timer(1, User, every) \in TimerRecord /\ Timer(2, User, FALSE) \in TimerRecord
  BY DEF Timer, TimerRecord
<1>3. PICK ts : ts = <<Timer(1, User, every), Timer(2, User, FALSE)>> OBVIOUS
<1>4. ts \in Seq(TimerRecord)
  <2>1. \A a, b \in TimerRecord : <<a, b>> \in Seq(TimerRecord) OBVIOUS
  <2> QED BY ONLY <2>1, <1>2, <1>3, Zenon
<1>5. PICK gs : gs = [g \in Gets |-> [state |-> "new", handle |-> 0, timer |-> 0]] OBVIOUS
<1>6. gs \in [Gets -> Get] /\ \A g \in Gets : gs[g].state = "new" BY <1>5 DEF Get
<1>7. PICK cs : cs = [h \in Handles |-> NoConn] OBVIOUS
<1>8. cs \in [Handles -> Conn] BY <1>7 DEF NoConn, Conn
<1>9. loop = [timers |-> ts, timerSeq |-> 2, watchers |-> <<>>, conns |-> cs, gets |-> gs, made |-> 0]
  BY <1>1, <1>3, <1>5, <1>7
<1>10. loop \in LoopType BY <1>4, <1>6, <1>8, <1>9 DEF LoopType
<1>11. Ws(loop) = {} /\ Apart(loop) BY <1>9 DEF Ws, Apart
<1>12. \A g \in Gets : ~ Running(loop, g) BY <1>6, <1>9 DEF Running
<1>13. LoopOK(loop) BY <1>10, <1>11, <1>12 DEF LoopOK
<1>14. PassOK(pass) BY DEF LoopInit, Between, PassOK
<1> QED BY <1>13, <1>14 DEF LoopInv

\* The invariant says what WatchersLive says.
LEMMA LoopInvLive ==
  ASSUME LoopInv
  PROVE  WatchersLive
<1>1. \A i \in DOMAIN loop.watchers : loop.watchers[i] \in Ws(loop) BY DEF Ws
<1>2. \A w \in Ws(loop) : \E i \in DOMAIN loop.watchers : loop.watchers[i] = w BY DEF Ws
<1>3. \A i \in DOMAIN loop.watchers :
        loop.watchers[i].conn # 0 /\ loop.conns[loop.watchers[i].handle].id = loop.watchers[i].conn
  BY <1>1 DEF LoopInv, LoopOK
<1>4. \A g \in Gets : Running(loop, g) => \E i \in DOMAIN loop.watchers : loop.watchers[i].fn = g
  BY <1>2 DEF LoopInv, LoopOK
<1> QED BY <1>3, <1>4 DEF WatchersLive, Running

\* Every watched handle is open and is the connection it was watched for, and a request that
\* runs is watched (watch, unwatch and tick's callback, unwatch, close).
THEOREM WatchersStayLive == LoopSpec /\ SelfClosing = FALSE => []WatchersLive
<1> SUFFICES ASSUME SelfClosing = FALSE PROVE LoopSpec => []WatchersLive
  OBVIOUS
<1>1. LoopInit => LoopInv BY LoopStarts
<1>2. LoopInv /\ [LoopNext]_loopVars => LoopInv'
  BY LoopStep DEF StepKeeps, LoopInv
<1>3. LoopInv => WatchersLive BY LoopInvLive
<1> QED BY <1>1, <1>2, <1>3, PTL DEF LoopSpec

\* A timer whose flag is set is not run, set anew or unset, wherever in the list it stands and
\* although it was due and collected before the callback that set the flag.
THEOREM CancelledTimersSilent == LoopSpec /\ SelfClosing = FALSE => CancelledSilent
<1> SUFFICES ASSUME SelfClosing = FALSE PROVE LoopSpec => CancelledSilent
  OBVIOUS
<1>1. LoopInit => LoopInv BY LoopStarts
<1>2. LoopInv /\ [LoopNext]_loopVars => LoopInv'
  BY LoopStep DEF StepKeeps, LoopInv
<1>3. ASSUME LoopInv, [LoopNext]_loopVars
      PROVE  [\A i \in DOMAIN loop.timers : loop.timers[i].cancelled =>
                \E j \in DOMAIN loop'.timers :
                  /\ loop'.timers[j].id = loop.timers[i].id /\ loop'.timers[j].cancelled
                  /\ loop.timers[i].due => loop'.timers[j].due]_loopVars
  <2>1. Kept(loop, loop') BY <1>3, LoopStep DEF StepKeeps
  <2> QED BY <2>1 DEF Kept
<1> QED BY <1>1, <1>2, <1>3, PTL DEF LoopSpec, CancelledSilent

(***************************************************************************)
(* A stage of a conversation: what the client says in all, how much of its *)
(* story the program has heard, the state and the fragments the server     *)
(* keeps, and the frames that are still to be worked off.                  *)
(***************************************************************************)
TwoTexts == <<<<1>>, <<2>>>>
CutText == <<<<1, 1>>, <<2>>>>
Stage(said, heard, state, frags, rest) ==
  [said |-> said, heard |-> heard, state |-> state, frags |-> frags, rest |-> rest]

Stages ==
  {Stage(<<>>, 0, 0, <<>>, <<BadRequest>>),
   Stage(TwoTexts, 0, 0, <<>>, <<Upgrade, Text(1), Text(2), CloseFrame>>),
   Stage(TwoTexts, 1, 1, <<>>, <<Text(1), Text(2), CloseFrame>>),
   Stage(TwoTexts, 2, 1, <<>>, <<Text(2), CloseFrame>>),
   Stage(TwoTexts, 3, 1, <<>>, <<CloseFrame>>),
   Stage(CutText, 0, 0, <<>>, <<Upgrade, Begun(1), Ping, Rest(1), Text(2)>>),
   Stage(CutText, 1, 1, <<>>, <<Begun(1), Ping, Rest(1), Text(2)>>),
   Stage(CutText, 1, 1, <<1>>, <<Ping, Rest(1), Text(2)>>),
   Stage(CutText, 1, 1, <<1>>, <<Rest(1), Text(2)>>),
   Stage(CutText, 2, 1, <<>>, <<Text(2)>>),
   Stage(CutText, 3, 1, <<>>, <<>>)}

Frame ==
  {Upgrade, BadRequest, Ping, CloseFrame, Text(1), Text(2), Begun(1), Rest(1)}
OpenEvent == <<"onOpen">>
CloseEvent == <<"onClose">>
Message(m) == <<"onMessage", m>>
Event == {OpenEvent, CloseEvent} \cup {Message(m) : m \in Seq(Nat)}

Client == [sock : Int, state : Int, bufs : Seq(Frame), frags : Seq(Nat), wire : Seq(Frame),
           over : BOOLEAN, left : Seq(Frame), said : Seq(Seq(Nat))]

Heard(st) == SubSeq(Story(st.said), 1, st.heard)

\* The inductive invariant.  A client c that is connected is at a stage: what is buffered, on
\* the wire and still to be written are the frames that stage has left, and the calls k are
\* those it has had.  One that is gone was at some stage when it went.
Talks(c, k, st) ==
  /\ c.sock # Gone1 /\ c.state = st.state /\ c.frags = st.frags
  /\ c.bufs \o (c.wire \o c.left) = st.rest
  /\ k = Heard(st)
HasGone(c, k, st) == c.sock = Gone1 /\ c.state = Gone1 /\ k = Append(Heard(st), CloseEvent)
ClientOK(c, k) ==
  /\ c \in Client /\ k \in Seq(Event)
  /\ \E st \in Stages : c.said = st.said /\ (Talks(c, k, st) \/ HasGone(c, k, st))

WorldOK(W) ==
  /\ W \in [clients : Seq(Client), calls : Seq(Seq(Event))]
  /\ Len(W.clients) = Len(W.calls)
  /\ \A id \in DOMAIN W.clients : ClientOK(W.clients[id], W.calls[id])

ServerOK(s, W) ==
  /\ s \in [at : {"ready", "reads", "consume"}, ready : SUBSET (Int \ {Gone1}), id : Nat]
  /\ s.at = "consume" =>
       /\ s.id \in DOMAIN W.clients
       /\ W.clients[s.id].state = 0 => W.clients[s.id].bufs # <<>>

WsInv == WorldOK(World) /\ ServerOK(server, World)

\* From W to V clients only go, and their number stays.
Goes1(W, V) ==
  /\ DOMAIN V.clients = DOMAIN W.clients
  /\ \A id \in DOMAIN W.clients : V.clients[id] = W.clients[id] \/ V.clients[id].state = Gone1

(***************************************************************************)
(* Frames and stages.                                                      *)
(***************************************************************************)
\* What a frame is.
LEMMA FrameFacts ==
  /\ Text(1)[1] = 1 /\ Text(1)[2] = TRUE /\ Text(1)[3] = <<1>>
  /\ Text(2)[1] = 1 /\ Text(2)[2] = TRUE /\ Text(2)[3] = <<2>>
  /\ Begun(1)[1] = 1 /\ Begun(1)[2] = FALSE /\ Begun(1)[3] = <<1>>
  /\ Rest(1)[1] = 0 /\ Rest(1)[2] = TRUE /\ Rest(1)[3] = <<1>>
  /\ Ping[1] = 9 /\ CloseFrame[1] = 8 /\ Upgrade[1] = 16 /\ BadRequest[1] = 17
BY DEF Text, Begun, Rest, Ping, CloseFrame, Upgrade, BadRequest

\* Payloads are texts.
LEMMA Payloads ==
  ASSUME NEW f \in Frame
  PROVE  f[3] \in Seq(Nat)
<1>1. <<>> \in Seq(Nat) /\ <<1>> \in Seq(Nat) /\ <<2>> \in Seq(Nat) OBVIOUS
<1>2. Upgrade[3] = <<>> /\ BadRequest[3] = <<>> /\ Ping[3] = <<>> /\ CloseFrame[3] = <<>>
  BY DEF Upgrade, BadRequest, Ping, CloseFrame
<1>3. Text(1)[3] \in Seq(Nat) /\ Text(2)[3] \in Seq(Nat) BY <1>1, FrameFacts, Zenon
<1>4. Begun(1)[3] \in Seq(Nat) /\ Rest(1)[3] \in Seq(Nat) BY <1>1, FrameFacts, Zenon
<1>5. \A g \in {Upgrade, BadRequest, Ping, CloseFrame} : g[3] \in Seq(Nat) BY <1>1, <1>2, Zenon
<1> QED BY <1>3, <1>4, <1>5, ZenonT(60) DEF Frame

\* Every stage's first frame and the frames behind it.
LEMMA Tails ==
  /\ <<BadRequest>>[1] = BadRequest /\ Tail(<<BadRequest>>) = <<>>
  /\ <<Upgrade, Text(1), Text(2), CloseFrame>>[1] = Upgrade /\ Tail(<<Upgrade, Text(1), Text(2), CloseFrame>>) = <<Text(1), Text(2), CloseFrame>>
  /\ <<Text(1), Text(2), CloseFrame>>[1] = Text(1) /\ Tail(<<Text(1), Text(2), CloseFrame>>) = <<Text(2), CloseFrame>>
  /\ <<Text(2), CloseFrame>>[1] = Text(2) /\ Tail(<<Text(2), CloseFrame>>) = <<CloseFrame>>
  /\ <<CloseFrame>>[1] = CloseFrame /\ Tail(<<CloseFrame>>) = <<>>
  /\ <<Upgrade, Begun(1), Ping, Rest(1), Text(2)>>[1] = Upgrade /\ Tail(<<Upgrade, Begun(1), Ping, Rest(1), Text(2)>>) = <<Begun(1), Ping, Rest(1), Text(2)>>
  /\ <<Begun(1), Ping, Rest(1), Text(2)>>[1] = Begun(1) /\ Tail(<<Begun(1), Ping, Rest(1), Text(2)>>) = <<Ping, Rest(1), Text(2)>>
  /\ <<Ping, Rest(1), Text(2)>>[1] = Ping /\ Tail(<<Ping, Rest(1), Text(2)>>) = <<Rest(1), Text(2)>>
  /\ <<Rest(1), Text(2)>>[1] = Rest(1) /\ Tail(<<Rest(1), Text(2)>>) = <<Text(2)>>
  /\ <<Text(2)>>[1] = Text(2) /\ Tail(<<Text(2)>>) = <<>>
<1>1. <<BadRequest>>[1] = BadRequest /\ Tail(<<BadRequest>>) = <<>> OBVIOUS
<1>2. <<Upgrade, Text(1), Text(2), CloseFrame>>[1] = Upgrade /\ Tail(<<Upgrade, Text(1), Text(2), CloseFrame>>) = <<Text(1), Text(2), CloseFrame>> OBVIOUS
<1>3. <<Text(1), Text(2), CloseFrame>>[1] = Text(1) /\ Tail(<<Text(1), Text(2), CloseFrame>>) = <<Text(2), CloseFrame>> OBVIOUS
<1>4. <<Text(2), CloseFrame>>[1] = Text(2) /\ Tail(<<Text(2), CloseFrame>>) = <<CloseFrame>> OBVIOUS
<1>5. <<CloseFrame>>[1] = CloseFrame /\ Tail(<<CloseFrame>>) = <<>> OBVIOUS
<1>6. <<Upgrade, Begun(1), Ping, Rest(1), Text(2)>>[1] = Upgrade /\ Tail(<<Upgrade, Begun(1), Ping, Rest(1), Text(2)>>) = <<Begun(1), Ping, Rest(1), Text(2)>> OBVIOUS
<1>7. <<Begun(1), Ping, Rest(1), Text(2)>>[1] = Begun(1) /\ Tail(<<Begun(1), Ping, Rest(1), Text(2)>>) = <<Ping, Rest(1), Text(2)>> OBVIOUS
<1>8. <<Ping, Rest(1), Text(2)>>[1] = Ping /\ Tail(<<Ping, Rest(1), Text(2)>>) = <<Rest(1), Text(2)>> OBVIOUS
<1>9. <<Rest(1), Text(2)>>[1] = Rest(1) /\ Tail(<<Rest(1), Text(2)>>) = <<Text(2)>> OBVIOUS
<1>10. <<Text(2)>>[1] = Text(2) /\ Tail(<<Text(2)>>) = <<>> OBVIOUS
<1> QED BY <1>1, <1>2, <1>3, <1>4, <1>5, <1>6, <1>7, <1>8, <1>9, <1>10, Zenon

\* The two fragments make the text.
LEMMA Fragments == <<1>> \o <<1>> = <<1, 1>>
<1>1. <<1>> \in Seq(Nat) /\ <<1, 1>> \in Seq(Nat) OBVIOUS
<1>2. <<1>> \o <<1>> \in Seq(Nat) /\ Len(<<1>> \o <<1>>) = 2
      /\ \A i \in 1..2 : (<<1>> \o <<1>>)[i] = IF i <= 1 THEN <<1>>[i] ELSE <<1>>[i - 1]
  BY <1>1, ConcatProperties
<1>3. \A i \in 1..2 : (<<1>> \o <<1>>)[i] = <<1, 1>>[i] BY <1>2
<1> QED BY <1>1, <1>2, <1>3, SeqEqual

\* The fields of a stage.
IsStage(st, said, heard, state, frags, rest) ==
  st.said = said /\ st.heard = heard /\ st.state = state /\ st.frags = frags /\ st.rest = rest

\* The stages, one by one.
LEMMA StageCases ==
  ASSUME NEW st \in Stages
  PROVE  \/ IsStage(st, <<>>, 0, 0, <<>>, <<BadRequest>>)
         \/ IsStage(st, TwoTexts, 0, 0, <<>>, <<Upgrade, Text(1), Text(2), CloseFrame>>)
         \/ IsStage(st, TwoTexts, 1, 1, <<>>, <<Text(1), Text(2), CloseFrame>>)
         \/ IsStage(st, TwoTexts, 2, 1, <<>>, <<Text(2), CloseFrame>>)
         \/ IsStage(st, TwoTexts, 3, 1, <<>>, <<CloseFrame>>)
         \/ IsStage(st, CutText, 0, 0, <<>>, <<Upgrade, Begun(1), Ping, Rest(1), Text(2)>>)
         \/ IsStage(st, CutText, 1, 1, <<>>, <<Begun(1), Ping, Rest(1), Text(2)>>)
         \/ IsStage(st, CutText, 1, 1, <<1>>, <<Ping, Rest(1), Text(2)>>)
         \/ IsStage(st, CutText, 1, 1, <<1>>, <<Rest(1), Text(2)>>)
         \/ IsStage(st, CutText, 2, 1, <<>>, <<Text(2)>>)
         \/ IsStage(st, CutText, 3, 1, <<>>, <<>>)
BY DEF Stages, Stage, IsStage

\* The frames to come are frames.
LEMMA FrameSeqs ==
  /\ <<>> \in Seq(Frame)
  /\ <<BadRequest>> \in Seq(Frame)
  /\ <<Upgrade, Text(1), Text(2), CloseFrame>> \in Seq(Frame)
  /\ <<Text(1), Text(2), CloseFrame>> \in Seq(Frame)
  /\ <<Text(2), CloseFrame>> \in Seq(Frame)
  /\ <<CloseFrame>> \in Seq(Frame)
  /\ <<Upgrade, Begun(1), Ping, Rest(1), Text(2)>> \in Seq(Frame)
  /\ <<Begun(1), Ping, Rest(1), Text(2)>> \in Seq(Frame)
  /\ <<Ping, Rest(1), Text(2)>> \in Seq(Frame)
  /\ <<Rest(1), Text(2)>> \in Seq(Frame)
  /\ <<Text(2)>> \in Seq(Frame)
<1>1. /\ Upgrade \in Frame /\ BadRequest \in Frame /\ Ping \in Frame /\ CloseFrame \in Frame
      /\ Text(1) \in Frame /\ Text(2) \in Frame /\ Begun(1) \in Frame /\ Rest(1) \in Frame
  BY DEF Frame
<1> HIDE DEF Frame
<1>2. /\ \A a \in Frame : <<a>> \in Seq(Frame)
      /\ \A a, b \in Frame : <<a, b>> \in Seq(Frame)
      /\ \A a, b, c \in Frame : <<a, b, c>> \in Seq(Frame)
      /\ \A a, b, c, d \in Frame : <<a, b, c, d>> \in Seq(Frame)
      /\ \A a, b, c, d, e \in Frame : <<a, b, c, d, e>> \in Seq(Frame)
  OBVIOUS
<1>3. <<>> \in Seq(Frame) OBVIOUS
<1> QED BY <1>1, <1>2, <1>3, Zenon

\* The members of Stages have their types.
LEMMA StageTypes ==
  ASSUME NEW st \in Stages
  PROVE  /\ st.said \in {<<>>, TwoTexts, CutText} /\ st.heard \in 0..3
         /\ st.heard <= Len(st.said) + 1
         /\ st.state \in {0, 1} /\ st.frags \in {<<>>, <<1>>}
         /\ st.rest \in Seq(Frame)
<1>1. Len(<<>>) = 0 /\ Len(TwoTexts) = 2 /\ Len(CutText) = 2 BY DEF TwoTexts, CutText
<1>2. st.rest \in Seq(Frame) BY StageCases, FrameSeqs, Zenon DEF IsStage
<1>3. /\ st.said \in {<<>>, TwoTexts, CutText} /\ st.frags \in {<<>>, <<1>>} /\ st.state \in {0, 1}
      /\ st.heard \in {0, 1, 2, 3}
  BY StageCases, Zenon DEF IsStage
<1>5. (st.said = <<>> /\ st.heard = 0) \/ st.said \in {TwoTexts, CutText}
  BY StageCases, Zenon DEF IsStage
<1>4. st.heard \in 0..3 /\ st.heard <= Len(st.said) + 1
  <2>1. CASE st.said = <<>> /\ st.heard = 0
    <3>1. Len(st.said) = 0 BY <2>1, <1>1, Zenon
    <3>2. 0 \in 0..3 /\ 0 <= 0 + 1 OBVIOUS
    <3> QED BY <2>1, <3>1, <3>2
  <2>2. CASE st.said \in {TwoTexts, CutText}
    <3>1. Len(st.said) = 2 BY <2>2, <1>1, Zenon
    <3>2. \A h \in {0, 1, 2, 3} : h \in 0..3 /\ h <= 2 + 1 OBVIOUS
    <3> QED BY <1>3, <3>1, <3>2, Zenon
  <2> QED BY <2>1, <2>2, <1>5
<1> QED BY <1>2, <1>3, <1>4, Zenon

\* A story is the opening and the messages.
LEMMA StoryFacts ==
  ASSUME NEW s \in Seq(Seq(Nat))
  PROVE  /\ Story(s) \in Seq(Event) /\ Len(Story(s)) = Len(s) + 1
         /\ Story(s)[1] = OpenEvent
         /\ \A i \in 1..Len(s) : Story(s)[i + 1] = Message(s[i])
<1> DEFINE t == [i \in DOMAIN s |-> <<"onMessage", s[i]>>]
<1>1. t \in Seq(Event) /\ Len(t) = Len(s) /\ \A i \in 1..Len(s) : t[i] = Message(s[i])
  <2>1. PICK n \in Nat : n = Len(s) OBVIOUS
  <2>2. DOMAIN s = 1..n /\ \A i \in 1..n : s[i] \in Seq(Nat) BY <2>1
  <2>3. t = [i \in 1..n |-> Message(s[i])] BY <2>2 DEF Message
  <2>4. \A i \in 1..n : Message(s[i]) \in Event BY <2>2 DEF Event
  <2> HIDE DEF t
  <2>5. t \in [1..n -> Event] BY <2>3, <2>4
  <2>6. t \in Seq(Event) /\ Len(t) = n BY <2>5
  <2> QED BY <2>1, <2>3, <2>6
<1>2. <<OpenEvent>> \in Seq(Event) /\ Len(<<OpenEvent>>) = 1 BY DEF Event
<1>3. Story(s) = <<OpenEvent>> \o t BY DEF Story, OpenEvent
<1> HIDE DEF t
<1>4. /\ Story(s) \in Seq(Event) /\ Len(Story(s)) = Len(s) + 1
      /\ \A i \in 1..(Len(s) + 1) : Story(s)[i] = IF i <= 1 THEN <<OpenEvent>>[i] ELSE t[i - 1]
  BY <1>1, <1>2, <1>3, ConcatProperties
<1>5. Len(s) \in Nat OBVIOUS
<1>6. Story(s)[1] = OpenEvent BY <1>4, <1>5
<1>7. ASSUME NEW i \in 1..Len(s) PROVE Story(s)[i + 1] = Message(s[i])
  <2>1. i + 1 \in 1..(Len(s) + 1) /\ ~ (i + 1 <= 1) /\ (i + 1) - 1 = i BY <1>5
  <2> QED BY <2>1, <1>1, <1>4
<1> QED BY <1>4, <1>6, <1>7

\* What is said is texts.
LEMMA SaidTypes ==
  ASSUME NEW s \in {<<>>, TwoTexts, CutText}
  PROVE  s \in Seq(Seq(Nat))
<1>1. <<1>> \in Seq(Nat) /\ <<2>> \in Seq(Nat) /\ <<1, 1>> \in Seq(Nat) OBVIOUS
<1>2. \A a, b \in Seq(Nat) : <<a, b>> \in Seq(Seq(Nat)) OBVIOUS
<1>3. <<>> \in Seq(Seq(Nat)) OBVIOUS
<1> QED BY <1>1, <1>2, <1>3 DEF TwoTexts, CutText

\* What has been heard at a stage is the beginning of the story.
LEMMA HeardFacts ==
  ASSUME NEW st \in Stages
  PROVE  /\ Heard(st) \in Seq(Event) /\ Len(Heard(st)) = st.heard
         /\ Story(st.said) \in Seq(Event) /\ st.heard \in 0..Len(Story(st.said))
         /\ \A i \in 1..st.heard : Heard(st)[i] = Story(st.said)[i]
<1>1. st.said \in Seq(Seq(Nat)) /\ st.heard \in 0..3 /\ st.heard <= Len(st.said) + 1
  BY StageTypes, SaidTypes
<1>2. Story(st.said) \in Seq(Event) /\ Len(Story(st.said)) = Len(st.said) + 1 BY <1>1, StoryFacts
<1>3. st.heard \in 0..Len(Story(st.said)) BY <1>1, <1>2
<1>4. PICK n \in Nat : n = st.heard BY <1>1
<1>5. PICK s \in Seq(Event) : s = Story(st.said) BY <1>2
<1>6. \A i \in 1..n : s[i] \in Event BY <1>3, <1>4, <1>5
<1>7. /\ SubSeq(s, 1, n) \in Seq(Event) /\ Len(SubSeq(s, 1, n)) = n
      /\ \A i \in 1..n : SubSeq(s, 1, n)[i] = s[i]
  <2>1. /\ SubSeq(s, 1, n) \in Seq(Event) /\ Len(SubSeq(s, 1, n)) = (IF 1 <= n THEN n - 1 + 1 ELSE 0)
        /\ \A i \in 1..(n - 1 + 1) : SubSeq(s, 1, n)[i] = s[1 + i - 1]
    BY <1>6, SubSeqProperties
  <2> QED BY <2>1
<1> QED BY <1>2, <1>3, <1>4, <1>5, <1>7 DEF Heard

\* Hearing the next event of the story.
LEMMA HearsMore ==
  ASSUME NEW st \in Stages, NEW s2 \in Stages, s2.said = st.said, s2.heard = st.heard + 1
  PROVE  Heard(s2) = Append(Heard(st), Story(st.said)[st.heard + 1])
<1>1. PICK n \in Nat : n = st.heard BY HeardFacts
<1>2. PICK s \in Seq(Event) : s = Story(st.said) BY HeardFacts
<1>3. n + 1 \in 1..Len(s) BY <1>1, <1>2, HeardFacts
<1>4. s[n + 1] \in Event BY <1>3
<1>5. SubSeq(s, 1, n + 1) = SubSeq(s, 1, n) \o <<s[n + 1]>>
  <2>1. 1 \in 1..Len(s) /\ n + 1 \in 1..Len(s) /\ (n + 1) - 1 = n BY <1>3
  <2> QED BY <2>1, SubSeqRecursiveSecond
<1>6. SubSeq(s, 1, n) = Heard(st) /\ SubSeq(s, 1, n + 1) = Heard(s2) BY <1>1, <1>2 DEF Heard
<1>7. Append(Heard(st), s[n + 1]) = Heard(st) \o <<s[n + 1]>> BY <1>4, HeardFacts, AppendIsConcat
<1> QED BY <1>1, <1>2, <1>5, <1>6, <1>7

(***************************************************************************)
(* From stage to stage.                                                    *)
(***************************************************************************)
\* The stage behind st, when the program hears nothing new, and when it hears e.
Silent(st, s2) == s2.said = st.said /\ s2.rest = Tail(st.rest) /\ s2.heard = st.heard
Speaks(st, s2, e) ==
  /\ s2.said = st.said /\ s2.rest = Tail(st.rest) /\ s2.heard = st.heard + 1
  /\ Story(st.said)[st.heard + 1] = e

\* What the two stories say.
LEMMA Stories ==
  /\ \A s \in {TwoTexts, CutText} : Story(s)[0 + 1] = OpenEvent
  /\ Story(TwoTexts)[1 + 1] = Message(<<1>>) /\ Story(TwoTexts)[2 + 1] = Message(<<2>>)
  /\ Story(CutText)[1 + 1] = Message(<<1, 1>>) /\ Story(CutText)[2 + 1] = Message(<<2>>)
<1>1. TwoTexts \in Seq(Seq(Nat)) /\ CutText \in Seq(Seq(Nat)) BY SaidTypes
<1>2. /\ Len(TwoTexts) = 2 /\ TwoTexts[1] = <<1>> /\ TwoTexts[2] = <<2>>
      /\ Len(CutText) = 2 /\ CutText[1] = <<1, 1>> /\ CutText[2] = <<2>>
  BY DEF TwoTexts, CutText
<1>3. Story(TwoTexts)[1] = OpenEvent /\ Story(CutText)[1] = OpenEvent BY <1>1, StoryFacts
<1>4. \A i \in 1..2 : /\ Story(TwoTexts)[i + 1] = Message(TwoTexts[i])
                      /\ Story(CutText)[i + 1] = Message(CutText[i])
  BY <1>1, <1>2, StoryFacts
<1>5. 0 + 1 = 1 /\ 1 \in 1..2 /\ 2 \in 1..2 OBVIOUS
<1> QED BY <1>2, <1>3, <1>4, <1>5, Zenon

\* The handshake: who waits for one has sent a good request or a bad one.
LEMMA Handshakes ==
  ASSUME NEW st \in Stages, st.state = 0, st.rest[1] = Upgrade
  PROVE  \E s2 \in Stages : Speaks(st, s2, OpenEvent) /\ s2.state = 1 /\ s2.frags = st.frags
<1>1. Upgrade # BadRequest /\ 0 # 1 /\ 1 = 0 + 1 BY DEF Upgrade, BadRequest
<1>2. \/ IsStage(st, TwoTexts, 0, 0, <<>>, <<Upgrade, Text(1), Text(2), CloseFrame>>)
      \/ IsStage(st, CutText, 0, 0, <<>>, <<Upgrade, Begun(1), Ping, Rest(1), Text(2)>>)
  BY <1>1, StageCases, Tails, Zenon DEF IsStage
<1>3. CASE IsStage(st, TwoTexts, 0, 0, <<>>, <<Upgrade, Text(1), Text(2), CloseFrame>>)
  <2> DEFINE s2 == Stage(TwoTexts, 1, 1, <<>>, <<Text(1), Text(2), CloseFrame>>)
  <2>1. s2 \in Stages BY DEF Stages
  <2>2. IsStage(s2, TwoTexts, 1, 1, <<>>, <<Text(1), Text(2), CloseFrame>>) BY DEF Stage, IsStage
  <2> HIDE DEF s2
  <2>3. st.said = TwoTexts /\ st.heard = 0 /\ st.frags = <<>> /\ st.rest = <<Upgrade, Text(1), Text(2), CloseFrame>> BY <1>3, Zenon DEF IsStage
  <2>4. s2.said = TwoTexts /\ s2.heard = 1 /\ s2.state = 1 /\ s2.frags = <<>> /\ s2.rest = <<Text(1), Text(2), CloseFrame>> BY <2>2, Zenon DEF IsStage
  <2>5. st.rest[1] = Upgrade /\ Tail(st.rest) = s2.rest BY <2>3, <2>4, Tails, Zenon
  <2>6. Story(st.said)[st.heard + 1] = Story(TwoTexts)[0 + 1] /\ s2.heard = st.heard + 1 BY <2>3, <2>4, <1>1, Zenon
  <2>7. Story(st.said)[st.heard + 1] = OpenEvent BY <2>6, Stories, Zenon
  <2>8. Speaks(st, s2, OpenEvent) BY <2>3, <2>4, <2>5, <2>6, <2>7, Zenon DEF Speaks
  <2> QED BY <2>1, <2>3, <2>4, <2>8, Zenon
<1>4. CASE IsStage(st, CutText, 0, 0, <<>>, <<Upgrade, Begun(1), Ping, Rest(1), Text(2)>>)
  <2> DEFINE s2 == Stage(CutText, 1, 1, <<>>, <<Begun(1), Ping, Rest(1), Text(2)>>)
  <2>1. s2 \in Stages BY DEF Stages
  <2>2. IsStage(s2, CutText, 1, 1, <<>>, <<Begun(1), Ping, Rest(1), Text(2)>>) BY DEF Stage, IsStage
  <2> HIDE DEF s2
  <2>3. st.said = CutText /\ st.heard = 0 /\ st.frags = <<>> /\ st.rest = <<Upgrade, Begun(1), Ping, Rest(1), Text(2)>> BY <1>4, Zenon DEF IsStage
  <2>4. s2.said = CutText /\ s2.heard = 1 /\ s2.state = 1 /\ s2.frags = <<>> /\ s2.rest = <<Begun(1), Ping, Rest(1), Text(2)>> BY <2>2, Zenon DEF IsStage
  <2>5. st.rest[1] = Upgrade /\ Tail(st.rest) = s2.rest BY <2>3, <2>4, Tails, Zenon
  <2>6. Story(st.said)[st.heard + 1] = Story(CutText)[0 + 1] /\ s2.heard = st.heard + 1 BY <2>3, <2>4, <1>1, Zenon
  <2>7. Story(st.said)[st.heard + 1] = OpenEvent BY <2>6, Stories, Zenon
  <2>8. Speaks(st, s2, OpenEvent) BY <2>3, <2>4, <2>5, <2>6, <2>7, Zenon DEF Speaks
  <2> QED BY <2>1, <2>3, <2>4, <2>8, Zenon
<1> QED BY <1>2, <1>3, <1>4

\* What an open client's first frame does: a text or the end of one is heard, the beginning of
\* one is kept, a ping is nothing, and only a close frame ends the conversation.
PumpsTo(st, f) ==
  \/ f[1] = 8
  \/ f[1] = 0 /\ f[2] = TRUE /\ \E s2 \in Stages : Speaks(st, s2, Message(st.frags \o f[3])) /\ s2.state = 1 /\ s2.frags = <<>>
  \/ f[1] = 1 /\ f[2] = TRUE /\ \E s2 \in Stages : Speaks(st, s2, Message(f[3])) /\ s2.state = 1 /\ s2.frags = st.frags
  \/ f[1] = 1 /\ f[2] = FALSE /\ \E s2 \in Stages : Silent(st, s2) /\ s2.state = 1 /\ s2.frags = f[3]
  \/ f[1] = 9 /\ \E s2 \in Stages : Silent(st, s2) /\ s2.state = 1 /\ s2.frags = st.frags

\* An open client's frames pump so at every stage.
LEMMA Pumping ==
  ASSUME NEW st \in Stages, st.state = 1, st.rest # <<>>
  PROVE  PumpsTo(st, st.rest[1])
<1>1. 0 # 1 /\ 2 = 1 + 1 /\ 3 = 2 + 1 OBVIOUS
<1>2. \/ IsStage(st, TwoTexts, 1, 1, <<>>, <<Text(1), Text(2), CloseFrame>>)
      \/ IsStage(st, TwoTexts, 2, 1, <<>>, <<Text(2), CloseFrame>>)
      \/ IsStage(st, TwoTexts, 3, 1, <<>>, <<CloseFrame>>)
      \/ IsStage(st, CutText, 1, 1, <<>>, <<Begun(1), Ping, Rest(1), Text(2)>>)
      \/ IsStage(st, CutText, 1, 1, <<1>>, <<Ping, Rest(1), Text(2)>>)
      \/ IsStage(st, CutText, 1, 1, <<1>>, <<Rest(1), Text(2)>>)
      \/ IsStage(st, CutText, 2, 1, <<>>, <<Text(2)>>)
  BY <1>1, StageCases, Zenon DEF IsStage
<1>3. CASE IsStage(st, TwoTexts, 1, 1, <<>>, <<Text(1), Text(2), CloseFrame>>)
  <2> DEFINE s2 == Stage(TwoTexts, 2, 1, <<>>, <<Text(2), CloseFrame>>)
  <2>1. s2 \in Stages BY DEF Stages
  <2>2. IsStage(s2, TwoTexts, 2, 1, <<>>, <<Text(2), CloseFrame>>) BY DEF Stage, IsStage
  <2> HIDE DEF s2
  <2>3. st.said = TwoTexts /\ st.heard = 1 /\ st.frags = <<>> /\ st.rest = <<Text(1), Text(2), CloseFrame>> BY <1>3, Zenon DEF IsStage
  <2>4. s2.said = TwoTexts /\ s2.heard = 2 /\ s2.state = 1 /\ s2.frags = <<>> /\ s2.rest = <<Text(2), CloseFrame>> BY <2>2, Zenon DEF IsStage
  <2>5. st.rest[1] = Text(1) /\ Tail(st.rest) = s2.rest BY <2>3, <2>4, Tails, Zenon
  <2>6. Story(st.said)[st.heard + 1] = Story(TwoTexts)[1 + 1] /\ s2.heard = st.heard + 1 BY <2>3, <2>4, <1>1, Zenon
  <2>7. Story(st.said)[st.heard + 1] = Message(<<1>>) BY <2>6, Stories, Zenon
  <2>8. Speaks(st, s2, Message(<<1>>)) BY <2>3, <2>4, <2>5, <2>6, <2>7, Zenon DEF Speaks
  <2> QED BY <2>1, <2>3, <2>4, <2>5, <2>8, FrameFacts, ZenonT(60) DEF PumpsTo
<1>4. CASE IsStage(st, TwoTexts, 2, 1, <<>>, <<Text(2), CloseFrame>>)
  <2> DEFINE s2 == Stage(TwoTexts, 3, 1, <<>>, <<CloseFrame>>)
  <2>1. s2 \in Stages BY DEF Stages
  <2>2. IsStage(s2, TwoTexts, 3, 1, <<>>, <<CloseFrame>>) BY DEF Stage, IsStage
  <2> HIDE DEF s2
  <2>3. st.said = TwoTexts /\ st.heard = 2 /\ st.frags = <<>> /\ st.rest = <<Text(2), CloseFrame>> BY <1>4, Zenon DEF IsStage
  <2>4. s2.said = TwoTexts /\ s2.heard = 3 /\ s2.state = 1 /\ s2.frags = <<>> /\ s2.rest = <<CloseFrame>> BY <2>2, Zenon DEF IsStage
  <2>5. st.rest[1] = Text(2) /\ Tail(st.rest) = s2.rest BY <2>3, <2>4, Tails, Zenon
  <2>6. Story(st.said)[st.heard + 1] = Story(TwoTexts)[2 + 1] /\ s2.heard = st.heard + 1 BY <2>3, <2>4, <1>1, Zenon
  <2>7. Story(st.said)[st.heard + 1] = Message(<<2>>) BY <2>6, Stories, Zenon
  <2>8. Speaks(st, s2, Message(<<2>>)) BY <2>3, <2>4, <2>5, <2>6, <2>7, Zenon DEF Speaks
  <2> QED BY <2>1, <2>3, <2>4, <2>5, <2>8, FrameFacts, ZenonT(60) DEF PumpsTo
<1>5. CASE IsStage(st, TwoTexts, 3, 1, <<>>, <<CloseFrame>>)
  <2>1. st.rest[1] = CloseFrame BY <1>5, Tails, Zenon DEF IsStage
  <2> QED BY <2>1, FrameFacts, Zenon DEF PumpsTo
<1>6. CASE IsStage(st, CutText, 1, 1, <<>>, <<Begun(1), Ping, Rest(1), Text(2)>>)
  <2> DEFINE s2 == Stage(CutText, 1, 1, <<1>>, <<Ping, Rest(1), Text(2)>>)
  <2>1. s2 \in Stages BY DEF Stages
  <2>2. IsStage(s2, CutText, 1, 1, <<1>>, <<Ping, Rest(1), Text(2)>>) BY DEF Stage, IsStage
  <2> HIDE DEF s2
  <2>3. st.said = CutText /\ st.heard = 1 /\ st.frags = <<>> /\ st.rest = <<Begun(1), Ping, Rest(1), Text(2)>> BY <1>6, Zenon DEF IsStage
  <2>4. s2.said = CutText /\ s2.heard = 1 /\ s2.state = 1 /\ s2.frags = <<1>> /\ s2.rest = <<Ping, Rest(1), Text(2)>> BY <2>2, Zenon DEF IsStage
  <2>5. st.rest[1] = Begun(1) /\ Tail(st.rest) = s2.rest BY <2>3, <2>4, Tails, Zenon
  <2>8. Silent(st, s2) BY <2>3, <2>4, <2>5, Zenon DEF Silent
  <2> QED BY <2>1, <2>3, <2>4, <2>5, <2>8, FrameFacts, ZenonT(60) DEF PumpsTo
<1>7. CASE IsStage(st, CutText, 1, 1, <<1>>, <<Ping, Rest(1), Text(2)>>)
  <2> DEFINE s2 == Stage(CutText, 1, 1, <<1>>, <<Rest(1), Text(2)>>)
  <2>1. s2 \in Stages BY DEF Stages
  <2>2. IsStage(s2, CutText, 1, 1, <<1>>, <<Rest(1), Text(2)>>) BY DEF Stage, IsStage
  <2> HIDE DEF s2
  <2>3. st.said = CutText /\ st.heard = 1 /\ st.frags = <<1>> /\ st.rest = <<Ping, Rest(1), Text(2)>> BY <1>7, Zenon DEF IsStage
  <2>4. s2.said = CutText /\ s2.heard = 1 /\ s2.state = 1 /\ s2.frags = <<1>> /\ s2.rest = <<Rest(1), Text(2)>> BY <2>2, Zenon DEF IsStage
  <2>5. st.rest[1] = Ping /\ Tail(st.rest) = s2.rest BY <2>3, <2>4, Tails, Zenon
  <2>8. Silent(st, s2) BY <2>3, <2>4, <2>5, Zenon DEF Silent
  <2> QED BY <2>1, <2>3, <2>4, <2>5, <2>8, FrameFacts, Zenon DEF PumpsTo
<1>8. CASE IsStage(st, CutText, 1, 1, <<1>>, <<Rest(1), Text(2)>>)
  <2> DEFINE s2 == Stage(CutText, 2, 1, <<>>, <<Text(2)>>)
  <2>1. s2 \in Stages BY DEF Stages
  <2>2. IsStage(s2, CutText, 2, 1, <<>>, <<Text(2)>>) BY DEF Stage, IsStage
  <2> HIDE DEF s2
  <2>3. st.said = CutText /\ st.heard = 1 /\ st.frags = <<1>> /\ st.rest = <<Rest(1), Text(2)>> BY <1>8, Zenon DEF IsStage
  <2>4. s2.said = CutText /\ s2.heard = 2 /\ s2.state = 1 /\ s2.frags = <<>> /\ s2.rest = <<Text(2)>> BY <2>2, Zenon DEF IsStage
  <2>5. st.rest[1] = Rest(1) /\ Tail(st.rest) = s2.rest BY <2>3, <2>4, Tails, Zenon
  <2>6. Story(st.said)[st.heard + 1] = Story(CutText)[1 + 1] /\ s2.heard = st.heard + 1 BY <2>3, <2>4, <1>1, Zenon
  <2>7. Story(st.said)[st.heard + 1] = Message(<<1, 1>>) BY <2>6, Stories, Zenon
  <2>8. Speaks(st, s2, Message(<<1, 1>>)) BY <2>3, <2>4, <2>5, <2>6, <2>7, Zenon DEF Speaks
  <2>9. st.frags \o Rest(1)[3] = <<1, 1>> BY <2>3, FrameFacts, Fragments, Zenon
  <2> QED BY <2>1, <2>4, <2>5, <2>8, <2>9, FrameFacts, Zenon DEF PumpsTo
<1>9. CASE IsStage(st, CutText, 2, 1, <<>>, <<Text(2)>>)
  <2> DEFINE s2 == Stage(CutText, 3, 1, <<>>, <<>>)
  <2>1. s2 \in Stages BY DEF Stages
  <2>2. IsStage(s2, CutText, 3, 1, <<>>, <<>>) BY DEF Stage, IsStage
  <2> HIDE DEF s2
  <2>3. st.said = CutText /\ st.heard = 2 /\ st.frags = <<>> /\ st.rest = <<Text(2)>> BY <1>9, Zenon DEF IsStage
  <2>4. s2.said = CutText /\ s2.heard = 3 /\ s2.state = 1 /\ s2.frags = <<>> /\ s2.rest = <<>> BY <2>2, Zenon DEF IsStage
  <2>5. st.rest[1] = Text(2) /\ Tail(st.rest) = s2.rest BY <2>3, <2>4, Tails, Zenon
  <2>6. Story(st.said)[st.heard + 1] = Story(CutText)[2 + 1] /\ s2.heard = st.heard + 1 BY <2>3, <2>4, <1>1, Zenon
  <2>7. Story(st.said)[st.heard + 1] = Message(<<2>>) BY <2>6, Stories, Zenon
  <2>8. Speaks(st, s2, Message(<<2>>)) BY <2>3, <2>4, <2>5, <2>6, <2>7, Zenon DEF Speaks
  <2> QED BY <2>1, <2>3, <2>4, <2>5, <2>8, FrameFacts, ZenonT(60) DEF PumpsTo
<1> QED BY <1>2, <1>3, <1>4, <1>5, <1>6, <1>7, <1>8, <1>9

(***************************************************************************)
(* Clients and their calls.                                                *)
(***************************************************************************)
Conversations == [clients : Seq(Client), calls : Seq(Seq(Event))]
Sound(W) == W \in Conversations /\ Len(W.clients) = Len(W.calls)

\* W with client id and its calls put in anew.
Put(W, id, c, k) == [clients |-> [W.clients EXCEPT ![id] = c], calls |-> [W.calls EXCEPT ![id] = k]]

\* What is put in is there, and nothing else has changed.
LEMMA PutFacts ==
  ASSUME NEW W, Sound(W), NEW id \in DOMAIN W.clients, NEW c \in Client, NEW k \in Seq(Event)
  PROVE  /\ Sound(Put(W, id, c, k)) /\ DOMAIN Put(W, id, c, k).clients = DOMAIN W.clients
         /\ Put(W, id, c, k).clients[id] = c /\ Put(W, id, c, k).calls[id] = k
         /\ \A j \in DOMAIN W.clients \ {id} : /\ Put(W, id, c, k).clients[j] = W.clients[j]
                                             /\ Put(W, id, c, k).calls[j] = W.calls[j]
<1>1. W.clients \in Seq(Client) /\ W.calls \in Seq(Seq(Event)) /\ DOMAIN W.clients = DOMAIN W.calls
  BY DEF Sound, Conversations
<1>2. /\ [W.clients EXCEPT ![id] = c] \in Seq(Client) /\ [W.calls EXCEPT ![id] = k] \in Seq(Seq(Event))
      /\ Len([W.clients EXCEPT ![id] = c]) = Len([W.calls EXCEPT ![id] = k])
      /\ DOMAIN [W.clients EXCEPT ![id] = c] = DOMAIN W.clients
  BY <1>1
<1> QED BY <1>1, <1>2 DEF Sound, Conversations, Put

\* A client that is in order stays so when another one is put in.
LEMMA PutKeeps ==
  ASSUME NEW W, WorldOK(W), NEW id \in DOMAIN W.clients, NEW c, NEW k, ClientOK(c, k)
  PROVE  /\ WorldOK(Put(W, id, c, k)) /\ DOMAIN Put(W, id, c, k).clients = DOMAIN W.clients
         /\ Put(W, id, c, k).clients[id] = c
         /\ \A j \in DOMAIN W.clients \ {id} : Put(W, id, c, k).clients[j] = W.clients[j]
<1>1. Sound(W) /\ \A j \in DOMAIN W.clients : ClientOK(W.clients[j], W.calls[j])
  BY DEF WorldOK, Sound, Conversations
<1>2. c \in Client /\ k \in Seq(Event) BY DEF ClientOK
<1> DEFINE V == Put(W, id, c, k)
<1>3. /\ Sound(V) /\ DOMAIN V.clients = DOMAIN W.clients /\ V.clients[id] = c /\ V.calls[id] = k
      /\ \A j \in DOMAIN W.clients \ {id} : V.clients[j] = W.clients[j] /\ V.calls[j] = W.calls[j]
  BY <1>1, <1>2, PutFacts
<1> HIDE DEF V
<1>4. \A j \in DOMAIN V.clients : ClientOK(V.clients[j], V.calls[j]) BY <1>1, <1>3
<1>5. WorldOK(V) BY <1>3, <1>4 DEF WorldOK, Sound, Conversations
<1> QED BY <1>3, <1>5 DEF V

\* The changes of a client's fields.
SetState(W, id, n) == [W EXCEPT !.clients[id].state = n]
SetFrags(W, id, f) == [W EXCEPT !.clients[id].frags = f]
Taken(W, id) == [W EXCEPT !.clients[id].bufs = Tail(@)]
Fewer(c) == [c EXCEPT !.bufs = Tail(c.bufs)]

\* A pair of clients and calls is what its fields are.
LEMMA Pairs ==
  ASSUME NEW a, NEW b, NEW V \in [clients : {a}, calls : {b}]
  PROVE  V = [clients |-> a, calls |-> b]
OBVIOUS

\* A callback is put in.
LEMMA CallPuts ==
  ASSUME NEW cs, NEW ks, NEW W \in [clients : {cs}, calls : {ks}], NEW id \in DOMAIN cs, id \in DOMAIN ks,
         cs = [cs EXCEPT ![id] = cs[id]], NEW e
  PROVE  Calls(W, id, e) = Put(W, id, cs[id], Append(ks[id], e))
<1>1. Calls(W, id, e) \in [clients : {cs}, calls : {[ks EXCEPT ![id] = Append(ks[id], e)]}] BY DEF Calls
<1>2. W.clients = cs /\ W.calls = ks OBVIOUS
<1> QED BY <1>1, <1>2, Pairs DEF Put

\* A new state of a client is put in.
LEMMA StatePuts ==
  ASSUME NEW cs, NEW ks, NEW W \in [clients : {cs}, calls : {ks}], NEW id \in DOMAIN cs, id \in DOMAIN ks,
         ks = [ks EXCEPT ![id] = ks[id]], NEW n
  PROVE  SetState(W, id, n) = Put(W, id, [cs[id] EXCEPT !.state = n], ks[id])
<1>1. SetState(W, id, n) \in [clients : {[cs EXCEPT ![id] = [cs[id] EXCEPT !.state = n]]}, calls : {ks}] BY DEF SetState
<1>2. W.clients = cs /\ W.calls = ks OBVIOUS
<1> QED BY <1>1, <1>2, Pairs DEF Put

\* A client that is dropped.
Dropped(c) == [c EXCEPT !.sock = Gone1, !.state = Gone1, !.bufs = <<>>, !.frags = <<>>]

\* A drop puts it in, and the last call.
LEMMA DropPuts ==
  ASSUME NEW cs, NEW ks, NEW W \in [clients : {cs}, calls : {ks}], NEW id \in DOMAIN cs, id \in DOMAIN ks
  PROVE  drop(W, id) = Put(W, id, Dropped(cs[id]), Append(ks[id], CloseEvent))
<1> DEFINE cs2 == [cs EXCEPT ![id] = Dropped(cs[id])]
           V == [W EXCEPT !.clients[id] = [@ EXCEPT !.sock = Gone1, !.state = Gone1, !.bufs = <<>>, !.frags = <<>>]]
<1>1. V \in [clients : {cs2}, calls : {ks}] BY DEF Dropped
<1>2. W.clients = cs /\ W.calls = ks OBVIOUS
<1>3. drop(W, id) = Calls(V, id, CloseEvent) BY DEF drop, CloseEvent
<1> HIDE DEF V, cs2
<1>4. Calls(V, id, CloseEvent) \in [clients : {cs2}, calls : {[ks EXCEPT ![id] = Append(ks[id], CloseEvent)]}]
  BY <1>1 DEF Calls
<1>5. Calls(V, id, CloseEvent) = [clients |-> cs2, calls |-> [ks EXCEPT ![id] = Append(ks[id], CloseEvent)]]
  BY <1>4, Pairs
<1> QED BY <1>2, <1>3, <1>5 DEF Put, cs2

\* What the server's steps put in.
LEMMA Steps ==
  ASSUME NEW W, Sound(W), NEW id \in DOMAIN W.clients
  PROVE  /\ \A e : Calls(W, id, e) = Put(W, id, W.clients[id], Append(W.calls[id], e))
         /\ drop(W, id) = Put(W, id, Dropped(W.clients[id]), Append(W.calls[id], CloseEvent))
         /\ Taken(W, id)
              = Put(W, id, Fewer(W.clients[id]), W.calls[id])
         /\ \A n : SetState(W, id, n) = Put(W, id, [W.clients[id] EXCEPT !.state = n], W.calls[id])
         /\ \A f : SetFrags(W, id, f) = Put(W, id, [W.clients[id] EXCEPT !.frags = f], W.calls[id])
<1>1. PICK cs \in Seq(Client) : cs = W.clients BY DEF Sound, Conversations
<1>2. PICK ks \in Seq(Seq(Event)) : ks = W.calls BY DEF Sound, Conversations
<1>3. W \in [clients : {cs}, calls : {ks}] BY <1>1, <1>2 DEF Sound, Conversations
<1>4. id \in DOMAIN cs /\ id \in DOMAIN ks BY <1>1, <1>2 DEF Sound, Conversations
<1>5. cs = [cs EXCEPT ![id] = cs[id]] /\ ks = [ks EXCEPT ![id] = ks[id]] BY <1>4
<1>6. \A e : Calls(W, id, e) = Put(W, id, W.clients[id], Append(W.calls[id], e))
  BY <1>1, <1>2, <1>3, <1>4, <1>5, CallPuts
<1>7. drop(W, id) = Put(W, id, Dropped(W.clients[id]), Append(W.calls[id], CloseEvent))
  BY <1>1, <1>2, <1>3, <1>4, <1>5, DropPuts
<1>8. Taken(W, id)
        = Put(W, id, Fewer(W.clients[id]), W.calls[id])
  <2>1. Taken(W, id) = Put(W, id, Fewer(cs[id]), ks[id])
    <3>1. Taken(W, id) \in [clients : {[cs EXCEPT ![id] = Fewer(cs[id])]}, calls : {ks}] BY <1>3, <1>4 DEF Taken, Fewer
    <3>2. Taken(W, id) = [clients |-> [cs EXCEPT ![id] = Fewer(cs[id])], calls |-> ks] BY <3>1, Pairs
    <3> QED BY <1>1, <1>2, <1>5, <3>2 DEF Put
  <2> QED BY <2>1, <1>1, <1>2, Zenon
<1>9. \A n : SetState(W, id, n) = Put(W, id, [W.clients[id] EXCEPT !.state = n], W.calls[id])
  BY <1>1, <1>2, <1>3, <1>4, <1>5, StatePuts
<1>10. ASSUME NEW f PROVE SetFrags(W, id, f) = Put(W, id, [W.clients[id] EXCEPT !.frags = f], W.calls[id])
  <2>1. SetFrags(W, id, f) \in [clients : {[cs EXCEPT ![id] = [cs[id] EXCEPT !.frags = f]]}, calls : {ks}]
    BY <1>3, <1>4 DEF SetFrags
  <2>2. SetFrags(W, id, f) = [clients |-> [cs EXCEPT ![id] = [cs[id] EXCEPT !.frags = f]], calls |-> ks]
    BY <2>1, Pairs
  <2> QED BY <1>1, <1>2, <1>5, <2>2 DEF Put
<1> QED BY <1>6, <1>7, <1>8, <1>9, <1>10

\* Putting in twice is putting in the second.
LEMMA PutPut ==
  ASSUME NEW W, Sound(W), NEW id \in DOMAIN W.clients, NEW c, NEW k, NEW c2, NEW k2
  PROVE  Put(Put(W, id, c, k), id, c2, k2) = Put(W, id, c2, k2)
<1>1. PICK cs \in Seq(Client) : cs = W.clients BY DEF Sound, Conversations
<1>2. PICK ks \in Seq(Seq(Event)) : ks = W.calls BY DEF Sound, Conversations
<1>3. id \in DOMAIN cs /\ id \in DOMAIN ks BY <1>1, <1>2 DEF Sound, Conversations
<1> QED BY <1>1, <1>2, <1>3 DEF Put

(***************************************************************************)
(* A client goes on, or goes.                                              *)
(***************************************************************************)
\* What is buffered of a client at a stage begins with that stage's frames.
LEMMA FirstFrame ==
  ASSUME NEW c \in Client, NEW k, NEW st \in Stages, Talks(c, k, st), c.bufs # <<>>
  PROVE  /\ st.rest # <<>> /\ st.rest[1] = c.bufs[1]
         /\ Tail(c.bufs) \in Seq(Frame) /\ Tail(c.bufs) \o (c.wire \o c.left) = Tail(st.rest)
<1>1. PICK b \in Seq(Frame) : b = c.bufs BY DEF Client
<1>2. PICK w \in Seq(Frame) : w = c.wire \o c.left
  <2>1. c.wire \in Seq(Frame) /\ c.left \in Seq(Frame) BY DEF Client
  <2>2. c.wire \o c.left \in Seq(Frame) BY <2>1
  <2> QED BY <2>2
<1>3. st.rest = b \o w BY <1>1, <1>2 DEF Talks
<1>4. Len(b) \in Nat /\ Len(b) # 0 BY <1>1
<1>5. b \o w # <<>> /\ (b \o w)[1] = b[1] /\ Tail(b) \in Seq(Frame) /\ Tail(b) \o w = Tail(b \o w)
  BY <1>4
<1> QED BY <1>1, <1>2, <1>3, <1>5

\* A client whose first frame is worked off is at the next stage.
LEMMA Advance ==
  ASSUME NEW c, NEW k, ClientOK(c, k), c.bufs # <<>>,
         NEW st \in Stages, c.said = st.said, Talks(c, k, st),
         NEW s2 \in Stages, NEW e \in Event, NEW d, NEW l,
         d = [c EXCEPT !.bufs = Tail(c.bufs), !.state = s2.state, !.frags = s2.frags],
         \/ Silent(st, s2) /\ l = k
         \/ Speaks(st, s2, e) /\ l = Append(k, e)
  PROVE  ClientOK(d, l)
<1>1. c \in Client /\ k \in Seq(Event) BY DEF ClientOK
<1>2. /\ Tail(c.bufs) \in Seq(Frame) /\ Tail(c.bufs) \o (c.wire \o c.left) = s2.rest /\ s2.said = st.said
  BY <1>1, FirstFrame DEF Silent, Speaks
<1>3. s2.state \in Int /\ s2.frags \in Seq(Nat)
  <2>1. <<1>> \in Seq(Nat) /\ <<>> \in Seq(Nat) /\ 0 \in Int /\ 1 \in Int OBVIOUS
  <2>2. s2.state \in {0, 1} /\ s2.frags \in {<<>>, <<1>>} BY StageTypes, Zenon
  <2> QED BY <2>1, <2>2, Zenon
<1>4. /\ d \in Client /\ d.bufs = Tail(c.bufs) /\ d.state = s2.state /\ d.frags = s2.frags /\ d.sock = c.sock
      /\ d.wire = c.wire /\ d.left = c.left /\ d.said = c.said
  BY <1>1, <1>2, <1>3 DEF Client
<1>5. l \in Seq(Event) /\ l = Heard(s2)
  <2>1. CASE Silent(st, s2) /\ l = k BY <2>1, <1>1 DEF Silent, Talks, Heard
  <2>2. CASE Speaks(st, s2, e) /\ l = Append(k, e) BY <2>2, <1>1, HearsMore DEF Speaks, Talks
  <2> QED BY <2>1, <2>2
<1>6. Talks(d, l, s2) BY <1>2, <1>4, <1>5 DEF Talks
<1> QED BY <1>2, <1>4, <1>5, <1>6 DEF ClientOK

\* A client that is dropped hears onClose behind what it has heard.
LEMMA DropKeeps ==
  ASSUME NEW W, WorldOK(W), NEW id \in DOMAIN W.clients, W.clients[id].sock # Gone1
  PROVE  /\ WorldOK(drop(W, id)) /\ DOMAIN drop(W, id).clients = DOMAIN W.clients
         /\ drop(W, id).clients[id].state = Gone1
         /\ \A j \in DOMAIN W.clients \ {id} : drop(W, id).clients[j] = W.clients[j]
<1> DEFINE c == W.clients[id]
           k == W.calls[id]
           d == Dropped(c)
           l == Append(k, CloseEvent)
<1>1. Sound(W) /\ ClientOK(c, k) BY DEF WorldOK, Sound, Conversations
<1>2. drop(W, id) = Put(W, id, d, l) BY <1>1, Steps
<1>3. PICK st \in Stages : c.said = st.said /\ (Talks(c, k, st) \/ HasGone(c, k, st)) BY <1>1 DEF ClientOK
<1>4. k = Heard(st) BY <1>3 DEF Talks, HasGone
<1>5. c \in Client /\ k \in Seq(Event) BY <1>1 DEF ClientOK
<1>6. d \in Client /\ d.sock = Gone1 /\ d.state = Gone1 /\ d.said = c.said
  <2>1. <<>> \in Seq(Frame) /\ <<>> \in Seq(Nat) /\ Gone1 \in Int BY DEF Gone1
  <2> QED BY <1>5, <2>1 DEF Client, Dropped
<1>7. l \in Seq(Event) BY <1>5 DEF Event
<1> HIDE DEF d, l
<1>8. ClientOK(d, l)
  <2>1. HasGone(d, l, st) BY <1>4, <1>6 DEF HasGone, l
  <2> QED BY <2>1, <1>3, <1>6, <1>7 DEF ClientOK
<1> QED BY <1>2, <1>6, <1>8, PutKeeps

\* What the program does in a callback.
LEMMA BackKeeps ==
  ASSUME ClosesTwice = FALSE, NEW W, WorldOK(W), NEW V \in Back(W)
  PROVE  WorldOK(V) /\ Goes1(W, V)
<1>1. CASE V = W BY <1>1 DEF Goes1
<1>2. ASSUME NEW id \in DOMAIN W.clients, W.clients[id].sock # Gone1, V = drop(W, id)
      PROVE  WorldOK(V) /\ Goes1(W, V)
  BY <1>2, DropKeeps DEF Goes1
<1> QED BY <1>1, <1>2 DEF Back

\* A client put in is changed where it was put in.
LEMMA Rewritten ==
  ASSUME NEW W, Sound(W), NEW id \in DOMAIN W.clients, NEW c \in Client, NEW k \in Seq(Event),
         NEW V, V = Put(W, id, c, k)
  PROVE  /\ Sound(V) /\ id \in DOMAIN V.clients
         /\ \A e : Calls(V, id, e) = Put(W, id, c, Append(k, e))
         /\ \A n : SetState(V, id, n) = Put(W, id, [c EXCEPT !.state = n], k)
         /\ \A f : SetFrags(V, id, f) = Put(W, id, [c EXCEPT !.frags = f], k)
<1>1. Sound(V) /\ id \in DOMAIN V.clients /\ V.clients[id] = c /\ V.calls[id] = k BY PutFacts
<1>2. \A c2, k2 : Put(V, id, c2, k2) = Put(W, id, c2, k2) BY PutPut
<1>3. \A e : Calls(V, id, e) = Put(V, id, c, Append(k, e)) BY <1>1, Steps
<1>4. \A n : SetState(V, id, n) = Put(V, id, [c EXCEPT !.state = n], k) BY <1>1, Steps
<1>5. \A f : SetFrags(V, id, f) = Put(V, id, [c EXCEPT !.frags = f], k) BY <1>1, Steps
<1> QED BY <1>1, <1>2, <1>3, <1>4, <1>5, Zenon

\* The clients that are changed do not wait for the handshake.
Settled(W, V) ==
  /\ DOMAIN V.clients = DOMAIN W.clients
  /\ \A j \in DOMAIN W.clients : V.clients[j] = W.clients[j] \/ V.clients[j].state # 0

\* A callback settles no less.
LEMMA BackSettles ==
  ASSUME ClosesTwice = FALSE, NEW W, NEW U, WorldOK(U), Settled(W, U), NEW V \in Back(U)
  PROVE  WorldOK(V) /\ Settled(W, V)
<1>1. WorldOK(V) /\ Goes1(U, V) BY BackKeeps
<1>2. Gone1 # 0 BY DEF Gone1
<1> QED BY <1>1, <1>2 DEF Settled, Goes1

\* The server stays where it may be when clients settle.
LEMMA ServerStays ==
  ASSUME NEW s, NEW W, ServerOK(s, W), NEW V, Settled(W, V)
  PROVE  ServerOK(s, V)
BY DEF ServerOK, Settled

\* The next stage is put in, whoever is closed in the callback.
Moved(c, bufs, state, frags) == [c EXCEPT !.bufs = bufs, !.state = state, !.frags = frags]
NextClient(c, s2) == Moved(c, Tail(c.bufs), s2.state, s2.frags)
LEMMA PutNext ==
  ASSUME NEW W, WorldOK(W), NEW id \in DOMAIN W.clients, W.clients[id].bufs # <<>>,
         NEW st \in Stages, W.clients[id].said = st.said, Talks(W.clients[id], W.calls[id], st),
         NEW s2 \in Stages, s2.state = 1, NEW e \in Event, NEW l,
         \/ Silent(st, s2) /\ l = W.calls[id]
         \/ Speaks(st, s2, e) /\ l = Append(W.calls[id], e),
         NEW U, U = Put(W, id, NextClient(W.clients[id], s2), l)
  PROVE  WorldOK(U) /\ Settled(W, U)
<1>1. ClientOK(W.clients[id], W.calls[id]) BY DEF WorldOK
<1>2. PICK d : d = NextClient(W.clients[id], s2) OBVIOUS
<1>3. ClientOK(d, l) BY <1>1, <1>2, Advance DEF NextClient, Moved
<1>4. d.state = 1
  <2>1. W.clients[id] \in Client BY <1>1 DEF ClientOK
  <2> QED BY <2>1, <1>2 DEF NextClient, Moved, Client
<1>5. /\ WorldOK(U) /\ DOMAIN U.clients = DOMAIN W.clients /\ U.clients[id] = d
      /\ \A j \in DOMAIN W.clients \ {id} : U.clients[j] = W.clients[j]
  BY <1>2, <1>3, PutKeeps
<1> QED BY <1>4, <1>5 DEF Settled

\* Who is connected talks.
LEMMA Talking ==
  ASSUME NEW c, NEW k, ClientOK(c, k), c.sock # Gone1 \/ c.state # Gone1
  PROVE  \E st \in Stages : c.said = st.said /\ Talks(c, k, st)
BY DEF ClientOK, HasGone

\* World' is what the clients become.
LEMMA Becoming ==
  ASSUME NEW V, WorldOK(V), Becomes(V)
  PROVE  World' = V
<1>1. V \in [clients : Seq(Client), calls : Seq(Seq(Event))] BY DEF WorldOK
<1>2. V = [clients |-> V.clients, calls |-> V.calls] BY <1>1
<1> QED BY <1>2 DEF Becomes, World

\* A dropped client is settled.
LEMMA DropSettles ==
  ASSUME NEW W, WorldOK(W), NEW id \in DOMAIN W.clients, W.clients[id].sock # Gone1
  PROVE  WorldOK(drop(W, id)) /\ Settled(W, drop(W, id))
<1>1. Gone1 # 0 BY DEF Gone1
<1> QED BY <1>1, DropKeeps DEF Settled

\* The ways to the next stage of a client.
LEMMA NextClients ==
  ASSUME NEW c \in Client, NEW s2, s2.state = 1, s2.frags \in Seq(Nat), Tail(c.bufs) \in Seq(Frame)
  PROVE  /\ NextClient(c, s2) \in Client
         /\ s2.frags = c.frags => [Fewer(c) EXCEPT !.state = 1] = NextClient(c, s2)
         /\ c.state = 1 => [Fewer(c) EXCEPT !.frags = s2.frags] = NextClient(c, s2)
         /\ c.state = 1 /\ s2.frags = c.frags => Fewer(c) = NextClient(c, s2)
<1>1. PICK t \in Seq(Frame) : t = Tail(c.bufs) OBVIOUS
<1>2. PICK f \in Seq(Nat) : f = s2.frags OBVIOUS
<1>3. NextClient(c, s2) = [c EXCEPT !.bufs = t, !.state = 1, !.frags = f]
  <2>1. NextClient(c, s2) = Moved(c, t, 1, f) BY <1>1, <1>2, Zenon DEF NextClient
  <2> QED BY <2>1 DEF Moved
<1>4. Fewer(c) = [c EXCEPT !.bufs = t] BY <1>1 DEF Fewer
<1>5. [c EXCEPT !.bufs = t, !.state = 1, !.frags = f] \in Client
  <2>1. PICK d : d = [c EXCEPT !.bufs = t, !.state = 1, !.frags = f] OBVIOUS
  <2>2. d \in [sock : {c.sock}, state : {1}, bufs : {t}, frags : {f}, wire : {c.wire}, over : {c.over},
               left : {c.left}, said : {c.said}]
    BY <2>1 DEF Client
  <2>3. /\ c.sock \in Int /\ 1 \in Int /\ c.wire \in Seq(Frame) /\ c.over \in BOOLEAN
        /\ c.left \in Seq(Frame) /\ c.said \in Seq(Seq(Nat))
    BY DEF Client
  <2>4. d \in Client BY <2>2, <2>3 DEF Client
  <2> QED BY <2>1, <2>4
<1>6. f = c.frags => [[c EXCEPT !.bufs = t] EXCEPT !.state = 1] = [c EXCEPT !.bufs = t, !.state = 1, !.frags = f] BY DEF Client
<1>7. c.state = 1 => [[c EXCEPT !.bufs = t] EXCEPT !.frags = f] = [c EXCEPT !.bufs = t, !.state = 1, !.frags = f] BY DEF Client
<1>8. c.state = 1 /\ f = c.frags => [c EXCEPT !.bufs = t] = [c EXCEPT !.bufs = t, !.state = 1, !.frags = f] BY DEF Client
<1> QED BY <1>2, <1>3, <1>4, <1>5, <1>6, <1>7, <1>8

(***************************************************************************)
(* The steps.                                                              *)
(***************************************************************************)
\* The server's next client is not waited for.
LEMMA NextServer ==
  ASSUME NEW W, ServerOK(server, W), NextHandle, NEW V
  PROVE  ServerOK(server', V)
BY DEF ServerOK, NextHandle

\* What the server works off.
LEMMA AtWork ==
  ASSUME WsInv, Consuming
  PROVE  /\ server.id \in DOMAIN World.clients /\ This = World.clients[server.id]
         /\ This.state = 0 => This.bufs # <<>>
         /\ ClientOK(This, World.calls[server.id]) /\ Sound(World)
<1>1. /\ server.id \in DOMAIN World.clients /\ This = World.clients[server.id]
      /\ This.state = 0 => This.bufs # <<>>
  BY DEF WsInv, ServerOK, Consuming, This, World
<1>2. ClientOK(This, World.calls[server.id]) BY <1>1 DEF WsInv, WorldOK
<1>3. Sound(World) BY DEF WsInv, WorldOK, Sound, Conversations
<1> QED BY <1>1, <1>2, <1>3

\* The handshake.
LEMMA HandshakeKeeps ==
  ASSUME ClosesTwice = FALSE, WsInv, Handshake
  PROVE  WsInv'
<1> DEFINE id == server.id
           c == World.clients[id]
           k == World.calls[id]
<1>1. Consuming /\ c.state = 0 /\ c.bufs # <<>> /\ id \in DOMAIN World.clients /\ ClientOK(c, k) /\ Sound(World) /\ This = c
  BY AtWork DEF Handshake
<1>2. WorldOK(World) /\ ServerOK(server, World) BY DEF WsInv
<1>3. Gone1 # 0 BY DEF Gone1
<1>4. PICK st \in Stages : c.said = st.said /\ Talks(c, k, st) BY <1>1, <1>3, Talking
<1>5. st.state = 0 /\ st.rest[1] = c.bufs[1] /\ c.sock # Gone1 /\ c \in Client /\ k \in Seq(Event)
  BY <1>1, <1>4, FirstFrame DEF Talks, ClientOK
<1>6. CASE /\ c.bufs[1] = Upgrade /\ UNCHANGED server
           /\ \E W \in Back(Calls([Consumes(World) EXCEPT !.clients[id].state = 1], id, <<"onOpen">>)) : Becomes(W)
  <2>1. PICK s2 \in Stages : Speaks(st, s2, OpenEvent) /\ s2.state = 1 /\ s2.frags = st.frags BY <1>5, <1>6, Handshakes
  <2> DEFINE V == Taken(World, id)
             U == Put(World, id, NextClient(c, s2), Append(k, OpenEvent))
  <2>2. Consumes(World) = V BY DEF Consumes, Taken
  <2>3. V = Put(World, id, Fewer(c), k) BY <1>1, Steps
  <2>4. Fewer(c) \in Client BY <1>1, <1>4, <1>5, FirstFrame DEF Fewer, Client
  <2> HIDE DEF V
  <2>5. SetState(V, id, 1) = Put(World, id, [Fewer(c) EXCEPT !.state = 1], k) BY <1>1, <1>5, <2>3, <2>4, Rewritten
  <2>6. [Fewer(c) EXCEPT !.state = 1] = NextClient(c, s2) /\ NextClient(c, s2) \in Client
    <3>1. c.frags = s2.frags /\ s2.state = 1 BY <1>4, <2>1 DEF Talks
    <3>2. Tail(c.bufs) \in Seq(Frame) BY <1>1, <1>4, <1>5, FirstFrame
    <3>3. c.frags \in Seq(Nat) BY <1>5 DEF Client
    <3> QED BY <1>5, <3>1, <3>2, <3>3, NextClients
  <2>7. Calls(SetState(V, id, 1), id, OpenEvent) = U BY <1>1, <1>5, <2>5, <2>6, Rewritten
  <2>8. PICK W \in Back(U) : Becomes(W) BY <1>6, <2>2, <2>7 DEF SetState, OpenEvent
  <2>9. WorldOK(U) /\ Settled(World, U)
    <3>1. OpenEvent \in Event BY DEF Event
    <3> QED BY <1>1, <1>2, <1>4, <2>1, <3>1, PutNext
  <2> HIDE DEF U
  <2>10. WorldOK(W) /\ Settled(World, W) BY <2>8, <2>9, BackSettles
  <2>11. World' = W BY <2>8, <2>10, Becoming
  <2>12. ServerOK(server, W) BY <1>2, <2>10, ServerStays
  <2> QED BY <1>6, <2>10, <2>11, <2>12 DEF WsInv
<1>7. CASE (\E W \in Back(drop(World, id)) : Becomes(W)) /\ NextHandle
  <2>1. PICK W \in Back(drop(World, id)) : Becomes(W) BY <1>7
  <2>2. WorldOK(W) BY <1>1, <1>2, <1>5, <2>1, DropKeeps, BackKeeps
  <2>3. World' = W BY <2>1, <2>2, Becoming
  <2>4. ServerOK(server', W) BY <1>2, <1>7, NextServer
  <2> QED BY <2>2, <2>3, <2>4 DEF WsInv
<1> QED BY <1>1, <1>6, <1>7 DEF Handshake

\* The frames of an open client.
LEMMA PumpKeeps ==
  ASSUME ClosesTwice = FALSE, WsInv, pumpFrames
  PROVE  WsInv'
<1> DEFINE id == server.id
           c == World.clients[id]
           k == World.calls[id]
           f == c.bufs[1]
           V == Consumes(World)
<1>1. Consuming /\ c.state = 1 /\ c.bufs # <<>> /\ id \in DOMAIN World.clients /\ ClientOK(c, k) /\ Sound(World)
  BY AtWork DEF pumpFrames, Pumps, isOpen
<1>2. WorldOK(World) /\ ServerOK(server, World) /\ UNCHANGED server BY DEF WsInv, pumpFrames
<1>3. Gone1 # 1 BY DEF Gone1
<1>4. PICK st \in Stages : c.said = st.said /\ Talks(c, k, st) BY <1>1, <1>3, Talking
<1>5. /\ st.state = 1 /\ c.sock # Gone1 /\ c.frags = st.frags
      /\ c \in Client /\ k \in Seq(Event) /\ Tail(c.bufs) \in Seq(Frame) /\ c.frags \in Seq(Nat)
  <2>1. c \in Client /\ k \in Seq(Event) BY <1>1 DEF ClientOK
  <2> QED BY <1>1, <1>4, <2>1, FirstFrame DEF Talks, Client
<1>6. PumpsTo(st, f) BY <1>1, <1>4, <1>5, FirstFrame, Pumping
<1>7. PICK W : /\ Becomes(W)
               /\ W \in CASE f[1] = 0 -> Continued(V, id, f)
                          [] f[1] = 1 -> Whole(V, id, f)
                          [] f[1] = 8 -> Back(drop(World, id))
                          [] OTHER -> {V}
  <2>1. This = c BY AtWork, <1>1
  <2> QED BY <2>1 DEF pumpFrames
<1>8. V = Put(World, id, Fewer(c), k) /\ Fewer(c) \in Client
  <2>1. V = Taken(World, id) BY DEF Consumes, Taken
  <2>2. Taken(World, id) = Put(World, id, Fewer(c), k) BY <1>1, Steps
  <2>3. Fewer(c) \in Client BY <1>5 DEF Fewer, Client
  <2> QED BY <2>1, <2>2, <2>3
<1>9. Sound(V) /\ V.clients[id] = Fewer(c) /\ V.calls[id] = k BY <1>1, <1>5, <1>8, PutFacts
<1>10. Fewer(c).frags = c.frags BY <1>5 DEF Fewer, Client
<1> HIDE DEF V
<1>11. SUFFICES WorldOK(W) /\ Settled(World, W)
  <2>1. World' = W BY <1>7, <1>11, Becoming
  <2>2. ServerOK(server, W) BY <1>2, <1>11, ServerStays
  <2> QED BY <1>2, <1>11, <2>1, <2>2 DEF WsInv
<1>12. ASSUME NEW s2 \in Stages, s2.state = 1, NEW e \in Event, NEW l,
              \/ Silent(st, s2) /\ l = k
              \/ Speaks(st, s2, e) /\ l = Append(k, e),
              NEW U, U = Put(World, id, NextClient(c, s2), l)
       PROVE  WorldOK(U) /\ Settled(World, U) /\ \A X \in Back(U) : WorldOK(X) /\ Settled(World, X)
  <2>1. WorldOK(U) /\ Settled(World, U) BY <1>1, <1>2, <1>4, <1>12, PutNext
  <2> QED BY <2>1, BackSettles
<1>13. \A m \in Seq(Nat) : Message(m) \in Event BY DEF Event
<1>14. CASE f[1] = 8
  <2>1. W \in Back(drop(World, id)) BY <1>7, <1>14
  <2> QED BY <1>1, <1>2, <1>5, <2>1, DropSettles, BackSettles
<1>15. CASE f[1] = 0
  <2>1. PICK s2 \in Stages : Speaks(st, s2, Message(st.frags \o f[3])) /\ s2.state = 1 /\ s2.frags = <<>>
    BY <1>6, <1>15 DEF PumpsTo
  <2>2. f[2] = TRUE BY <1>6, <1>15 DEF PumpsTo
  <2> DEFINE e == Message(c.frags \o f[3])
             V2 == SetFrags(V, id, <<>>)
  <2>3. e \in Event
    <3>1. c.bufs \in Seq(Frame) /\ f \in Frame
      <4>1. c.bufs \in Seq(Frame) BY <1>5 DEF Client
      <4> QED BY <4>1, <1>1
    <3>3. f[3] \in Seq(Nat) BY <3>1, Payloads
    <3>4. c.frags \o f[3] \in Seq(Nat) BY <3>3, <1>5
    <3> QED BY <3>4, <1>13
  <2>4. V2 = Put(World, id, NextClient(c, s2), k) /\ NextClient(c, s2) \in Client
    <3>1. <<>> \in Seq(Nat) OBVIOUS
    <3>2. [Fewer(c) EXCEPT !.frags = <<>>] = NextClient(c, s2) /\ NextClient(c, s2) \in Client BY <1>1, <1>5, <2>1, <3>1, NextClients
    <3>3. V2 = Put(World, id, [Fewer(c) EXCEPT !.frags = <<>>], k) BY <1>1, <1>5, <1>8, Rewritten
    <3> QED BY <3>2, <3>3
  <2>5. W \in Back(Calls(V2, id, e))
    <3>1. W \in Continued(V, id, f) BY <1>7, <1>15
    <3> QED BY <3>1, <2>2, <1>9, <1>10 DEF Continued, Deliver, SetFrags, Message
  <2> HIDE DEF V2, e
  <2>6. Calls(V2, id, e) = Put(World, id, NextClient(c, s2), Append(k, e)) BY <1>1, <1>5, <2>4, Rewritten
  <2>7. Speaks(st, s2, e) BY <2>1, <1>5 DEF e
  <2> QED BY <1>12, <2>1, <2>3, <2>5, <2>6, <2>7
<1>16. CASE f[1] = 1 /\ f[2] = TRUE
  <2>1. PICK s2 \in Stages : Speaks(st, s2, Message(f[3])) /\ s2.state = 1 /\ s2.frags = st.frags
    BY SMTT(40), <1>6, <1>16 DEF PumpsTo
  <2> DEFINE e == Message(f[3])
  <2>3. e \in Event
    <3>1. c.bufs \in Seq(Frame) /\ f \in Frame
      <4>1. c.bufs \in Seq(Frame) BY <1>5 DEF Client
      <4> QED BY <4>1, <1>1
    <3>3. f[3] \in Seq(Nat) BY <3>1, Payloads
    <3> QED BY <3>3, <1>13
  <2>4. V = Put(World, id, NextClient(c, s2), k) /\ NextClient(c, s2) \in Client BY <1>1, <1>5, <1>8, <2>1, NextClients
  <2>5. W \in Back(Calls(V, id, e))
    <3>1. W \in Whole(V, id, f) BY <1>7, <1>16
    <3> QED BY <3>1, <1>16 DEF Whole, Deliver, Message
  <2> HIDE DEF e
  <2>6. Calls(V, id, e) = Put(World, id, NextClient(c, s2), Append(k, e)) BY <1>1, <1>5, <2>4, Rewritten
  <2>7. Speaks(st, s2, e) BY <2>1 DEF e
  <2> QED BY <1>12, <2>1, <2>3, <2>5, <2>6, <2>7
<1>17. CASE f[1] = 1 /\ f[2] = FALSE
  <2>1. PICK s2 \in Stages : Silent(st, s2) /\ s2.state = 1 /\ s2.frags = f[3]
    BY <1>6, <1>17 DEF PumpsTo
  <2>2. f[3] \in Seq(Nat)
    <3>1. <<>> \in Seq(Nat) /\ <<1>> \in Seq(Nat) OBVIOUS
    <3> QED BY <2>1, <3>1, StageTypes
  <2>3. SetFrags(V, id, f[3]) = Put(World, id, NextClient(c, s2), k)
    <3>1. [Fewer(c) EXCEPT !.frags = f[3]] = NextClient(c, s2) BY SMTT(40), <1>1, <1>5, <2>1, <2>2, NextClients
    <3>2. SetFrags(V, id, f[3]) = Put(World, id, [Fewer(c) EXCEPT !.frags = f[3]], k) BY <1>1, <1>5, <1>8, Rewritten
    <3> QED BY <3>1, <3>2
  <2>4. W = SetFrags(V, id, f[3])
    <3>1. W \in Whole(V, id, f) BY <1>7, <1>17
    <3> QED BY <3>1, <1>17 DEF Whole, SetFrags
  <2>5. OpenEvent \in Event BY DEF Event
  <2> QED BY <1>12, <2>1, <2>3, <2>4, <2>5
<1>18. CASE f[1] = 9
  <2>1. PICK s2 \in Stages : Silent(st, s2) /\ s2.state = 1 /\ s2.frags = st.frags
    BY <1>6, <1>18 DEF PumpsTo
  <2>2. V = Put(World, id, NextClient(c, s2), k) BY <1>1, <1>5, <1>8, <2>1, NextClients
  <2>3. W = V BY <1>7, <1>18
  <2>4. OpenEvent \in Event BY DEF Event
  <2> QED BY <1>12, <2>1, <2>2, <2>3, <2>4
<1> QED BY <1>6, <1>14, <1>15, <1>16, <1>17, <1>18 DEF PumpsTo

\* The steps that only move the server.
LEMMA ServerMoves ==
  ASSUME WsInv, UNCHANGED <<clients, calls>>, TickBegins \/ Skip1 \/ PumpEnds \/ TickEnds
  PROVE  WsInv'
<1>1. World' = World BY DEF World
<1>2. /\ server \in [at : {"ready", "reads", "consume"}, ready : SUBSET (Int \ {Gone1}), id : Nat]
      /\ World.clients \in Seq(Client) /\ World.clients = clients
  BY DEF WsInv, ServerOK, WorldOK, World
<1>3. ServerOK(server', World)
  <2>1. CASE TickBegins
    <3>1. {clients[id].sock : id \in {i \in Ids : HasInput(i)}} \in SUBSET (Int \ {Gone1})
      <4>1. \A i \in Ids : clients[i] \in Client BY <1>2 DEF Ids
      <4>2. \A i \in Ids : clients[i].sock \in Int BY <4>1 DEF Client
      <4> QED BY <4>2 DEF HasInput
    <3> QED BY <1>2, <2>1, <3>1 DEF TickBegins, ServerOK
  <2>2. CASE Skip1
    <3>1. PICK h : server' = Handled(h) /\ server.at = "reads" BY <2>2 DEF Skip1
    <3> QED BY <1>2, <3>1 DEF Handled, ServerOK
  <2>3. CASE PumpEnds BY <1>2, <2>3 DEF PumpEnds, NextHandle, ServerOK
  <2>4. CASE TickEnds
    <3>1. server' = [at |-> "ready", ready |-> {}, id |-> 0] BY <2>4 DEF TickEnds, Waiting
    <3> QED BY <3>1 DEF ServerOK
  <2> QED BY <2>1, <2>2, <2>3, <2>4
<1> QED BY <1>1, <1>3 DEF WsInv

\* One client's own steps: it is put in anew, its calls stay.
LEMMA ClientMoves ==
  ASSUME WsInv, NEW id \in Ids, NEW d, ClientOK(d, calls[id]), clients' = [clients EXCEPT ![id] = d], UNCHANGED calls
  PROVE  /\ WorldOK(World') /\ World'.clients[id] = d /\ DOMAIN World'.clients = DOMAIN World.clients
         /\ \A j \in Ids \ {id} : World'.clients[j] = World.clients[j]
<1>1. WorldOK(World) /\ World.clients = clients /\ World.calls = calls /\ id \in DOMAIN World.clients /\ Ids = DOMAIN World.clients
  BY DEF WsInv, WorldOK, World, Ids
<1>2. calls = [calls EXCEPT ![id] = calls[id]]
  <2>1. calls \in Seq(Seq(Event)) BY <1>1 DEF WorldOK
  <2> QED BY <2>1
<1>3. World' = Put(World, id, d, calls[id]) BY <1>1, <1>2 DEF World, Put
<1> QED BY <1>1, <1>3, PutKeeps

\* Concatenation is associative.
LEMMA Assoc ==
  ASSUME NEW x \in Seq(Frame), NEW y \in Seq(Frame), NEW z \in Seq(Frame)
  PROVE  (x \o y) \o z = x \o (y \o z)
BY ConcatAssociative

\* The frames of a client that are to be worked off.
Todo(b, w, l) == b \o (w \o l)

\* Frames that are read go from a client's wire to its buffer.
LEMMA ReadMoves ==
  ASSUME NEW b \in Seq(Frame), NEW w \in Seq(Frame), NEW l \in Seq(Frame), NEW n \in 1..Len(w)
  PROVE  /\ b \o SubSeq(w, 1, n) \in Seq(Frame) /\ SubSeq(w, n + 1, Len(w)) \in Seq(Frame)
         /\ b \o SubSeq(w, 1, n) # <<>>
         /\ Todo(b \o SubSeq(w, 1, n), SubSeq(w, n + 1, Len(w)), l) = Todo(b, w, l)
<1>1. PICK x : x = SubSeq(w, 1, n) OBVIOUS
<1>2. PICK y : y = SubSeq(w, n + 1, Len(w)) OBVIOUS
<1>3. x \in Seq(Frame) /\ Len(x) = n
  <2>1. \A i \in 1..n : w[i] \in Frame OBVIOUS
  <2> QED BY <1>1, <2>1, SubSeqProperties
<1>4. y \in Seq(Frame)
  <2>1. \A i \in (n + 1)..Len(w) : w[i] \in Frame OBVIOUS
  <2>2. n + 1 \in Int /\ Len(w) \in Int OBVIOUS
  <2> QED BY <1>2, <2>1, <2>2, SubSeqProperties
<1>5. x \o y = w
  <2>1. 1 \in 1..(Len(w) + 1) /\ n \in (1 - 1)..Len(w) /\ Len(w) \in n..Len(w) OBVIOUS
  <2>2. SubSeq(w, 1, n) \o SubSeq(w, n + 1, Len(w)) = SubSeq(w, 1, Len(w)) BY <2>1, ConcatAdjacentSubSeq
  <2> QED BY <1>1, <1>2, <2>2, SubSeqFull
<1>6. x # <<>> BY <1>3
<1>7. b \o x \in Seq(Frame) /\ b \o x # <<>> BY <1>3, <1>6, ConcatEqualIffEmpty, ConcatProperties
<1>8. (b \o x) \o (y \o l) = b \o (w \o l)
  <2>1. y \o l \in Seq(Frame) BY <1>4, ConcatProperties
  <2>2. PICK z \in Seq(Frame) : z = y \o l BY <2>1
  <2>3. (b \o x) \o z = b \o (x \o z) BY ZenonT(60), <1>3, Assoc
  <2>4. (x \o y) \o l = x \o (y \o l) BY ZenonT(60), <1>3, <1>4, Assoc
  <2> QED BY <1>5, <2>2, <2>3, <2>4
<1> QED BY <1>1, <1>2, <1>4, <1>7, <1>8 DEF Todo

\* A frame that is written goes from what is left to a client's wire.
LEMMA WriteMoves ==
  ASSUME NEW b \in Seq(Frame), NEW w \in Seq(Frame), NEW l \in Seq(Frame), l # <<>>
  PROVE  /\ Append(w, Head(l)) \in Seq(Frame) /\ Tail(l) \in Seq(Frame)
         /\ b \o (Append(w, Head(l)) \o Tail(l)) = b \o (w \o l)
<1>1. Head(l) \in Frame /\ Tail(l) \in Seq(Frame) BY HeadTailProperties
<1>2. Append(w, Head(l)) \in Seq(Frame) /\ Append(w, Head(l)) = w \o <<Head(l)>> BY <1>1, AppendIsConcat, AppendProperties
<1>3. <<Head(l)>> \in Seq(Frame) BY <1>1
<1>4. l = <<Head(l)>> \o Tail(l)
  <2>1. 1 \in 1..Len(l) /\ Len(l) \in 1..Len(l) OBVIOUS
  <2>2. SubSeq(l, 1, Len(l)) = <<l[1]>> \o SubSeq(l, 1 + 1, Len(l)) BY <2>1, SubSeqRecursiveFirst
  <2>3. SubSeq(l, 1, Len(l)) = l BY SubSeqFull
  <2>4. Tail(l) = SubSeq(l, 2, Len(l)) BY TailIsSubSeq
  <2> QED BY <2>2, <2>3, <2>4
<1>5. (w \o <<Head(l)>>) \o Tail(l) = w \o (<<Head(l)>> \o Tail(l)) BY <1>1, <1>3, ConcatAssociative
<1> QED BY <1>1, <1>2, <1>4, <1>5

\* A client whose frames have only moved is in order as before.
LEMMA FramesMove ==
  ASSUME NEW c, NEW k, ClientOK(c, k), NEW d \in Client,
         d.sock = c.sock, d.state = c.state, d.frags = c.frags, d.said = c.said,
         c.sock # Gone1 => d.bufs \o (d.wire \o d.left) = c.bufs \o (c.wire \o c.left)
  PROVE  ClientOK(d, k)
BY DEF ClientOK, Talks, HasGone

\* A client whose peer has written.
Written(c, w, l) == [c EXCEPT !.wire = w, !.left = l]

\* The peers.
LEMMA PeersKeep ==
  ASSUME WsInv, PeerWrites \/ PeerLeaves
  PROVE  WsInv'
<1>1. WorldOK(World) /\ ServerOK(server, World) /\ World.clients = clients /\ World.calls = calls /\ Ids = DOMAIN World.clients
  BY DEF WsInv, WorldOK, World, Ids
<1>2. \A i \in Ids : ClientOK(clients[i], calls[i]) BY <1>1 DEF WorldOK
<1>3. ASSUME NEW id \in Ids, NEW d, ClientOK(d, calls[id]), clients' = [clients EXCEPT ![id] = d], UNCHANGED <<calls, server>>,
             d.state = clients[id].state, d.bufs = clients[id].bufs
      PROVE  WsInv'
  <2>1. /\ WorldOK(World') /\ World'.clients[id] = d /\ DOMAIN World'.clients = DOMAIN World.clients
        /\ \A j \in Ids \ {id} : World'.clients[j] = World.clients[j]
    BY <1>3, ClientMoves
  <2>2. ServerOK(server, World')
    <3>1. server.at = "consume" => World'.clients[server.id].state = World.clients[server.id].state
                                   /\ World'.clients[server.id].bufs = World.clients[server.id].bufs
      BY <1>1, <1>3, <2>1 DEF ServerOK
    <3> QED BY <1>1, <2>1, <3>1 DEF ServerOK
  <2> QED BY <1>3, <2>1, <2>2 DEF WsInv
<1>4. CASE PeerWrites
  <2>1. PICK id \in Ids :
           /\ clients[id].left # <<>> /\ UNCHANGED <<calls, server>>
           /\ clients' = [clients EXCEPT ![id] = Written(clients[id], Append(clients[id].wire, Head(clients[id].left)), Tail(clients[id].left))]
    BY <1>4 DEF PeerWrites, Written
  <2>2. PICK c : c = clients[id] OBVIOUS
  <2>3. PICK d : d = Written(c, Append(c.wire, Head(c.left)), Tail(c.left)) OBVIOUS
  <2>4. c \in Client /\ ClientOK(c, calls[id]) /\ c.left # <<>> BY <1>2, <2>1, <2>2 DEF ClientOK
  <2>5. c.bufs \in Seq(Frame) /\ c.wire \in Seq(Frame) /\ c.left \in Seq(Frame) BY <2>4 DEF Client
  <2>6. /\ Append(c.wire, Head(c.left)) \in Seq(Frame) /\ Tail(c.left) \in Seq(Frame)
        /\ c.bufs \o (Append(c.wire, Head(c.left)) \o Tail(c.left)) = c.bufs \o (c.wire \o c.left)
    BY ZenonT(60), <2>4, <2>5, WriteMoves
  <2>7. /\ d \in Client /\ d.sock = c.sock /\ d.state = c.state /\ d.frags = c.frags /\ d.said = c.said /\ d.bufs = c.bufs
        /\ d.wire = Append(c.wire, Head(c.left)) /\ d.left = Tail(c.left)
    <3>1. PICK w \in Seq(Frame) : w = Append(c.wire, Head(c.left)) BY <2>6
    <3>2. PICK l \in Seq(Frame) : l = Tail(c.left) BY <2>6
    <3>3. d = [c EXCEPT !.wire = w, !.left = l] BY <2>3, <3>1, <3>2, Zenon DEF Written
    <3> QED BY <3>1, <3>2, <3>3, <2>4 DEF Client
  <2>8. ClientOK(d, calls[id]) BY <2>4, <2>6, <2>7, FramesMove
  <2>9. clients' = [clients EXCEPT ![id] = d] BY <2>1, <2>2, <2>3, Zenon
  <2> QED BY <1>3, <2>1, <2>2, <2>7, <2>8, <2>9
<1>5. CASE PeerLeaves
  <2>1. PICK id \in Ids : clients' = [clients EXCEPT ![id].over = TRUE] /\ UNCHANGED <<calls, server>> BY <1>5 DEF PeerLeaves
  <2>2. PICK c : c = clients[id] OBVIOUS
  <2>3. PICK d : d = [c EXCEPT !.over = TRUE] OBVIOUS
  <2>4. c \in Client /\ ClientOK(c, calls[id]) BY <1>2, <2>1, <2>2 DEF ClientOK
  <2>5. /\ d \in Client /\ d.sock = c.sock /\ d.state = c.state /\ d.frags = c.frags /\ d.said = c.said /\ d.bufs = c.bufs
        /\ d.wire = c.wire /\ d.left = c.left
    BY <2>3, <2>4 DEF Client
  <2>6. ClientOK(d, calls[id]) BY <2>4, <2>5, FramesMove
  <2>7. clients' = [clients EXCEPT ![id] = d] BY <2>1, <2>2, <2>3
  <2> QED BY <1>3, <2>1, <2>2, <2>5, <2>6, <2>7
<1> QED BY <1>4, <1>5

\* A client whose frames have been read.
Received(c, b, w) == [c EXCEPT !.bufs = b, !.wire = w]

\* Reading a client.
LEMMA ReadKeeps ==
  ASSUME ClosesTwice = FALSE, WsInv, read_client
  PROVE  WsInv'
<1>1. /\ WorldOK(World) /\ ServerOK(server, World) /\ World.clients = clients /\ World.calls = calls
      /\ Ids = DOMAIN World.clients
  BY DEF WsInv, WorldOK, World, Ids
<1> DEFINE Reads(h, id) ==
        IF clients[id].wire # <<>>
        THEN /\ \E n \in 1..Len(clients[id].wire) :
                  clients' = [clients EXCEPT ![id] = Received(clients[id], clients[id].bufs \o SubSeq(clients[id].wire, 1, n),
                                                              SubSeq(clients[id].wire, n + 1, Len(clients[id].wire)))]
             /\ server' = [Handled(h) EXCEPT !.at = "consume", !.id = id]
             /\ UNCHANGED calls
        ELSE /\ \E W \in IF clients[id].over THEN Back(drop(World, id)) ELSE {World} : Becomes(W)
             /\ server' = Handled(h)
<1>0. PICK h \in server.ready : \E id \in idOf(h) : Reads(h, id) BY DEF read_client, Received
<1>2. PICK id \in idOf(h) : Reads(h, id) BY <1>0
<1>3. /\ server.at = "reads" /\ h \in server.ready
      /\ server \in [at : {"ready", "reads", "consume"}, ready : SUBSET (Int \ {Gone1}), id : Nat]
  BY <1>0, <1>1 DEF read_client, ServerOK
<1>4. id \in Ids /\ clients[id].sock = h /\ h # Gone1 BY <1>2, <1>3 DEF idOf
<1>5. PICK c : c = clients[id] OBVIOUS
<1>6. c \in Client /\ ClientOK(c, calls[id]) /\ c.sock # Gone1 BY <1>1, <1>4, <1>5 DEF WorldOK, ClientOK
<1>7. CASE c.wire # <<>>
  <2>1. PICK n \in 1..Len(c.wire) :
          clients' = [clients EXCEPT ![id] = Received(c, c.bufs \o SubSeq(c.wire, 1, n), SubSeq(c.wire, n + 1, Len(c.wire)))]
    BY <1>2, <1>5, <1>7, Zenon
  <2>2. server' = [Handled(h) EXCEPT !.at = "consume", !.id = id] /\ UNCHANGED calls BY <1>2, <1>5, <1>7, Zenon
  <2>3. PICK d : d = Received(c, c.bufs \o SubSeq(c.wire, 1, n), SubSeq(c.wire, n + 1, Len(c.wire))) OBVIOUS
  <2>4. c.bufs \in Seq(Frame) /\ c.wire \in Seq(Frame) /\ c.left \in Seq(Frame) BY <1>6 DEF Client
  <2>5. PICK b \in Seq(Frame) : b = c.bufs \o SubSeq(c.wire, 1, n) BY <2>4, ReadMoves
  <2>6. PICK w \in Seq(Frame) : w = SubSeq(c.wire, n + 1, Len(c.wire)) BY <2>4, ReadMoves
  <2>7. b # <<>> /\ b \o (w \o c.left) = c.bufs \o (c.wire \o c.left)
    <3>1. PICK b0 \in Seq(Frame) : b0 = c.bufs BY <2>4
    <3>2. PICK w0 \in Seq(Frame) : w0 = c.wire BY <2>4
    <3>3. PICK l0 \in Seq(Frame) : l0 = c.left BY <2>4
    <3>4. n \in 1..Len(w0) BY <3>2
    <3>5. /\ b0 \o SubSeq(w0, 1, n) # <<>>
          /\ Todo(b0 \o SubSeq(w0, 1, n), SubSeq(w0, n + 1, Len(w0)), l0) = Todo(b0, w0, l0)
      BY ZenonT(60), <3>4, ReadMoves
    <3>6. b = b0 \o SubSeq(w0, 1, n) BY <2>5, <3>1, <3>2
    <3>7. w = SubSeq(w0, n + 1, Len(w0)) BY <2>6, <3>2
    <3>8. b # <<>> /\ Todo(b, w, l0) = Todo(b0, w0, l0) BY <3>5, <3>6, <3>7
    <3> QED BY <3>1, <3>2, <3>3, <3>8 DEF Todo
  <2>8. d = [c EXCEPT !.bufs = b, !.wire = w] BY <2>3, <2>5, <2>6, Zenon DEF Received
  <2>9. /\ d \in Client /\ d.sock = c.sock /\ d.state = c.state /\ d.frags = c.frags /\ d.said = c.said /\ d.left = c.left
        /\ d.bufs = b /\ d.wire = w
    BY <2>8, <1>6 DEF Client
  <2>10. ClientOK(d, calls[id]) BY <1>6, <2>7, <2>9, FramesMove
  <2>11. clients' = [clients EXCEPT ![id] = d] BY <2>1, <2>3, Zenon
  <2>12. /\ WorldOK(World') /\ World'.clients[id] = d /\ DOMAIN World'.clients = DOMAIN World.clients
    BY <1>4, <2>2, <2>10, <2>11, ClientMoves
  <2>13. ServerOK(server', World')
    <3>1. server'.at = "consume" /\ server'.id = id /\ server'.ready \in SUBSET (Int \ {Gone1}) /\ id \in Nat
          /\ server' \in [at : {"ready", "reads", "consume"}, ready : SUBSET (Int \ {Gone1}), id : Nat]
      <4>1. id \in Nat BY <1>4 DEF Ids
      <4>2. Handled(h) \in [at : {"reads"}, ready : SUBSET (Int \ {Gone1}), id : Nat] BY <1>3 DEF Handled
      <4> QED BY <2>2, <4>1, <4>2
    <3> QED BY <1>1, <1>4, <2>7, <2>9, <2>12, <3>1 DEF ServerOK
  <2> QED BY <2>12, <2>13 DEF WsInv
<1>8. CASE c.wire = <<>>
  <2>1. server' = Handled(h) /\ \E W \in IF c.over THEN Back(drop(World, id)) ELSE {World} : Becomes(W)
    BY <1>2, <1>5, <1>8, Zenon
  <2>2. PICK W : Becomes(W) /\ W \in IF c.over THEN Back(drop(World, id)) ELSE {World} BY <2>1
  <2>3. WorldOK(W)
    <3>1. CASE W = World BY <3>1, <1>1
    <3>2. CASE W \in Back(drop(World, id)) BY <1>1, <1>4, <1>5, <1>6, <3>2, DropKeeps, BackKeeps
    <3> QED BY <2>2, <3>1, <3>2
  <2>4. World' = W BY <2>2, <2>3, Becoming
  <2>5. ServerOK(server', W)
    <3>1. server' \in [at : {"reads"}, ready : SUBSET (Int \ {Gone1}), id : Nat] BY <1>3, <2>1 DEF Handled
    <3> QED BY <3>1 DEF ServerOK
  <2> QED BY <2>3, <2>4, <2>5 DEF WsInv
<1> QED BY <1>7, <1>8

\* A client at its first stage.
LEMMA Begins ==
  ASSUME NEW s \in Scripts
  PROVE  \E st \in Stages : /\ st.said = s.messages /\ st.heard = 0 /\ st.state = 0 /\ st.frags = <<>>
                            /\ st.rest = s.frames
<1>1. CASE s = [frames |-> <<BadRequest>>, messages |-> <<>>]
  <2> DEFINE st == Stage(<<>>, 0, 0, <<>>, <<BadRequest>>)
  <2>1. st \in Stages BY DEF Stages
  <2>2. st.said = <<>> /\ st.heard = 0 /\ st.state = 0 /\ st.frags = <<>> /\ st.rest = <<BadRequest>> BY DEF Stage
  <2>3. s.messages = <<>> /\ s.frames = <<BadRequest>> BY <1>1
  <2> QED BY <2>1, <2>2, <2>3, Zenon
<1>2. CASE s = [frames |-> <<Upgrade, Text(1), Text(2), CloseFrame>>, messages |-> <<<<1>>, <<2>>>>]
  <2> DEFINE st == Stage(TwoTexts, 0, 0, <<>>, <<Upgrade, Text(1), Text(2), CloseFrame>>)
  <2>1. st \in Stages BY DEF Stages
  <2>2. /\ st.said = TwoTexts /\ st.heard = 0 /\ st.state = 0 /\ st.frags = <<>>
        /\ st.rest = <<Upgrade, Text(1), Text(2), CloseFrame>>
    BY DEF Stage
  <2>3. s.messages = TwoTexts /\ s.frames = <<Upgrade, Text(1), Text(2), CloseFrame>> BY <1>2 DEF TwoTexts
  <2> QED BY <2>1, <2>2, <2>3, Zenon
<1>3. CASE s = [frames |-> <<Upgrade, Begun(1), Ping, Rest(1), Text(2)>>, messages |-> <<<<1, 1>>, <<2>>>>]
  <2> DEFINE st == Stage(CutText, 0, 0, <<>>, <<Upgrade, Begun(1), Ping, Rest(1), Text(2)>>)
  <2>1. st \in Stages BY DEF Stages
  <2>2. /\ st.said = CutText /\ st.heard = 0 /\ st.state = 0 /\ st.frags = <<>>
        /\ st.rest = <<Upgrade, Begun(1), Ping, Rest(1), Text(2)>>
    BY DEF Stage
  <2>3. s.messages = CutText /\ s.frames = <<Upgrade, Begun(1), Ping, Rest(1), Text(2)>> BY <1>3 DEF CutText
  <2> QED BY <2>1, <2>2, <2>3, Zenon
<1> QED BY <1>1, <1>2, <1>3 DEF Scripts

\* Accepting.
LEMMA ClientAccepted ==
  ASSUME WsInv, accept_all
  PROVE  WsInv'
<1>1. /\ WorldOK(World) /\ ServerOK(server, World) /\ World.clients = clients /\ World.calls = calls
      /\ clients \in Seq(Client) /\ calls \in Seq(Seq(Event)) /\ Len(clients) = Len(calls)
  BY DEF WsInv, WorldOK, World
<1>2. PICK s \in Scripts : \E h \in NewSock({clients[i].sock : i \in Ids}) :
        clients' = Append(clients, [sock |-> h, state |-> 0, bufs |-> <<>>, frags |-> <<>>, wire |-> <<>>,
                                    over |-> FALSE, left |-> s.frames, said |-> s.messages])
  BY DEF accept_all
<1>3. PICK h \in NewSock({clients[i].sock : i \in Ids}) :
        clients' = Append(clients, [sock |-> h, state |-> 0, bufs |-> <<>>, frags |-> <<>>, wire |-> <<>>,
                                    over |-> FALSE, left |-> s.frames, said |-> s.messages])
  BY <1>2
<1>4. h \in Int /\ h # Gone1 BY WebSocketAssumption DEF NewSock, Gone1
<1>5. PICK st \in Stages : st.said = s.messages /\ st.heard = 0 /\ st.state = 0 /\ st.frags = <<>> /\ st.rest = s.frames
  BY Begins
<1>6. PICK l \in Seq(Frame) : l = s.frames BY <1>5, StageTypes
<1>7. PICK m \in Seq(Seq(Nat)) : m = s.messages BY <1>5, StageTypes, SaidTypes
<1>8. PICK d : d = [sock |-> h, state |-> 0, bufs |-> <<>>, frags |-> <<>>, wire |-> <<>>, over |-> FALSE, left |-> l, said |-> m]
  OBVIOUS
<1>9. clients' = Append(clients, d) BY <1>3, <1>6, <1>7, <1>8
<1>10. d \in Client
  <2>1. <<>> \in Seq(Frame) /\ <<>> \in Seq(Nat) /\ 0 \in Int /\ FALSE \in BOOLEAN OBVIOUS
  <2> QED BY <1>4, <1>8, <2>1 DEF Client
<1>11. /\ d.sock # Gone1 /\ d.state = st.state /\ d.frags = st.frags /\ d.said = st.said
       /\ d.bufs = <<>> /\ d.wire = <<>> /\ d.left = st.rest /\ d.left \in Seq(Frame)
  BY <1>4, <1>5, <1>6, <1>7, <1>8
<1>12. <<>> = Heard(st)
  <2>1. Len(Heard(st)) = 0 /\ Heard(st) \in Seq(Event) BY <1>5, HeardFacts
  <2> QED BY <2>1
<1>13. ClientOK(d, <<>>)
  <2>1. d.bufs \o (d.wire \o d.left) = st.rest BY <1>11, ConcatEmptySeq
  <2>2. Talks(d, <<>>, st) BY <1>11, <1>12, <2>1 DEF Talks
  <2>3. <<>> \in Seq(Event) OBVIOUS
  <2> QED BY <1>10, <1>11, <2>2, <2>3 DEF ClientOK
<1>14. /\ clients' \in Seq(Client) /\ Len(clients') = Len(clients) + 1 /\ clients'[Len(clients) + 1] = d
       /\ \A i \in 1..Len(clients) : clients'[i] = clients[i]
  BY <1>1, <1>9, <1>10, AppendProperties
<1>15. /\ calls' \in Seq(Seq(Event)) /\ Len(calls') = Len(calls) + 1 /\ calls'[Len(calls) + 1] = <<>>
       /\ \A i \in 1..Len(calls) : calls'[i] = calls[i]
  <2>1. <<>> \in Seq(Event) OBVIOUS
  <2>2. calls' = Append(calls, <<>>) BY DEF accept_all
  <2> QED BY <1>1, <2>1, <2>2, AppendProperties
<1>16. WorldOK(World')
  <2>1. World' \in [clients : Seq(Client), calls : Seq(Seq(Event))] /\ Len(World'.clients) = Len(World'.calls)
    BY <1>1, <1>14, <1>15 DEF World
  <2>2. ASSUME NEW i \in DOMAIN clients' PROVE ClientOK(clients'[i], calls'[i])
    <3>1. PICK n \in Nat : n = Len(clients) BY <1>1
    <3>2. i \in 1..n \/ i = n + 1 BY <1>14, <3>1
    <3>3. CASE i \in 1..n
      <4>1. clients'[i] = clients[i] /\ calls'[i] = calls[i] /\ i \in DOMAIN clients BY SMTT(40), <1>1, <1>14, <1>15, <3>1, <3>3
      <4> QED BY <4>1, <1>1 DEF WorldOK
    <3>4. CASE i = n + 1 BY <1>1, <1>13, <1>14, <1>15, <3>1, <3>4
    <3> QED BY <3>2, <3>3, <3>4
  <2> QED BY <2>1, <2>2 DEF WorldOK, World
<1>17. ServerOK(server', World') BY <1>1 DEF accept_all, ServerOK
<1> QED BY <1>16, <1>17 DEF WsInv

(***************************************************************************)
(* The story.                                                              *)
(***************************************************************************)
\* A client that is in order has heard a part of its story, and onClose behind it when it is gone.
LEMMA StoryOf ==
  ASSUME NEW c, NEW k, ClientOK(c, k)
  PROVE  LET closed == k # <<>> /\ Last(k) = <<"onClose">>
             before == IF closed THEN Front(k) ELSE k
         IN  /\ IsPrefix(before, Story(c.said))
             /\ closed <=> c.sock = Gone1
<1>1. PICK st \in Stages : c.said = st.said /\ (Talks(c, k, st) \/ HasGone(c, k, st)) BY DEF ClientOK
<1>2. PICK x : x = Heard(st) OBVIOUS
<1>3. PICK s : s = Story(st.said) OBVIOUS
<1>4. PICK n : n = st.heard OBVIOUS
<1>5. /\ x \in Seq(Event) /\ Len(x) = n /\ s \in Seq(Event) /\ n \in 0..Len(s)
      /\ \A i \in 1..n : x[i] = s[i]
  BY <1>2, <1>3, <1>4, HeardFacts
<1>6. IsPrefix(x, s)
  <2>1. SubSeq(x, 1, Len(x)) = x BY <1>5, SubSeqFull
  <2>2. x = SubSeq(s, 1, n) BY <1>2, <1>3, <1>4 DEF Heard
  <2> QED BY <1>5, <2>1, <2>2 DEF IsPrefix
<1>7. \A i \in 1..n : x[i] # CloseEvent
  <2>1. st.said \in Seq(Seq(Nat)) BY StageTypes, SaidTypes
  <2>2. OpenEvent # CloseEvent /\ \A m : Message(m) # CloseEvent BY DEF OpenEvent, CloseEvent, Message
  <2>3. ASSUME NEW i \in 1..n PROVE s[i] # CloseEvent
    <3>1. CASE i = 1 BY <1>3, <2>1, <2>2, <3>1, StoryFacts
    <3>2. CASE i # 1
      <4>1. Len(s) = Len(st.said) + 1 /\ Len(st.said) \in Nat BY <1>3, <2>1, StoryFacts
      <4>2. i - 1 \in 1..Len(st.said) /\ i = (i - 1) + 1 BY <1>5, <3>2, <4>1
      <4>3. s[(i - 1) + 1] = Message(st.said[i - 1]) BY <1>3, <2>1, <4>2, StoryFacts
      <4> QED BY <2>2, <4>2, <4>3
    <3> QED BY <3>1, <3>2
  <2> QED BY <1>5, <2>3
<1>8. CASE Talks(c, k, st)
  <2>1. k = x /\ c.sock # Gone1 BY <1>2, <1>8 DEF Talks
  <2>2. k # <<>> => Last(k) # CloseEvent
    <3>1. SUFFICES ASSUME k # <<>> PROVE k[Len(k)] # CloseEvent BY DEF Last
    <3>2. Len(k) \in 1..n BY <1>5, <2>1, <3>1
    <3> QED BY <1>7, <2>1, <3>2
  <2> QED BY <1>1, <1>3, <1>6, <2>1, <2>2 DEF CloseEvent
<1>9. CASE HasGone(c, k, st)
  <2>1. k = Append(x, CloseEvent) /\ c.sock = Gone1 BY <1>2, <1>9 DEF HasGone
  <2>2. CloseEvent \in Event BY DEF Event
  <2>3. /\ k \in Seq(Event) /\ Len(k) = n + 1 /\ k[n + 1] = CloseEvent /\ \A i \in 1..n : k[i] = x[i] /\ k # <<>>
    BY <1>5, <2>1, <2>2, AppendProperties
  <2>4. Last(k) = CloseEvent BY <2>3 DEF Last
  <2>5. Front(k) = x
    <3>1. (n + 1) - 1 = n /\ n \in Nat BY <1>5
    <3>2. Front(k) = SubSeq(k, 1, n) BY <2>3, <3>1 DEF Front
    <3>3. \A i \in 1..n : k[i] \in Event BY <2>3, <3>1
    <3>4. /\ SubSeq(k, 1, n) \in Seq(Event) /\ Len(SubSeq(k, 1, n)) = (IF 1 <= n THEN n - 1 + 1 ELSE 0)
          /\ \A i \in 1..(n - 1 + 1) : SubSeq(k, 1, n)[i] = k[1 + i - 1]
      BY <3>1, <3>3, SubSeqProperties
    <3>5. Len(SubSeq(k, 1, n)) = n /\ \A i \in 1..n : SubSeq(k, 1, n)[i] = x[i] BY <2>3, <3>1, <3>4
    <3> QED BY <1>5, <3>2, <3>4, <3>5, SeqEqual
  <2> QED BY <1>1, <1>3, <1>6, <2>1, <2>3, <2>4, <2>5 DEF CloseEvent
<1> QED BY <1>1, <1>8, <1>9

\* For programs that close no client twice the program hears each client's story, in the order it
\* was told, and onClose once and last (accept_all, read_client, Handshake, pumpFrames and drop of
\* lib/websocket), whatever part of it each read brings and whoever is closed in a callback.
THEOREM ClientStoryHolds == ClosesTwice = FALSE /\ WsSpec => []ClientStory
<1> SUFFICES ASSUME ClosesTwice = FALSE PROVE WsSpec => []ClientStory OBVIOUS
<1>1. WsInit => WsInv
  <2> SUFFICES ASSUME WsInit PROVE WsInv OBVIOUS
  <2>1. clients = <<>> /\ calls = <<>> /\ server = [at |-> "ready", ready |-> {}, id |-> 0] BY DEF WsInit, Waiting
  <2>2. WorldOK(World) BY <2>1 DEF WorldOK, World
  <2>3. ServerOK(server, World) BY <2>1 DEF ServerOK
  <2> QED BY <2>2, <2>3 DEF WsInv
<1>2. WsInv /\ [WsNext]_wsVars => WsInv'
  <2> SUFFICES ASSUME WsInv, [WsNext]_wsVars PROVE WsInv' OBVIOUS
  <2>1. CASE TickBegins \/ Skip1 \/ PumpEnds \/ TickEnds
    <3>1. UNCHANGED <<clients, calls>> BY <2>1 DEF TickBegins, Skip1, PumpEnds, TickEnds
    <3> QED BY <2>1, <3>1, ServerMoves
  <2>2. CASE accept_all BY <2>2, ClientAccepted
  <2>3. CASE read_client BY <2>3, ReadKeeps
  <2>4. CASE Handshake BY <2>4, HandshakeKeeps
  <2>5. CASE pumpFrames BY <2>5, PumpKeeps
  <2>6. CASE PeerWrites \/ PeerLeaves BY <2>6, PeersKeep
  <2>7. CASE UNCHANGED wsVars
    <3>1. World' = World /\ server' = server BY <2>7 DEF wsVars, World
    <3> QED BY <3>1 DEF WsInv
  <2> QED BY <2>1, <2>2, <2>3, <2>4, <2>5, <2>6, <2>7 DEF WsNext
<1>3. WsInv => ClientStory
  <2> SUFFICES ASSUME WsInv, NEW id \in Ids
               PROVE  LET c == calls[id]
                          closed == c # <<>> /\ Last(c) = <<"onClose">>
                          before == IF closed THEN Front(c) ELSE c
                      IN  IsPrefix(before, Story(clients[id].said)) /\ (closed <=> clients[id].sock = Gone1)
    BY DEF ClientStory
  <2>1. World.clients = clients /\ World.calls = calls /\ clients \in Seq(Client) /\ WorldOK(World)
    BY DEF WsInv, WorldOK, World
  <2>2. id \in DOMAIN World.clients BY <2>1 DEF Ids
  <2>3. ClientOK(clients[id], calls[id]) BY <2>1, <2>2 DEF WorldOK
  <2> QED BY <2>3, StoryOf, Zenon
<1> QED BY <1>1, <1>2, <1>3, PTL DEF WsSpec
=============================================================================
