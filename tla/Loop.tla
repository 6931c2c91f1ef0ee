-------------------------------- MODULE Loop -------------------------------
(***************************************************************************)
(* The event loop of lib/async: timers, watched sockets and httpGet, in    *)
(* the passes of tick.  A callback runs to its end inside a pass and may   *)
(* start a request, cancel a timer or stop watching its socket.  Sockets   *)
(* have the lowest free descriptor, the handle everything is keyed by; the *)
(* id of a timer is used as its place in a list, which unset closes up.    *)
(***************************************************************************)
EXTENDS Integers, Sequences, FiniteSets

CONSTANTS
  Handles,              \* descriptors, numbers
  Gets,                 \* requests the program makes
  MaxConns,             \* bound on the connections made and accepted
  SelfClosing,          \* whether a callback may close its socket when it has ended
  Cancels               \* which of its two timers the program may cancel, at any time
ASSUME LoopAssumption == Handles \subseteq Nat /\ "user" \notin Gets /\ MaxConns \in Nat
                         /\ SelfClosing \in BOOLEAN /\ Cancels \subseteq 1..2

VARIABLES
  loop,         \* [timers, timerSeq, watchers, conns, gets, made]: the Loop, kernel, requests
  pass          \* [at, due, ready, pos]: where tick is
loopVars == <<loop, pass>>

NoConn == [id |-> 0, data |-> FALSE, over |-> FALSE]
User == "user"
Timer(id, fn, every) == [id |-> id, fn |-> fn, every |-> every, due |-> FALSE, cancelled |-> FALSE]
Between == [at |-> "between", due |-> {}, ready |-> {}, pos |-> 0]

LoopInit ==
  /\ \E every \in BOOLEAN :
       loop = [timers |-> <<Timer(1, User, every), Timer(2, User, FALSE)>>, timerSeq |-> 2, watchers |-> <<>>,
               conns |-> [h \in Handles |-> NoConn],
               gets |-> [g \in Gets |-> [state |-> "new", handle |-> 0, timer |-> 0]],
               made |-> 0]
  /\ pass = Between

(***************************************************************************)
(* The methods, each from a loop to a loop.                                *)
(***************************************************************************)
\* The id after() returned counts the timers made; here and in tick it is a place in the list.
after(L, fn) == [L EXCEPT !.timers = Append(@, Timer(L.timerSeq + 1, fn, FALSE)), !.timerSeq = @ + 1]
cancelTimer(L, id) == IF id \in DOMAIN L.timers THEN [L EXCEPT !.timers[id].cancelled = TRUE] ELSE L
\* unset of a place in a list moves the last entry into the gap.
UnsetTimer(L, id) ==
  LET s == L.timers IN [L EXCEPT !.timers = SubSeq([s EXCEPT ![id] = s[Len(s)]], 1, Len(s) - 1)]

Watched(L, h) == {i \in DOMAIN L.watchers : L.watchers[i].handle = h}
watch(L, h, fn) ==
  LET w == [handle |-> h, fn |-> fn, conn |-> L.conns[h].id]
  IN  IF Watched(L, h) = {} THEN [L EXCEPT !.watchers = Append(@, w)]
      ELSE [L EXCEPT !.watchers[CHOOSE i \in Watched(L, h) : TRUE] = w]
\* The last entry moves into the gap of a map too.
SlipUnwatch(L, h) == IF \E i \in Watched(L, h) : L.watchers[i].fn = User THEN L
                     ELSE [L EXCEPT !.watchers = SelectSeq(@, LAMBDA w : w.handle # h)]
unwatch(L, h) == LET s == L.watchers
                 IN  IF Watched(L, h) = {} THEN L
                     ELSE [L EXCEPT !.watchers = SubSeq([s EXCEPT ![CHOOSE i \in Watched(L, h) : TRUE] = s[Len(s)]], 1, Len(s) - 1)]
stream_close_(L, h) == [L EXCEPT !.conns[h] = NoConn]

CanConnect(L) == L.made < MaxConns /\ \E h \in Handles : L.conns[h].id = 0
NewHandle(L) == CHOOSE h \in Handles : L.conns[h].id = 0 /\ \A k \in Handles : k < h => L.conns[k].id # 0
Connect(L) == [L EXCEPT !.made = @ + 1, !.conns[NewHandle(L)] = [NoConn EXCEPT !.id = L.made + 1]]

\* A request that cannot connect reports it at once and leaves nothing behind.
SlipHttpGet(L, g) ==
  LET h == NewHandle(L)
  IN  [after(watch(Connect(L), h, g), User) EXCEPT
         !.gets[g] = [state |-> "running", handle |-> h, timer |-> L.timerSeq + 1]]
httpGet(L, g) ==
  LET h == NewHandle(L)
  IN  [after(watch(Connect(L), h, g), g) EXCEPT
         !.gets[g] = [state |-> "running", handle |-> h, timer |-> L.timerSeq + 1]]

\* What a callback of the program may do: cancel a timer by its id, make a request.
CallbackOf(L) ==
  {L} \cup {cancelTimer(L, id) : id \in Cancels}
      \cup {httpGet(L, g) : g \in {k \in Gets : L.gets[k].state = "new" /\ CanConnect(L)}}

\* The two ends of a request; done guards the second.
Ends(L, g, how) == [L EXCEPT !.gets[g].state = how]
Done(L, g) == L.gets[g].state # "running"
Response(L, g) ==
  IF Done(L, g) THEN {L}
  ELSE CallbackOf(Ends(unwatch(cancelTimer(L, L.gets[g].timer), L.gets[g].handle), g, "done"))
Timeout(L, g) ==
  IF Done(L, g) THEN {L}
  ELSE CallbackOf(Ends(stream_close_(unwatch(L, L.gets[g].handle), L.gets[g].handle), g, "failed"))

(***************************************************************************)
(* tick.                                                                   *)
(***************************************************************************)
Pending(L) == \E i \in DOMAIN L.timers : ~ L.timers[i].cancelled
StartTick ==
  /\ pass.at = "between" /\ (Pending(loop) \/ loop.watchers # <<>>)
  /\ pass' = [pass EXCEPT !.at = "timers",
       !.due = {i \in DOMAIN loop.timers : loop.timers[i].due /\ ~ loop.timers[i].cancelled}]
  /\ UNCHANGED loop

\* The places collected are taken in the order of the list, each with the timer it has by now.
NextDue == CHOOSE i \in pass.due : \A j \in pass.due : i <= j
Takes == pass.at = "timers" /\ pass.due # {} /\ NextDue \in DOMAIN loop.timers
TickedOff == pass' = [pass EXCEPT !.due = @ \ {NextDue}]
\* After its callback a repeating timer is set anew and another is unset.
Rescheduled(L, id) == IF L.timers[id].every THEN [L EXCEPT !.timers[id].due = FALSE] ELSE UnsetTimer(L, id)
Fires(t) == IF t.fn = User THEN CallbackOf(loop) ELSE Timeout(loop, t.fn)
SlipRunTimer == /\ Takes
                /\ loop' \in {Rescheduled(L, NextDue) : L \in Fires(loop.timers[NextDue])}
                /\ TickedOff
RunTimer == /\ Takes /\ ~ loop.timers[NextDue].cancelled
            /\ loop' \in {Rescheduled(L, NextDue) : L \in Fires(loop.timers[NextDue])}
            /\ TickedOff
\* Cancelled meanwhile, by a callback of the same pass.
SkipTimer == Takes /\ loop.timers[NextDue].cancelled /\ TickedOff /\ UNCHANGED loop
\* The list has become shorter than that: null is called, which throws out of tick and run.
CallNull == /\ pass.at = "timers" /\ pass.due # {} /\ NextDue \notin DOMAIN loop.timers
            /\ pass' = [Between EXCEPT !.at = "thrown"] /\ UNCHANGED loop

Readable(L) == {h \in Handles : L.conns[h].data \/ L.conns[h].over}
Poll == /\ pass.at = "timers" /\ pass.due = {}
        /\ pass' = [at |-> "sockets", due |-> {}, pos |-> 1,
                    ready |-> Readable(loop) \cap {loop.watchers[i].handle : i \in DOMAIN loop.watchers}]
        /\ UNCHANGED loop

\* A pending connection is accepted and its callback watches it.
Accept == /\ pass.at = "sockets" /\ pass.pos = 1 /\ CanConnect(loop)
          /\ \E L \in CallbackOf(watch(Connect(loop), NewHandle(loop), User)) : loop' = L
          /\ UNCHANGED pass

Entry1 == loop.watchers[pass.pos]
Visits == pass.at = "sockets" /\ pass.pos <= Len(loop.watchers)
Onward == pass' = [pass EXCEPT !.pos = @ + 1]
Pass == Visits /\ Entry1.handle \notin pass.ready /\ Onward /\ UNCHANGED loop

\* Data, or nothing when the socket is a new one of the same number.
Drain ==
  LET w == Entry1
      L == [loop EXCEPT !.conns[w.handle].data = FALSE]
  IN  /\ Visits /\ w.handle \in pass.ready
      /\ loop.conns[w.handle].data \/ ~ loop.conns[w.handle].over
      /\ loop' \in IF w.fn # User THEN {L}
                   ELSE CallbackOf(L) \cup {stream_close_(unwatch(L, w.handle), w.handle)}
      /\ Onward

\* The end: the callback, and after it the loop stops watching the handle and closes it.
AfterEnd(L, w) == IF w.fn # User THEN Response(L, w.fn)
                  ELSE CallbackOf(L) \cup IF SelfClosing THEN CallbackOf(stream_close_(unwatch(L, w.handle), w.handle)) ELSE {}
DeliverEnd ==
  LET w == Entry1
  IN  /\ Visits /\ w.handle \in pass.ready
      /\ loop.conns[w.handle].over /\ ~ loop.conns[w.handle].data
      /\ loop' \in {stream_close_(unwatch(L, w.handle), w.handle) : L \in AfterEnd(loop, w)}
      /\ Onward

EndTick == /\ pass.at = "sockets" /\ pass.pos > Len(loop.watchers)
           /\ pass' = Between /\ UNCHANGED loop

TickStep == StartTick \/ RunTimer \/ SkipTimer \/ CallNull \/ Poll \/ Pass \/ Drain \/ DeliverEnd \/ EndTick

(***************************************************************************)
(* The program outside the loop, the other ends and the clock.             *)
(***************************************************************************)
Begin == /\ pass.at = "between"
         /\ \E g \in Gets : loop.gets[g].state = "new" /\ CanConnect(loop) /\ loop' = httpGet(loop, g)
         /\ UNCHANGED pass
\* A program that catches what run() threw may call it again.
RunAgain == pass.at = "thrown" /\ pass' = Between /\ UNCHANGED loop
PeerActs == \E h \in Handles :
  /\ loop.conns[h].id # 0 /\ ~ loop.conns[h].over
  /\ \/ ~ loop.conns[h].data /\ loop' = [loop EXCEPT !.conns[h].data = TRUE]
     \/ loop' = [loop EXCEPT !.conns[h].over = TRUE]
  /\ UNCHANGED pass
TimePasses(id) == /\ \E i \in DOMAIN loop.timers :
                       /\ loop.timers[i].id = id /\ ~ loop.timers[i].due
                       /\ loop' = [loop EXCEPT !.timers[i].due = TRUE]
                  /\ UNCHANGED pass

TimerIds == 1..(2 + Cardinality(Gets))
LoopNext == TickStep \/ RunAgain \/ Accept \/ Begin \/ PeerActs \/ \E id \in TimerIds : TimePasses(id)
\* run() calls tick for as long as there is something to wait for; time passes.
LoopFairness == WF_loopVars(TickStep) /\ \A id \in TimerIds : WF_loopVars(TimePasses(id))
LoopSpec == LoopInit /\ [][LoopNext]_loopVars /\ LoopFairness

(***************************************************************************)
(* Properties.                                                             *)
(***************************************************************************)
\* Every watched handle is open and is the connection it was watched for, and a request
\* that runs is watched, although handles are closed and given out again inside a pass
\* (watch, unwatch and the order of callback, unwatch and close in tick).
WatchersLive ==
  /\ \A i \in DOMAIN loop.watchers :
       LET w == loop.watchers[i] IN w.conn # 0 /\ loop.conns[w.handle].id = w.conn
  /\ \A g \in Gets : loop.gets[g].state = "running" => \E i \in DOMAIN loop.watchers : loop.watchers[i].fn = g

\* A timer whose flag is set is never run, set anew or unset, although it was due and
\* collected before the callback that set the flag, and wherever in the list it is moved
\* meanwhile (tick's second look at the flag, and unset of the place after the callback).
CancelledSilent ==
  [][\A i \in DOMAIN loop.timers : loop.timers[i].cancelled =>
       \E j \in DOMAIN loop'.timers :
         /\ loop'.timers[j].id = loop.timers[i].id /\ loop'.timers[j].cancelled
         /\ loop.timers[i].due => loop'.timers[j].due]_loopVars

Running(L, g) == L.gets[g].state = "running"
\* The request's timer has been given the flag, by a cancelTimer meant for another.
Silenced(g) == \E i \in DOMAIN loop.timers : loop.timers[i].id = loop.gets[g].timer /\ loop.timers[i].cancelled

\* Every request that is started reports in the end, whatever the other end does and
\* wherever its timer is moved, unless another's cancelTimer reaches that timer or tick
\* throws and the program does not run the loop again (httpGet, Response, Timeout).
GetEnds == \A g \in Gets :
  Running(loop, g) ~> (~ Running(loop, g) \/ Silenced(g) \/ [](pass.at = "thrown"))

\* What the comment over httpGet says, "completion is reported by callback": every request
\* reports in a loop that does not throw.
CompletionReported == \A g \in Gets : Running(loop, g) ~> (~ Running(loop, g) \/ pass.at = "thrown")
=============================================================================
