------------------------------ MODULE WebSocket ----------------------------
(***************************************************************************)
(* The WebSocket server of lib/websocket: accepting, the handshake, frames *)
(* and their fragments, and drop.  A client is known by its id; its socket *)
(* is the lowest free handle.  The peers send whole frames; a read takes   *)
(* any number of them, a part of a frame stays for the next.  The program  *)
(* is called back for every message and may close a client there.          *)
(***************************************************************************)
EXTENDS Integers, SequencesExt

CONSTANTS
  MaxClients,                   \* bound on the clients accepted
  ClosesTwice                   \* whether the program closes clients that are closed
ASSUME WebSocketAssumption == MaxClients \in Nat /\ ClosesTwice \in BOOLEAN

VARIABLES
  clients,      \* id -> [sock, state, bufs, frags, wire, over, left, said]
  calls,        \* id -> the callbacks of the program, in order
  server        \* [at, ready, id]: where tick is
wsVars == <<clients, calls, server>>

Ids == 1..Len(clients)
Gone1 == -1                     \* the socket and the state of a dropped client
Waiting == [at |-> "ready", ready |-> {}, id |-> 0]
WsInit == clients = <<>> /\ calls = <<>> /\ server = Waiting

\* What peers send: a request, good or bad, messages whole or in two fragments with a ping
\* between, at last a close frame.  A frame is its opcode, whether it is final, its payload.
Text(n) == <<1, TRUE, <<n>>>>
Begun(n) == <<1, FALSE, <<n>>>>
Rest(n) == <<0, TRUE, <<n>>>>
Ping == <<9, TRUE, <<>>>>
CloseFrame == <<8, TRUE, <<>>>>
Upgrade == <<16, TRUE, <<>>>>
BadRequest == <<17, TRUE, <<>>>>
Scripts ==
  {[frames |-> <<BadRequest>>, messages |-> <<>>],
   [frames |-> <<Upgrade, Text(1), Text(2), CloseFrame>>, messages |-> <<<<1>>, <<2>>>>],
   [frames |-> <<Upgrade, Begun(1), Ping, Rest(1), Text(2)>>, messages |-> <<<<1, 1>>, <<2>>>>]}

(***************************************************************************)
(* The server's methods, each from [clients, calls] to the same.           *)
(***************************************************************************)
World == [clients |-> clients, calls |-> calls]
Becomes(W) == clients' = W.clients /\ calls' = W.calls
Calls(W, id, event) == [W EXCEPT !.calls[id] = Append(@, event)]

drop(W, id) ==
  Calls([W EXCEPT !.clients[id] = [@ EXCEPT !.sock = Gone1, !.state = Gone1, !.bufs = <<>>, !.frags = <<>>]],
        id, <<"onClose">>)
isOpen(W, id) == W.clients[id].state = 1
\* The callback is called and may close clients.
Back(W) == {W} \cup {drop(W, id) : id \in {i \in DOMAIN W.clients : ClosesTwice \/ W.clients[i].sock # Gone1}}
Deliver(W, id, payload) == Back(Calls(W, id, <<"onMessage", payload>>))

idOf(h) == {id \in Ids : clients[id].sock = h}
NewSock(taken) == {h \in 1..(MaxClients + 1) : h \notin taken /\ \A k \in 1..(h - 1) : k \in taken}

(***************************************************************************)
(* tick.                                                                   *)
(***************************************************************************)
HasInput(id) == clients[id].sock # Gone1 /\ (clients[id].wire # <<>> \/ clients[id].over)
TickBegins == /\ server.at = "ready"
              /\ server' = [server EXCEPT !.at = "reads",
                   !.ready = {clients[id].sock : id \in {i \in Ids : HasInput(i)}}]
              /\ UNCHANGED <<clients, calls>>
\* The listening socket is the first in the list.
accept_all ==
  /\ server.at = "ready" /\ Len(clients) < MaxClients
  /\ \E s \in Scripts : \E h \in NewSock({clients[i].sock : i \in Ids}) :
       clients' = Append(clients, [sock |-> h, state |-> 0, bufs |-> <<>>, frags |-> <<>>, wire |-> <<>>,
                                   over |-> FALSE, left |-> s.frames, said |-> s.messages])
  /\ calls' = Append(calls, <<>>)
  /\ UNCHANGED server

NextHandle == server' = [server EXCEPT !.at = "reads"]
Handled(h) == [server EXCEPT !.ready = @ \ {h}]
\* The handles are read in the order of their clients.
Foremost(id) == \A h \in server.ready : \A k \in idOf(h) : id <= k
\* A client that was dropped since the poll has no socket of that number any more.
Skip1 == /\ server.at = "reads"
         /\ \E h \in server.ready : idOf(h) = {} /\ server' = Handled(h)
         /\ UNCHANGED <<clients, calls>>
read_client ==
  /\ server.at = "reads"
  /\ \E h \in server.ready : \E id \in idOf(h) :
       /\ Foremost(id)
       /\ IF clients[id].wire # <<>>
          THEN /\ \E n \in 1..Len(clients[id].wire) :
                    LET c == clients[id]
                    IN  clients' = [clients EXCEPT ![id] = [c EXCEPT !.bufs = c.bufs \o SubSeq(c.wire, 1, n),
                                                                     !.wire = SubSeq(c.wire, n + 1, Len(c.wire))]]
               /\ server' = [Handled(h) EXCEPT !.at = "consume", !.id = id]
               /\ UNCHANGED calls
          ELSE /\ \E W \in IF clients[id].over THEN Back(drop(World, id)) ELSE {World} : Becomes(W)
               /\ server' = Handled(h)

This == clients[server.id]
Consumes(W) == [W EXCEPT !.clients[server.id].bufs = Tail(@)]
Consuming == server.at = "consume"

\* A bad request is refused; so is one whose answer cannot be sent.
Handshake ==
  /\ Consuming /\ This.state = 0
  /\ LET id == server.id
         Opened1 == [Consumes(World) EXCEPT !.clients[id].state = 1]
     IN  \/ This.bufs[1] = Upgrade /\ (\E W \in Back(Calls(Opened1, id, <<"onOpen">>)) : Becomes(W)) /\ UNCHANGED server
         \/ (This.bufs[1] = BadRequest \/ This.over) /\ (\E W \in Back(drop(World, id)) : Becomes(W)) /\ NextHandle

PumpEnds == /\ Consuming /\ This.state # 0 /\ (This.bufs = <<>> \/ ~ isOpen(World, server.id))
            /\ NextHandle /\ UNCHANGED <<clients, calls>>

Pumps == Consuming /\ isOpen(World, server.id) /\ This.bufs # <<>>
SlipContinued(W, id, f) == Deliver([W EXCEPT !.clients[id].frags = <<>>], id, f[3])
Continued(W, id, f) == IF f[2] THEN Deliver([W EXCEPT !.clients[id].frags = <<>>], id, W.clients[id].frags \o f[3])
                       ELSE {[W EXCEPT !.clients[id].frags = @ \o f[3]]}
Whole(W, id, f) == IF f[2] THEN Deliver(W, id, f[3]) ELSE {[W EXCEPT !.clients[id].frags = f[3]]}
pumpFrames ==
  /\ Pumps
  /\ LET id == server.id
         f == This.bufs[1]
     IN  \E W \in CASE f[1] = 0 -> Continued(Consumes(World), id, f)
                    [] f[1] = 1 -> Whole(Consumes(World), id, f)
                    [] f[1] = 8 -> Back(drop(World, id))
                    [] OTHER -> {Consumes(World)} :            \* ping
           Becomes(W)
  /\ UNCHANGED server

TickEnds == /\ server.at = "reads" /\ server.ready = {}
            /\ server' = Waiting /\ UNCHANGED <<clients, calls>>

\* The peers.
PeerWrites == \E id \in Ids :
  /\ ~ clients[id].over /\ clients[id].left # <<>>
  /\ LET c == clients[id]
     IN  clients' = [clients EXCEPT ![id] = [c EXCEPT !.wire = Append(c.wire, Head(c.left)), !.left = Tail(c.left)]]
  /\ UNCHANGED <<calls, server>>
PeerLeaves == \E id \in Ids : /\ ~ clients[id].over
                              /\ clients' = [clients EXCEPT ![id].over = TRUE]
                              /\ UNCHANGED <<calls, server>>

WsNext == TickBegins \/ accept_all \/ Skip1 \/ read_client \/ Handshake \/ PumpEnds \/ pumpFrames \/ TickEnds
          \/ PeerWrites \/ PeerLeaves
WsSpec == WsInit /\ [][WsNext]_wsVars

(***************************************************************************)
(* Properties.                                                             *)
(***************************************************************************)
\* What the program hears of a client: onOpen, then its messages, whole and in the order
\* they were sent, and onClose once and last, whoever closes it and in the middle of
\* whatever buffer (pumpFrames looks at isOpen before each frame, drop, read_client).
Story(s) == <<<<"onOpen">>>> \o [i \in DOMAIN s |-> <<"onMessage", s[i]>>]
ClientStory ==
  \A id \in Ids : LET c == calls[id]
                      closed == c # <<>> /\ Last(c) = <<"onClose">>
                      before == IF closed THEN Front(c) ELSE c
                  IN  /\ IsPrefix(before, Story(clients[id].said))
                      /\ closed <=> clients[id].sock = Gone1
=============================================================================
