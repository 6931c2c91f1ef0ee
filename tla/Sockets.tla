------------------------------- MODULE Sockets -----------------------------
(***************************************************************************)
(* The stream builtins of hphp_std.c: handles are descriptors, and a table *)
(* (g_sock) keeps a sticky end-of-file flag for each.  The kernel, taken   *)
(* from how the code uses it, gives a new connection the lowest free       *)
(* descriptor; data is counted in chunks.                                  *)
(***************************************************************************)
EXTENDS Integers, SequencesExt

CONSTANTS
  MaxFd, MaxData,       \* bounds: descriptors, chunks waiting on one
  StaleHandles          \* whether the program uses handles it has closed
ASSUME SocketsAssumption == {MaxFd, MaxData} \subseteq Nat /\ StaleHandles \in BOOLEAN

VARIABLES
  kernel,       \* descriptor -> Free, or what the kernel knows of the connection
  sockTable,    \* g_sock: [h, eof] records
  handles,      \* the handles the program has been given and not closed
  backlog,      \* a connection waits to be accepted
  alive         \* the process has not been killed by SIGPIPE
sockVars == <<kernel, sockTable, handles, backlog, alive>>

Fds == 1..MaxFd
Free == [open |-> FALSE, peer |-> FALSE, waiting |-> 0, refused |-> FALSE]
Connected == [open |-> TRUE, peer |-> TRUE, waiting |-> 0, refused |-> FALSE]
Lowest(fd) == ~ kernel[fd].open /\ \A g \in Fds : g < fd => kernel[g].open
Usable == IF StaleHandles THEN Fds ELSE handles

(***************************************************************************)
(* The table.                                                              *)
(***************************************************************************)
Slots(t, h) == {i \in DOMAIN t : t[i].h = h}
Find(t, h) == CHOOSE i \in Slots(t, h) : \A j \in Slots(t, h) : i <= j
\* An old record of the same number is taken as it is.
sockrec(t, h) == IF Slots(t, h) = {} THEN Append(t, [h |-> h, eof |-> FALSE]) ELSE t
Ended(t, h) == LET u == sockrec(t, h) IN [u EXCEPT ![Find(u, h)].eof = TRUE]
\* The last record takes the place of the one forgotten.
sock_forget(t, h) ==
  IF Slots(t, h) = {} THEN t ELSE Front([t EXCEPT ![Find(t, h)] = Last(t)])

SockInit == /\ kernel = [fd \in Fds |-> Free] /\ sockTable = <<>> /\ handles = {}
            /\ backlog = FALSE /\ alive = TRUE

(***************************************************************************)
(* The builtins.                                                           *)
(***************************************************************************)
Opened == \E fd \in Fds :
  /\ Lowest(fd)
  /\ kernel' = [kernel EXCEPT ![fd] = Connected]
  /\ sockTable' = sockrec(sockTable, fd)
  /\ handles' = handles \cup {fd}
  /\ UNCHANGED alive
stream_socket_client == Opened /\ UNCHANGED backlog
\* accept and accept2; without a connection they wait or give up.
stream_socket_accept == backlog /\ Opened /\ backlog' = FALSE

stream_recv(h) ==
  /\ CASE kernel[h].waiting > 0 -> /\ kernel' = [kernel EXCEPT ![h].waiting = @ - 1]
                                   /\ UNCHANGED sockTable
       [] kernel[h].waiting = 0 /\ kernel[h].peer -> UNCHANGED <<kernel, sockTable>>   \* would block
       [] OTHER -> sockTable' = Ended(sockTable, h) /\ UNCHANGED kernel                  \* closed, or no descriptor
  /\ UNCHANGED <<handles, backlog, alive>>

\* The peer takes the data in time, and nothing changes; or a peer that is there does not for
\* 2000 waits, and the send fails; or the peer has gone, and the send fails (Windows) or
\* kills the process (POSIX: nothing ignores SIGPIPE).
stream_send(h) ==
  /\ \/ /\ sockTable' = Ended(sockTable, h)
        /\ kernel' = [kernel EXCEPT ![h].refused = kernel[h].open]
        /\ UNCHANGED alive
     \/ ~ kernel[h].peer /\ kernel[h].open /\ alive' = FALSE /\ UNCHANGED <<kernel, sockTable>>
  /\ UNCHANGED <<handles, backlog>>

\* Readable: data waits or the peer has closed.  Nothing is recorded.
HungUp == {h \in handles : ~ kernel[h].peer}
SlipStream_ready == /\ HungUp # {}
                    /\ sockTable' = Ended(sockTable, CHOOSE h \in HungUp : TRUE)
                    /\ UNCHANGED <<kernel, handles, backlog, alive>>
stream_ready == HungUp # {} /\ UNCHANGED sockVars

stream_eof(h) == IF Slots(sockTable, h) = {} THEN TRUE ELSE sockTable[Find(sockTable, h)].eof

stream_close(h) ==
  /\ kernel' = [kernel EXCEPT ![h] = Free]
  /\ sockTable' = sock_forget(sockTable, h)
  /\ handles' = handles \ {h}
  /\ UNCHANGED <<backlog, alive>>

\* The other ends.
Arrives == ~ backlog /\ backlog' = TRUE /\ UNCHANGED <<kernel, sockTable, handles, alive>>
PeerSends(h) == /\ kernel[h].open /\ kernel[h].peer /\ kernel[h].waiting < MaxData
                /\ kernel' = [kernel EXCEPT ![h].waiting = @ + 1]
                /\ UNCHANGED <<sockTable, handles, backlog, alive>>
PeerCloses(h) == /\ kernel[h].open /\ kernel[h].peer
                 /\ kernel' = [kernel EXCEPT ![h].peer = FALSE]
                 /\ UNCHANGED <<sockTable, handles, backlog, alive>>

SockNext == /\ alive
            /\ \/ stream_socket_client \/ stream_socket_accept \/ Arrives \/ stream_ready
               \/ \E h \in Usable : stream_recv(h) \/ stream_send(h) \/ stream_close(h)
               \/ \E h \in Fds : PeerSends(h) \/ PeerCloses(h)
SockSpec == SockInit /\ [][SockNext]_sockVars

(***************************************************************************)
(* Properties.                                                             *)
(***************************************************************************)
\* End of file is reported of a connection only when its peer has closed and all its data
\* was received or one of its own sends has failed, whatever connections had the descriptor
\* before (hp_sockrec's sticky flag; stream_ready leaves it to stream_recv).
EofMeansOver ==
  \A h \in handles : stream_eof(h) => (~ kernel[h].peer /\ kernel[h].waiting = 0) \/ kernel[h].refused

\* The table has one record for each open connection and no other (sockrec, sock_forget).
RecordsMatch == /\ {sockTable[i].h : i \in DOMAIN sockTable} = {fd \in Fds : kernel[fd].open}
                /\ \A i, j \in DOMAIN sockTable : sockTable[i].h = sockTable[j].h => i = j

\* End of file is reported of the connection that is over, or that a send failed on, from a table with a record for each
\* open connection (sockrec, sock_forget, stream_recv, stream_send).
EofRight == EofMeansOver /\ RecordsMatch
=============================================================================
