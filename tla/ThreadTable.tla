---------------------------- MODULE ThreadTable ----------------------------
(***************************************************************************)
(* thr_spawn, thr_join and thr_current of runtime/hphp_thr.c: the table of *)
(* thread records g_thr behind g_thr_mu, and the threads that come from    *)
(* it.  thr_spawn fills the record g_thr[g_thr_len] under the lock and     *)
(* creates the thread after it, so two spawns may interleave.  It never    *)
(* moves g_thr_len, so no record is ever inside the table.                 *)
(***************************************************************************)
EXTENDS Integers, FiniteSets

CONSTANTS
  Caller,        \* threads that spawn and join
  Closure,       \* the closures they spawn
  None,          \* a null closure pointer
  MaxSpawn       \* bound: calls of thr_spawn in a behaviour

Id == 1..MaxSpawn

VARIABLES
  g_thr,         \* g_thr[i]: the records of the block, 0-based
  g_thr_len,     \* how many of them count
  g_thr_next,    \* the next thread id
  spawn,         \* spawn[c]: a thr_spawn of c that holds an id but no thread yet
  thread,        \* thread[id]: the OS thread created for the id
  join           \* join[c]: the result of c's last thr_join

vars == <<g_thr, g_thr_len, g_thr_next, spawn, thread, join>>

NoSpawn == [id |-> 0, clo |-> None]

NoThread == [state |-> "none", clo |-> None]

Init ==
  /\ g_thr = [i \in 0..MaxSpawn |-> [id |-> 0, joined |-> FALSE, clo |-> None, pt |-> 0]]
  /\ g_thr_len = 0
  /\ g_thr_next = 1
  /\ spawn = [c \in Caller |-> NoSpawn]
  /\ thread = [i \in Id |-> NoThread]
  /\ join = [c \in Caller |-> [id |-> 0, ok |-> FALSE]]

\* thr_rec: the indices of the records with the id, inside the table
thr_rec(id) == {i \in 0..(g_thr_len - 1) : g_thr[i].id = id}

\* thr_spawn, first half, under g_thr_mu: the next id and the record after the
\* last; g_thr_len stays as it is.
SpawnReserve(c, f) ==
  /\ spawn[c].id = 0
  /\ g_thr_next <= MaxSpawn
  /\ g_thr' = [g_thr EXCEPT ![g_thr_len] =
                 [@ EXCEPT !.id = g_thr_next, !.joined = FALSE, !.clo = f]]
  /\ g_thr_next' = g_thr_next + 1
  /\ spawn' = [spawn EXCEPT ![c] = [id |-> g_thr_next, clo |-> f]]
  /\ UNCHANGED <<g_thr_len, thread, join>>

\* Second half, without the lock: the ThrBoot is filled from the arguments of
\* the call and pthread_create writes the handle into the shared record.
SpawnCreate(c) ==
  LET s == spawn[c] IN
  /\ s.id # 0
  /\ thread' = [thread EXCEPT ![s.id] = [state |-> "running", clo |-> s.clo]]
  /\ g_thr' = [g_thr EXCEPT ![g_thr_len].pt = s.id]
  /\ spawn' = [spawn EXCEPT ![c] = NoSpawn]
  /\ UNCHANGED <<g_thr_len, g_thr_next, join>>

\* Memory or pthread_create fails: the call looks for its placeholder record in
\* the table, to remove it, and returns false.
SpawnFail(c) ==
  /\ spawn[c].id # 0
  /\ IF thr_rec(spawn[c].id) = {}
     THEN UNCHANGED <<g_thr, g_thr_len>>
     ELSE /\ g_thr_len' = g_thr_len - 1
          /\ \E i \in thr_rec(spawn[c].id) :
               g_thr' = [g_thr EXCEPT ![i] = g_thr[g_thr_len - 1]]
  /\ spawn' = [spawn EXCEPT ![c] = NoSpawn]
  /\ UNCHANGED <<g_thr_next, thread, join>>

\* thr_trampoline: the closure returns, the record (if any) forgets it.
ThreadEnd(id) ==
  /\ thread[id].state = "running"
  /\ thread' = [thread EXCEPT ![id].state = "ended"]
  /\ g_thr' = [i \in DOMAIN g_thr |->
                 IF i \in thr_rec(id) THEN [g_thr[i] EXCEPT !.clo = None] ELSE g_thr[i]]
  /\ UNCHANGED <<g_thr_len, g_thr_next, spawn, join>>

\* thr_join of an id that a spawn has returned.  A record that is in the table
\* and not joined makes it wait for the thread and drop the record; otherwise
\* it returns false at once.
Joinable(id) == \E i \in thr_rec(id) : ~g_thr[i].joined

Join(c, id) ==
  /\ spawn[c].id = 0
  /\ thread[id].state # "none"
  /\ join' = [join EXCEPT ![c] = [id |-> id, ok |-> Joinable(id)]]
  /\ IF Joinable(id)
     THEN /\ thread[id].state = "ended"
          /\ g_thr_len' = g_thr_len - 1
          /\ \E i \in thr_rec(id) : g_thr' = [g_thr EXCEPT ![i] = g_thr[g_thr_len - 1]]
     ELSE UNCHANGED <<g_thr, g_thr_len>>
  /\ UNCHANGED <<g_thr_next, spawn, thread>>

Next ==
  \/ \E c \in Caller :
       \/ \E f \in Closure : SpawnReserve(c, f)
       \/ SpawnCreate(c)
       \/ SpawnFail(c)
       \/ \E id \in Id : Join(c, id)
  \/ \E id \in Id : ThreadEnd(id)

Spec == Init /\ [][Next]_vars

(***************************************************************************)
(* Properties.                                                             *)
(***************************************************************************)
\* "thr_join(tid) -> wait for a spawned thread": when a join returns, the thread
\* it named has ended.
JoinWaits ==
  \A c \in Caller : join[c].id # 0 => thread[join[c].id].state = "ended"
=============================================================================
