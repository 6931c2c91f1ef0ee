---------------------------- MODULE MutexTable -----------------------------
(***************************************************************************)
(* The user-visible mutexes of runtime/hphp_thr.c: a growable table of     *)
(* records (id, pthread_mutex_t) behind the registry lock g_mu_reg.  Every *)
(* operation looks its record up under g_mu_reg and then locks, tries or   *)
(* unlocks through the pointer it found, after having let go of g_mu_reg.  *)
(* mutex_free moves the last record into the hole and mutex_new may move   *)
(* the whole table, so a pointer can be stale by the time it is used.      *)
(*                                                                         *)
(* A record's address is the block the table lives in and the index in it. *)
(* Clients are well behaved: they unlock what they hold, and free only a   *)
(* mutex that nobody holds or is about to operate on.                      *)
(***************************************************************************)
EXTENDS Integers, Sequences

CONSTANTS
  Locker,
  InitCap,       \* records in the first block (8 in the code)
  MaxNew,        \* bound: calls of mutex_new in a behaviour
  MoveUnderUse   \* may a record move while some call is between its two halves?

ASSUME MutexAssumption ==
  /\ InitCap \in Nat \ {0}
  /\ MaxNew \in Nat
  /\ MoveUnderUse \in BOOLEAN

Id == 1..MaxNew

VARIABLES
  g_mu,          \* the table: a sequence of records [id, locked]
  muBlock,         \* [base: which block the table lives in, cap: its size]
  g_mu_next,     \* the next id
  call,          \* call[t]: the operation t is in the middle of
  holds          \* holds[t]: the ids t has locked and not yet unlocked

mutexVars == <<g_mu, muBlock, g_mu_next, call, holds>>

NoCall == [op |-> "none", id |-> 0, base |-> 0, at |-> 0]

(* Operators named Slip* are plausible mistakes in the definition that     *)
(* follows them; no specification uses them.                               *)

MutexInit ==
  /\ g_mu = <<>>
  /\ muBlock = [base |-> 0, cap |-> InitCap]
  /\ g_mu_next = 1
  /\ call = [t \in Locker |-> NoCall]
  /\ holds = [t \in Locker |-> {}]

Quiet == \A t \in Locker : call[t].op = "none"

\* mu_rec: the indices whose record has the id
mu_rec(id) == {i \in DOMAIN g_mu : g_mu[i].id = id}

(***************************************************************************)
(* mutex_new and mutex_free.                                               *)
(***************************************************************************)
SlipGrowTooLate(t) ==
  /\ call[t].op = "none"
  /\ g_mu_next <= MaxNew
  /\ IF Len(g_mu) <= muBlock.cap
     THEN UNCHANGED muBlock
     ELSE muBlock' = [muBlock EXCEPT !.cap = 2 * @]
  /\ g_mu' = Append(g_mu, [id |-> g_mu_next, locked |-> FALSE])
  /\ g_mu_next' = g_mu_next + 1
  /\ UNCHANGED <<call, holds>>

\* A full table is reallocated: twice the size, in another block or extended
\* in place.  The records are copied as they are.
mutex_new(t) ==
  /\ call[t].op = "none"
  /\ g_mu_next <= MaxNew
  /\ IF Len(g_mu) < muBlock.cap
     THEN UNCHANGED muBlock
     ELSE \E moved \in {0, 1} :
            /\ moved = 1 => Quiet \/ MoveUnderUse
            /\ muBlock' = [base |-> muBlock.base + moved, cap |-> 2 * muBlock.cap]
  /\ g_mu' = Append(g_mu, [id |-> g_mu_next, locked |-> FALSE])
  /\ g_mu_next' = g_mu_next + 1
  /\ UNCHANGED <<call, holds>>

Unused(id) == \A t \in Locker : id \notin holds[t] /\ call[t].id # id

SlipMoveOnlyTheId(t) ==
  /\ call[t].op = "none"
  /\ Quiet \/ MoveUnderUse
  /\ \E i \in DOMAIN g_mu :
       /\ Unused(g_mu[i].id)
       /\ g_mu' = SubSeq([g_mu EXCEPT ![i].id = g_mu[Len(g_mu)].id], 1, Len(g_mu) - 1)
  /\ UNCHANGED <<muBlock, g_mu_next, call, holds>>

\* The record is destroyed and the last one copied over it.
mutex_free(t) ==
  /\ call[t].op = "none"
  /\ Quiet \/ MoveUnderUse
  /\ \E i \in DOMAIN g_mu :
       /\ Unused(g_mu[i].id)
       /\ g_mu' = SubSeq([g_mu EXCEPT ![i] = g_mu[Len(g_mu)]], 1, Len(g_mu) - 1)
  /\ UNCHANGED <<muBlock, g_mu_next, call, holds>>

(***************************************************************************)
(* mutex_lock, mutex_trylock, mutex_unlock: first half, under g_mu_reg.    *)
(* An unknown id returns false there and then.                             *)
(***************************************************************************)
Lookup(t, op, id) ==
  /\ call[t].op = "none"
  /\ \E i \in mu_rec(id) :
       call' = [call EXCEPT ![t] = [op |-> op, id |-> id, base |-> muBlock.base, at |-> i]]
  /\ UNCHANGED <<g_mu, muBlock, g_mu_next, holds>>

LookupFails(t, id) ==
  /\ call[t].op = "none"
  /\ mu_rec(id) = {}
  /\ UNCHANGED mutexVars

(***************************************************************************)
(* Second half: through the pointer.  A pointer into a block that was        *)
(* given back, or past the end of the table where a freed or moved mutex   *)
(* was, finds a destroyed mutex: it may look locked or unlocked, and what  *)
(* the thread writes there changes no mutex of the table.                  *)
(***************************************************************************)
Live(t) == call[t].base = muBlock.base /\ call[t].at \in DOMAIN g_mu

SetLocked(t, b) ==
  g_mu' = IF Live(t) THEN [g_mu EXCEPT ![call[t].at].locked = b] ELSE g_mu

\* pthread_mutex_lock returns; a mutex that stays locked keeps the thread here.
Acquire(t) ==
  /\ call[t].op \in {"lock", "trylock"}
  /\ Live(t) => ~g_mu[call[t].at].locked
  /\ SetLocked(t, TRUE)
  /\ holds' = [holds EXCEPT ![t] = @ \cup {call[t].id}]
  /\ call' = [call EXCEPT ![t] = NoCall]
  /\ UNCHANGED <<muBlock, g_mu_next>>

\* pthread_mutex_trylock fails.
TryFails(t) ==
  /\ call[t].op = "trylock"
  /\ Live(t) => g_mu[call[t].at].locked
  /\ call' = [call EXCEPT ![t] = NoCall]
  /\ UNCHANGED <<g_mu, muBlock, g_mu_next, holds>>

Release(t) ==
  /\ call[t].op = "unlock"
  /\ SetLocked(t, FALSE)
  /\ holds' = [holds EXCEPT ![t] = @ \ {call[t].id}]
  /\ call' = [call EXCEPT ![t] = NoCall]
  /\ UNCHANGED <<muBlock, g_mu_next>>

MutexNext ==
  \E t \in Locker :
    \/ mutex_new(t)
    \/ mutex_free(t)
    \/ \E id \in Id : \/ Lookup(t, "lock", id)
                      \/ Lookup(t, "trylock", id)
                      \/ id \in holds[t] /\ Lookup(t, "unlock", id)
                      \/ LookupFails(t, id)
    \/ Acquire(t)
    \/ TryFails(t)
    \/ Release(t)

MutexSpec == MutexInit /\ [][MutexNext]_mutexVars

(***************************************************************************)
(* Properties.                                                             *)
(***************************************************************************)
\* Every variable has its type, and the table never overruns its block: the
\* growth test of mutex_new comes before the append.
MutexTypeOK ==
  /\ g_mu \in Seq([id : Id, locked : BOOLEAN])
  /\ muBlock \in [base : Nat, cap : Nat \ {0}]
  /\ Len(g_mu) <= muBlock.cap
  /\ g_mu_next \in 1..(MaxNew + 1)
  /\ call \in [Locker -> [op : {"none", "lock", "trylock", "unlock"},
                          id : 0..MaxNew, base : Nat, at : Nat]]
  /\ holds \in [Locker -> SUBSET Id]

\* The point of a mutex: two threads never hold the same id.
MutualExclusion ==
  \A t, u \in Locker : t # u => holds[t] \cap holds[u] = {}

\* The lock bit in the table and the threads' belief agree: the record of an
\* id is locked exactly while some thread holds the id, so an unlock frees
\* the mutex it names and no other.
LockBitAgrees ==
  \A i \in DOMAIN g_mu :
    g_mu[i].locked <=> \E t \in Locker : g_mu[i].id \in holds[t]

\* Both: mutual exclusion, and the records that carry it (mutex_lock, mutex_unlock and the
\* swap of mutex_free).
Exclusive == MutualExclusion /\ LockBitAgrees
=============================================================================
