----------------------------- MODULE Sync_proofs -----------------------------
(***************************************************************************)
(* Proofs about what threads share besides a channel: MutexTable and       *)
(* Barrier, for every number of threads, and Pool, for every number of     *)
(* workers and jobs.  The mutex theorem is for a mutex table that is not   *)
(* moved under a call in progress (MoveUnderUse = FALSE), the barrier      *)
(* theorem for a barrier that is not moved while threads sleep in it       *)
(* (MoveUnderWaiters = FALSE).                                             *)
(***************************************************************************)
EXTENDS Concurrency, FiniteSetTheorems, TLAPS

(***************************************************************************)
(* Mutexes: the inductive invariant.  Exclusive alone is not one: that a   *)
(* lock bit is clear says nothing about the caller's id unless the pointer *)
(* the caller carries is the record of that id, and no other record is.    *)
(***************************************************************************)
\* mutex_new hands out every id once, and mutex_free leaves one record per id.
IdsDistinct ==
  /\ \A p, j \in DOMAIN g_mu : g_mu[p].id = g_mu[j].id => p = j
  /\ \A p \in DOMAIN g_mu : g_mu[p].id < g_mu_next

\* A call between its halves points at the record of the id it was made with.
PointersFresh ==
  \A t \in Locker : call[t].op # "none" =>
    Live(t) /\ g_mu[call[t].at].id = call[t].id

\* What is held was handed out, and only a holder is unlocking.
HeldIds ==
  \A t \in Locker :
    /\ \A id \in holds[t] : id < g_mu_next
    /\ call[t].op = "unlock" => call[t].id \in holds[t]

MutexInv == MutexTypeOK /\ IdsDistinct /\ PointersFresh /\ HeldIds /\ Exclusive

(***************************************************************************)
(* Sequences.                                                              *)
(***************************************************************************)
\* The swap of mutex_free: the last element takes the place of the i-th.
SwapOut(s, p) == SubSeq([s EXCEPT ![p] = s[Len(s)]], 1, Len(s) - 1)

LEMMA SwapOutFacts ==
  ASSUME NEW R, NEW s \in Seq(R), NEW p \in DOMAIN s
  PROVE  /\ SwapOut(s, p) \in Seq(R)
         /\ Len(SwapOut(s, p)) = Len(s) - 1
         /\ DOMAIN SwapOut(s, p) = 1..(Len(s) - 1)
         /\ \A j \in 1..(Len(s) - 1) :
              SwapOut(s, p)[j] = IF j = p THEN s[Len(s)] ELSE s[j]
<1> DEFINE r == [s EXCEPT ![p] = s[Len(s)]]
<1>1. /\ Len(s) \in Nat /\ DOMAIN s = 1..Len(s)
      /\ Len(s) >= 1 /\ s[Len(s)] \in R /\ p \in 1..Len(s)
  OBVIOUS
<1>2. /\ r \in Seq(R) /\ Len(r) = Len(s)
      /\ \A j \in 1..Len(s) : r[j] = IF j = p THEN s[Len(s)] ELSE s[j]
  BY <1>1
<1>3. /\ SubSeq(r, 1, Len(s) - 1) \in Seq(R)
      /\ Len(SubSeq(r, 1, Len(s) - 1)) = Len(s) - 1
      /\ \A j \in 1..(Len(s) - 1) : SubSeq(r, 1, Len(s) - 1)[j] = r[j]
  <2> HIDE DEF r
  <2> QED BY <1>1, <1>2
<1> QED BY <1>1, <1>2, <1>3 DEF SwapOut

\* Elements have their type, also after one is replaced.
LEMMA ElementOf ==
  ASSUME NEW R, NEW s \in Seq(R), NEW p \in DOMAIN s
  PROVE  s[p] \in R
OBVIOUS

LEMMA ReplaceFacts ==
  ASSUME NEW R, NEW s \in Seq(R), NEW p \in DOMAIN s, NEW e \in R
  PROVE  /\ [s EXCEPT ![p] = e] \in Seq(R)
         /\ DOMAIN [s EXCEPT ![p] = e] = DOMAIN s
         /\ Len([s EXCEPT ![p] = e]) = Len(s)
         /\ [s EXCEPT ![p] = e][p] = e
         /\ \A j \in DOMAIN s \ {p} : [s EXCEPT ![p] = e][j] = s[j]
<1>1. DOMAIN s = 1..Len(s) /\ Len(s) \in Nat
  OBVIOUS
<1> QED BY <1>1

\* mutex_new's append.
LEMMA AppendFacts ==
  ASSUME NEW R, NEW s \in Seq(R), NEW e \in R
  PROVE  /\ Append(s, e) \in Seq(R)
         /\ Len(Append(s, e)) = Len(s) + 1
         /\ DOMAIN Append(s, e) = 1..(Len(s) + 1)
         /\ \A j \in 1..Len(s) : Append(s, e)[j] = s[j]
         /\ Append(s, e)[Len(s) + 1] = e
OBVIOUS

(***************************************************************************)
(* Every step keeps the invariant: one lemma per action.                   *)
(***************************************************************************)
\* The table is empty and nobody holds or calls anything.
LEMMA MutexInitInv == MutexInit => MutexInv
<1> SUFFICES ASSUME MutexInit PROVE MutexInv
  OBVIOUS
<1>1. g_mu = <<>> /\ DOMAIN g_mu = {} /\ Len(g_mu) = 0
  BY DEF MutexInit
<1>2. MutexTypeOK
  BY <1>1, MutexAssumption DEF MutexInit, MutexTypeOK, NoCall
<1>3. IdsDistinct /\ PointersFresh /\ HeldIds
  BY <1>1 DEF MutexInit, IdsDistinct, PointersFresh, HeldIds, NoCall
<1>4. Exclusive
  BY <1>1 DEF MutexInit, Exclusive, MutualExclusion, LockBitAgrees
<1> QED BY <1>2, <1>3, <1>4 DEF MutexInv

\* mutex_new appends an unlocked record with a new id.  If the table moves, no
\* call is pending.
LEMMA NewKeeps ==
  ASSUME MutexInv, MoveUnderUse = FALSE, NEW t \in Locker, mutex_new(t)
  PROVE  MutexInv'
<1> DEFINE e == [id |-> g_mu_next, locked |-> FALSE]
<1>1. /\ g_mu \in Seq([id : Id, locked : BOOLEAN])
      /\ Len(g_mu) \in Nat /\ DOMAIN g_mu = 1..Len(g_mu)
      /\ muBlock \in [base : Nat, cap : Nat \ {0}] /\ Len(g_mu) <= muBlock.cap
      /\ g_mu_next \in 1..(MaxNew + 1)
      /\ e \in [id : Id, locked : BOOLEAN]
  BY MutexAssumption DEF MutexInv, MutexTypeOK, mutex_new, Id
<1>2. /\ g_mu' \in Seq([id : Id, locked : BOOLEAN])
      /\ Len(g_mu') = Len(g_mu) + 1
      /\ DOMAIN g_mu' = 1..(Len(g_mu) + 1)
      /\ \A j \in 1..Len(g_mu) : g_mu'[j] = g_mu[j]
      /\ g_mu'[Len(g_mu) + 1] = e
  BY <1>1, AppendFacts DEF mutex_new
<1>3. /\ muBlock' \in [base : Nat, cap : Nat \ {0}]
      /\ Len(g_mu') <= muBlock'.cap
      /\ muBlock'.base = muBlock.base \/ Quiet
  <2>1. CASE Len(g_mu) < muBlock.cap
    BY <1>1, <1>2, <2>1 DEF mutex_new
  <2>2. CASE ~(Len(g_mu) < muBlock.cap)
    <3>1. PICK moved \in {0, 1} :
            /\ moved = 1 => Quiet \/ MoveUnderUse
            /\ muBlock' = [base |-> muBlock.base + moved, cap |-> 2 * muBlock.cap]
      BY <2>2 DEF mutex_new
    <3>2. Len(g_mu) = muBlock.cap /\ 2 * muBlock.cap >= muBlock.cap + 1
      BY <1>1, <2>2
    <3>3. muBlock'.cap = 2 * muBlock.cap /\ muBlock'.base = muBlock.base + moved
      BY <3>1
    <3>4. muBlock' \in [base : Nat, cap : Nat \ {0}]
      BY <1>1, <3>1
    <3>5. Len(g_mu') <= muBlock'.cap
      BY <1>1, <1>2, <3>2, <3>3
    <3>6. muBlock'.base = muBlock.base \/ Quiet
      BY <1>1, <3>1, <3>3
    <3> QED BY <3>4, <3>5, <3>6
  <2> QED BY <2>1, <2>2
<1>4. g_mu_next' = g_mu_next + 1 /\ g_mu_next' \in 1..(MaxNew + 1)
      /\ UNCHANGED <<call, holds>>
  BY <1>1, MutexAssumption DEF mutex_new
<1>5. MutexTypeOK'
  BY <1>2, <1>3, <1>4 DEF MutexInv, MutexTypeOK
<1>6. ASSUME NEW p \in DOMAIN g_mu
      PROVE  g_mu[p] \in [id : Id, locked : BOOLEAN] /\ g_mu[p].id < g_mu_next
  <2>1. g_mu[p] \in [id : Id, locked : BOOLEAN]
    BY <1>1, ElementOf
  <2> QED BY <2>1 DEF MutexInv, IdsDistinct
<1>7. IdsDistinct'
  <2>1. ASSUME NEW p \in DOMAIN g_mu' PROVE g_mu'[p].id < g_mu_next'
    BY SMTT(40), <1>1, <1>2, <1>4, <1>6 DEF Id
  <2>2. ASSUME NEW p \in DOMAIN g_mu', NEW j \in DOMAIN g_mu', g_mu'[p].id = g_mu'[j].id
        PROVE  p = j
    BY SMTT(40), <1>1, <1>2, <1>6, <2>2 DEF MutexInv, IdsDistinct, Id
  <2> QED BY <2>1, <2>2 DEF IdsDistinct
<1>8. PointersFresh'
  <2> SUFFICES ASSUME NEW u \in Locker, call[u].op # "none"
               PROVE  Live(u)' /\ g_mu'[call[u].at].id = call[u].id
    BY <1>4 DEF PointersFresh
  <2>1. Live(u) /\ g_mu[call[u].at].id = call[u].id
    BY DEF MutexInv, PointersFresh
  <2>2. muBlock'.base = muBlock.base
    BY <1>3 DEF Quiet
  <2> QED BY <1>1, <1>2, <1>4, <2>1, <2>2 DEF Live
<1>9. HeldIds'
  BY <1>1, <1>4 DEF MutexInv, HeldIds, MutexTypeOK, Id
<1>10. Exclusive'
  <2>1. ASSUME NEW p \in DOMAIN g_mu'
        PROVE  g_mu'[p].locked <=> \E u \in Locker : g_mu'[p].id \in holds[u]
    <3>1. CASE p \in DOMAIN g_mu
      BY <1>1, <1>2, <3>1 DEF MutexInv, Exclusive, LockBitAgrees
    <3>2. CASE p = Len(g_mu) + 1
      <4>1. g_mu'[p].id = g_mu_next /\ ~g_mu'[p].locked
        BY <1>2, <3>2
      <4>2. \A u \in Locker : g_mu_next \notin holds[u]
        BY <1>1 DEF MutexInv, HeldIds
      <4> QED BY <4>1, <4>2
    <3> QED BY <1>1, <1>2, <3>1, <3>2
  <2> QED BY <1>4, <2>1 DEF MutexInv, Exclusive, MutualExclusion, LockBitAgrees
<1> QED BY <1>5, <1>7, <1>8, <1>9, <1>10 DEF MutexInv

\* mutex_free moves the last record into the hole; no call is pending and nobody
\* holds the mutex that goes.
LEMMA FreeKeeps ==
  ASSUME MutexInv, MoveUnderUse = FALSE, NEW t \in Locker, mutex_free(t)
  PROVE  MutexInv'
<1>1. PICK p \in DOMAIN g_mu : Unused(g_mu[p].id) /\ g_mu' = SwapOut(g_mu, p)
  BY DEF mutex_free, SwapOut
<1>2. /\ g_mu \in Seq([id : Id, locked : BOOLEAN])
      /\ Len(g_mu) \in Nat /\ DOMAIN g_mu = 1..Len(g_mu) /\ Len(g_mu) <= muBlock.cap
      /\ muBlock.cap \in Nat
  BY DEF MutexInv, MutexTypeOK
<1>3. /\ g_mu' \in Seq([id : Id, locked : BOOLEAN])
      /\ Len(g_mu') = Len(g_mu) - 1
      /\ DOMAIN g_mu' = 1..(Len(g_mu) - 1)
      /\ \A j \in 1..(Len(g_mu) - 1) :
           g_mu'[j] = IF j = p THEN g_mu[Len(g_mu)] ELSE g_mu[j]
  BY <1>1, <1>2, SwapOutFacts
<1>4. Quiet /\ UNCHANGED <<muBlock, g_mu_next, call, holds>>
  BY DEF mutex_free
<1>5. MutexTypeOK'
  BY <1>2, <1>3, <1>4 DEF MutexInv, MutexTypeOK
<1>6. PointersFresh'
  BY <1>4 DEF PointersFresh, Quiet
<1>7. HeldIds'
  BY <1>4 DEF MutexInv, HeldIds
\* every record that is left was in the table, and two that are left were two
<1>8. \A j \in DOMAIN g_mu' : \E k \in DOMAIN g_mu :
        g_mu'[j] = g_mu[k] /\ k = (IF j = p THEN Len(g_mu) ELSE j)
  BY <1>2, <1>3
<1>9. IdsDistinct'
  <2>1. ASSUME NEW j \in DOMAIN g_mu', NEW k \in DOMAIN g_mu', g_mu'[j].id = g_mu'[k].id
        PROVE  j = k
    <3>1. (IF j = p THEN Len(g_mu) ELSE j) = (IF k = p THEN Len(g_mu) ELSE k)
      BY <1>8, <2>1 DEF MutexInv, IdsDistinct
    <3> QED BY <1>2, <1>3, <3>1
  <2> QED BY <1>4, <1>8, <2>1 DEF MutexInv, IdsDistinct
<1>10. Exclusive'
  BY <1>4, <1>8 DEF MutexInv, Exclusive, MutualExclusion, LockBitAgrees
<1> QED BY <1>5, <1>6, <1>7, <1>9, <1>10 DEF MutexInv

\* The first half of a call takes down the record of its id.
LEMMA LookupKeeps ==
  ASSUME MutexInv, NEW t \in Locker, NEW id \in Id,
         NEW op \in {"lock", "trylock", "unlock"}, Lookup(t, op, id),
         op = "unlock" => id \in holds[t]
  PROVE  MutexInv'
<1>1. PICK p \in DOMAIN g_mu :
        /\ g_mu[p].id = id
        /\ call' = [call EXCEPT ![t] = [op |-> op, id |-> id, base |-> muBlock.base, at |-> p]]
  BY DEF Lookup, mu_rec
<1>2. UNCHANGED <<g_mu, muBlock, g_mu_next, holds>> /\ p \in Nat
      /\ DOMAIN g_mu' = DOMAIN g_mu
  BY DEF Lookup, MutexInv, MutexTypeOK
<1>3. call \in [Locker -> [op : {"none", "lock", "trylock", "unlock"},
                           id : 0..MaxNew, base : Nat, at : Nat]]
      /\ muBlock.base \in Nat /\ id \in 0..MaxNew
  BY MutexAssumption DEF MutexInv, MutexTypeOK, Id
<1>4. /\ call' \in [Locker -> [op : {"none", "lock", "trylock", "unlock"},
                              id : 0..MaxNew, base : Nat, at : Nat]]
      /\ call'[t].op = op /\ call'[t].id = id
      /\ call'[t].base = muBlock.base /\ call'[t].at = p
      /\ \A u \in Locker \ {t} : call'[u] = call[u]
  BY <1>1, <1>2, <1>3
<1>5. MutexTypeOK' /\ IdsDistinct'
  BY <1>2, <1>4 DEF MutexInv, MutexTypeOK, IdsDistinct
<1>6. PointersFresh'
  <2> SUFFICES ASSUME NEW u \in Locker, call'[u].op # "none"
               PROVE  Live(u)' /\ g_mu'[call'[u].at].id = call'[u].id
    BY DEF PointersFresh
  <2>1. CASE u = t
    BY <1>1, <1>2, <1>4, <2>1 DEF Live
  <2>2. CASE u # t
    BY <1>2, <1>4, <2>2 DEF Live, MutexInv, PointersFresh
  <2> QED BY <2>1, <2>2
<1>7. HeldIds'
  BY <1>2, <1>4 DEF MutexInv, HeldIds
<1>8. Exclusive'
  BY <1>2 DEF MutexInv, Exclusive, MutualExclusion, LockBitAgrees
<1> QED BY <1>5, <1>6, <1>7, <1>8 DEF MutexInv

\* What a pending call points at, in one place: its record is live, has its id,
\* and is the only one that does.
LEMMA PendingFacts ==
  ASSUME MutexInv, NEW t \in Locker, call[t].op # "none"
  PROVE  /\ Live(t)
         /\ call[t].at \in DOMAIN g_mu
         /\ g_mu[call[t].at].id = call[t].id
         /\ \A p \in DOMAIN g_mu : g_mu[p].id = call[t].id => p = call[t].at
         /\ call[t].id \in Id /\ call[t].id < g_mu_next
<1>1. Live(t) /\ call[t].at \in DOMAIN g_mu /\ g_mu[call[t].at].id = call[t].id
  BY DEF MutexInv, PointersFresh, Live
<1>2. \A p \in DOMAIN g_mu : g_mu[p].id = call[t].id => p = call[t].at
  BY <1>1 DEF MutexInv, IdsDistinct
<1>3. g_mu[call[t].at] \in [id : Id, locked : BOOLEAN]
  BY <1>1, ElementOf DEF MutexInv, MutexTypeOK
<1>4. g_mu[call[t].at].id < g_mu_next
  BY <1>1 DEF MutexInv, IdsDistinct
<1> QED BY <1>1, <1>2, <1>3, <1>4

\* SetLocked through a live pointer changes that record's bit and nothing else.
LEMMA SetLockedFacts ==
  ASSUME MutexTypeOK, NEW t \in Locker, Live(t), NEW b \in BOOLEAN, SetLocked(t, b)
  PROVE  /\ g_mu' \in Seq([id : Id, locked : BOOLEAN])
         /\ DOMAIN g_mu' = DOMAIN g_mu /\ Len(g_mu') = Len(g_mu)
         /\ g_mu'[call[t].at].locked = b
         /\ \A p \in DOMAIN g_mu : g_mu'[p].id = g_mu[p].id
         /\ \A p \in DOMAIN g_mu \ {call[t].at} : g_mu'[p] = g_mu[p]
<1> DEFINE at == call[t].at
<1>1. /\ g_mu \in Seq([id : Id, locked : BOOLEAN]) /\ at \in DOMAIN g_mu
      /\ g_mu' = [g_mu EXCEPT ![at].locked = b]
      /\ DOMAIN g_mu = 1..Len(g_mu) /\ Len(g_mu) \in Nat
  BY DEF MutexTypeOK, Live, SetLocked
<1>2. g_mu[at] \in [id : Id, locked : BOOLEAN]
  BY <1>1, ElementOf
<1> DEFINE r == [g_mu[at] EXCEPT !.locked = b]
<1>3. r \in [id : Id, locked : BOOLEAN] /\ r.locked = b /\ r.id = g_mu[at].id
  BY <1>2
<1>4. g_mu' = [g_mu EXCEPT ![at] = r]
  BY <1>1
<1> HIDE DEF at, r
<1>5. /\ DOMAIN g_mu' = DOMAIN g_mu /\ Len(g_mu') = Len(g_mu)
      /\ g_mu'[at] = r /\ \A p \in DOMAIN g_mu \ {at} : g_mu'[p] = g_mu[p]
      /\ g_mu' \in Seq([id : Id, locked : BOOLEAN])
  <2>1. /\ g_mu \in Seq([id : Id, locked : BOOLEAN]) /\ at \in DOMAIN g_mu
        /\ r \in [id : Id, locked : BOOLEAN]
    BY <1>1, <1>3
  <2> DEFINE R == [id : Id, locked : BOOLEAN]
  <2> HIDE DEF R
  <2> QED BY <2>1, <1>4, ReplaceFacts DEF R
<1> QED BY <1>3, <1>5 DEF at

\* The end of a call leaves the other calls as they are.
LEMMA CallEnds ==
  ASSUME MutexTypeOK, NEW t \in Locker, call' = [call EXCEPT ![t] = NoCall]
  PROVE  /\ call' \in [Locker -> [op : {"none", "lock", "trylock", "unlock"},
                                  id : 0..MaxNew, base : Nat, at : Nat]]
         /\ call'[t].op = "none"
         /\ \A u \in Locker : call'[u].op # "none" => call'[u] = call[u] /\ u # t
BY MutexAssumption DEF MutexTypeOK, NoCall

\* The pointers of the other calls stay good when only lock bits change.
LEMMA PointersKept ==
  ASSUME MutexInv, NEW t \in Locker, call' = [call EXCEPT ![t] = NoCall],
         UNCHANGED muBlock, DOMAIN g_mu' = DOMAIN g_mu,
         \A p \in DOMAIN g_mu : g_mu'[p].id = g_mu[p].id
  PROVE  PointersFresh'
<1> SUFFICES ASSUME NEW u \in Locker, call'[u].op # "none"
             PROVE  Live(u)' /\ g_mu'[call'[u].at].id = call'[u].id
  BY DEF PointersFresh
<1>1. call'[u] = call[u]
  BY CallEnds DEF MutexInv
<1>2. Live(u) /\ call[u].at \in DOMAIN g_mu /\ g_mu[call[u].at].id = call[u].id
  BY <1>1, PendingFacts
<1> QED BY <1>1, <1>2 DEF Live

\* pthread_mutex_lock through a good pointer: the bit was clear, so nobody held
\* the id; now the bit is set and the caller holds it.
LEMMA AcquireKeeps ==
  ASSUME MutexInv, NEW t \in Locker, Acquire(t)
  PROVE  MutexInv'
<1> DEFINE id == call[t].id
           at == call[t].at
<1>1. call[t].op # "none" /\ call' = [call EXCEPT ![t] = NoCall]
      /\ UNCHANGED <<muBlock, g_mu_next>> /\ holds' = [holds EXCEPT ![t] = @ \cup {id}]
  BY DEF Acquire
<1>2. /\ Live(t) /\ at \in DOMAIN g_mu /\ g_mu[at].id = id
      /\ \A p \in DOMAIN g_mu : g_mu[p].id = id => p = at
      /\ id \in Id /\ id < g_mu_next
  BY <1>1, PendingFacts
<1>3. ~g_mu[at].locked
  BY <1>2 DEF Acquire
<1>4. /\ g_mu' \in Seq([id : Id, locked : BOOLEAN])
      /\ DOMAIN g_mu' = DOMAIN g_mu /\ Len(g_mu') = Len(g_mu)
      /\ g_mu'[at].locked = TRUE
      /\ \A p \in DOMAIN g_mu : g_mu'[p].id = g_mu[p].id
      /\ \A p \in DOMAIN g_mu \ {at} : g_mu'[p] = g_mu[p]
  BY <1>2, SetLockedFacts DEF Acquire, MutexInv
<1> HIDE DEF id, at
<1>5. /\ holds' \in [Locker -> SUBSET Id]
      /\ holds'[t] = holds[t] \cup {id}
      /\ \A u \in Locker \ {t} : holds'[u] = holds[u]
  BY <1>1, <1>2 DEF MutexInv, MutexTypeOK
<1>6. MutexTypeOK'
  BY <1>1, <1>4, <1>5, CallEnds DEF MutexInv, MutexTypeOK
<1>7. IdsDistinct'
  BY <1>1, <1>4 DEF MutexInv, IdsDistinct
<1>8. PointersFresh'
  BY <1>1, <1>4, PointersKept
<1>9. HeldIds'
  BY <1>1, <1>2, <1>5, CallEnds DEF MutexInv, HeldIds
<1>10. \A u \in Locker : id \notin holds[u]
  BY <1>2, <1>3 DEF MutexInv, Exclusive, LockBitAgrees
<1>11. MutualExclusion'
  <2> SUFFICES ASSUME NEW u \in Locker, NEW v \in Locker, u # v
               PROVE  holds'[u] \cap holds'[v] = {}
    BY DEF MutualExclusion
  <2>1. holds[u] \cap holds[v] = {}
    BY DEF MutexInv, Exclusive, MutualExclusion
  <2>2. CASE u = t
    BY <1>5, <1>10, <2>1, <2>2
  <2>3. CASE u # t
    BY <1>5, <1>10, <2>1, <2>3
  <2> QED BY <2>2, <2>3
<1>12. LockBitAgrees'
  <2> SUFFICES ASSUME NEW p \in DOMAIN g_mu
               PROVE  g_mu'[p].locked <=> \E u \in Locker : g_mu'[p].id \in holds'[u]
    BY <1>4 DEF LockBitAgrees
  <2>1. CASE p = at
    BY <1>2, <1>4, <1>5, <2>1
  <2>2. CASE p # at
    <3>1. g_mu[p].id # id /\ g_mu'[p] = g_mu[p]
      BY <1>2, <1>4, <2>2
    <3>2. \A u \in Locker : g_mu[p].id \in holds'[u] <=> g_mu[p].id \in holds[u]
      BY <1>5, <3>1
    <3>3. g_mu[p].locked <=> \E u \in Locker : g_mu[p].id \in holds[u]
      BY DEF MutexInv, Exclusive, LockBitAgrees
    <3> QED BY <3>1, <3>2, <3>3
  <2> QED BY <2>1, <2>2
<1> QED BY <1>6, <1>7, <1>8, <1>9, <1>11, <1>12 DEF MutexInv, Exclusive

\* pthread_mutex_unlock by the holder: the bit it clears is the bit of its id.
LEMMA ReleaseKeeps ==
  ASSUME MutexInv, NEW t \in Locker, Release(t)
  PROVE  MutexInv'
<1> DEFINE id == call[t].id
           at == call[t].at
<1>1. call[t].op # "none" /\ call' = [call EXCEPT ![t] = NoCall]
      /\ UNCHANGED <<muBlock, g_mu_next>> /\ holds' = [holds EXCEPT ![t] = @ \ {id}]
      /\ call[t].op = "unlock"
  BY DEF Release
<1>2. /\ Live(t) /\ at \in DOMAIN g_mu /\ g_mu[at].id = id
      /\ \A p \in DOMAIN g_mu : g_mu[p].id = id => p = at
      /\ id \in Id /\ id < g_mu_next /\ id \in holds[t]
  BY <1>1, PendingFacts DEF MutexInv, HeldIds
<1>4. /\ g_mu' \in Seq([id : Id, locked : BOOLEAN])
      /\ DOMAIN g_mu' = DOMAIN g_mu /\ Len(g_mu') = Len(g_mu)
      /\ g_mu'[at].locked = FALSE
      /\ \A p \in DOMAIN g_mu : g_mu'[p].id = g_mu[p].id
      /\ \A p \in DOMAIN g_mu \ {at} : g_mu'[p] = g_mu[p]
  BY <1>2, SetLockedFacts DEF Release, MutexInv
<1> HIDE DEF id, at
<1>5. /\ holds' \in [Locker -> SUBSET Id]
      /\ holds'[t] = holds[t] \ {id}
      /\ \A u \in Locker \ {t} : holds'[u] = holds[u]
  BY <1>1, <1>2 DEF MutexInv, MutexTypeOK
<1>6. MutexTypeOK'
  BY <1>1, <1>4, <1>5, CallEnds DEF MutexInv, MutexTypeOK
<1>7. IdsDistinct'
  BY <1>1, <1>4 DEF MutexInv, IdsDistinct
<1>8. PointersFresh'
  BY <1>1, <1>4, PointersKept
<1>9. HeldIds'
  <2> SUFFICES ASSUME NEW u \in Locker
               PROVE  /\ \A h \in holds'[u] : h < g_mu_next'
                      /\ call'[u].op = "unlock" => call'[u].id \in holds'[u]
    BY DEF HeldIds
  <2>1. \A h \in holds'[u] : h < g_mu_next'
    BY <1>1, <1>5 DEF MutexInv, HeldIds
  <2>2. ASSUME call'[u].op = "unlock" PROVE call'[u].id \in holds'[u]
    <3>1. u # t /\ call'[u] = call[u]
      BY <1>1, <2>2, CallEnds DEF MutexInv
    <3> QED BY <1>5, <2>2, <3>1 DEF MutexInv, HeldIds
  <2> QED BY <2>1, <2>2
\* by mutual exclusion nobody else holds the id
<1>10. \A u \in Locker : id \notin holds'[u]
  BY <1>2, <1>5 DEF MutexInv, Exclusive, MutualExclusion
<1>11. MutualExclusion'
  BY <1>5 DEF MutexInv, Exclusive, MutualExclusion
<1>12. LockBitAgrees'
  <2> SUFFICES ASSUME NEW p \in DOMAIN g_mu
               PROVE  g_mu'[p].locked <=> \E u \in Locker : g_mu'[p].id \in holds'[u]
    BY <1>4 DEF LockBitAgrees
  <2>1. CASE p = at
    BY <1>2, <1>4, <1>10, <2>1
  <2>2. CASE p # at
    <3>1. g_mu[p].id # id /\ g_mu'[p] = g_mu[p]
      BY <1>2, <1>4, <2>2
    <3>2. \A u \in Locker : g_mu[p].id \in holds'[u] <=> g_mu[p].id \in holds[u]
      BY <1>5, <3>1
    <3>3. g_mu[p].locked <=> \E u \in Locker : g_mu[p].id \in holds[u]
      BY DEF MutexInv, Exclusive, LockBitAgrees
    <3> QED BY <3>1, <3>2, <3>3
  <2> QED BY <2>1, <2>2
<1> QED BY <1>6, <1>7, <1>8, <1>9, <1>11, <1>12 DEF MutexInv, Exclusive

\* A failed trylock only ends the call.
LEMMA TryFailsKeeps ==
  ASSUME MutexInv, NEW t \in Locker, TryFails(t)
  PROVE  MutexInv'
<1>1. call' = [call EXCEPT ![t] = NoCall] /\ UNCHANGED <<g_mu, muBlock, g_mu_next, holds>>
  BY DEF TryFails
<1>2. MutexTypeOK' /\ IdsDistinct'
  BY <1>1, CallEnds DEF MutexInv, MutexTypeOK, IdsDistinct
<1>3. PointersFresh'
  BY <1>1, PointersKept
<1>4. HeldIds'
  BY <1>1, CallEnds DEF MutexInv, HeldIds
<1>5. Exclusive'
  BY <1>1 DEF MutexInv, Exclusive, MutualExclusion, LockBitAgrees
<1> QED BY <1>2, <1>3, <1>4, <1>5 DEF MutexInv

(***************************************************************************)
(* Mutexes: the theorem.                                                   *)
(***************************************************************************)
\* Every step of the table, and a step of something else, keeps the invariant.
LEMMA MutexStep ==
  ASSUME MutexInv, MoveUnderUse = FALSE, [MutexNext]_mutexVars
  PROVE  MutexInv'
<1>1. CASE MutexNext
  <2>1. PICK t \in Locker :
          \/ mutex_new(t)
          \/ mutex_free(t)
          \/ \E id \in Id : \/ Lookup(t, "lock", id)
                            \/ Lookup(t, "trylock", id)
                            \/ id \in holds[t] /\ Lookup(t, "unlock", id)
                            \/ LookupFails(t, id)
          \/ Acquire(t)
          \/ TryFails(t)
          \/ Release(t)
    BY <1>1 DEF MutexNext
  <2>2. ASSUME NEW id \in Id, LookupFails(t, id) PROVE MutexInv'
    BY <2>2 DEF LookupFails, mutexVars, MutexInv, MutexTypeOK, IdsDistinct, PointersFresh,
                HeldIds, Live, Exclusive, MutualExclusion, LockBitAgrees
  <2> QED BY <2>1, <2>2, NewKeeps, FreeKeeps, LookupKeeps, AcquireKeeps, TryFailsKeeps,
             ReleaseKeeps
<1>2. CASE UNCHANGED mutexVars
  BY <1>2 DEF mutexVars, MutexInv, MutexTypeOK, IdsDistinct, PointersFresh, HeldIds, Live,
              Exclusive, MutualExclusion, LockBitAgrees
<1> QED BY <1>1, <1>2

\* As long as no record moves under a pending call, the types hold, two threads never hold
\* one mutex, and the lock bit of a record is set exactly while somebody holds its id,
\* through every mutex_new that grows the table and every mutex_free that reorders it.
THEOREM MutexExclusion ==
  MutexSpec /\ MoveUnderUse = FALSE => [](MutexTypeOK /\ Exclusive)
<1> SUFFICES ASSUME MoveUnderUse = FALSE PROVE MutexSpec => [](MutexTypeOK /\ Exclusive)
  OBVIOUS
<1>1. MutexInit => MutexInv
  BY MutexInitInv
<1>2. MutexInv /\ [MutexNext]_mutexVars => MutexInv'
  BY MutexStep
<1>3. MutexInv => MutexTypeOK /\ Exclusive
  BY DEF MutexInv
<1> QED BY <1>1, <1>2, <1>3, PTL DEF MutexSpec

(***************************************************************************)
(* Barriers: the inductive invariant.                                      *)
(***************************************************************************)
\* The threads that sleep in the round the record counts.
Gathered == {t \in Waiter : Sleeping(t) /\ wait[t].round = bar.round}

\* A sleeper looks at the record that exists, is of a round that was started,
\* and carries an index below the one that completes a round; in the current
\* round, below the count.
SleepersSound ==
  \A t \in Waiter : Sleeping(t) =>
    /\ wait[t].block = block
    /\ wait[t].round <= bar.round
    /\ wait[t].idx \in 0..(Need - 2)
    /\ wait[t].round = bar.round => wait[t].idx < bar.seen

\* Who arrived in the current round is still asleep in it, nobody has left it,
\* and nothing has happened in later rounds; earlier rounds were full.
RoundsSound ==
  \A r \in 0..MaxRound :
    /\ r < bar.round => Cardinality(arrived[r]) >= Need
    /\ r = bar.round => arrived[r] = Gathered
    /\ r > bar.round => arrived[r] = {}
    /\ r >= bar.round => left[r] = {}

BarrierInv == BarrierTypeOK /\ SleepersSound /\ RoundsSound /\ IndicesDistinct /\ SeenCounts

(***************************************************************************)
(* Every step keeps the invariant.                                         *)
(***************************************************************************)
\* The shapes of the variables, as the steps below use them.
LEMMA BarrierTypes ==
  ASSUME BarrierTypeOK
  PROVE  /\ Need \in Nat \ {0} /\ MaxRound \in Nat
         /\ bar.seen \in 0..(Need - 1) /\ bar.round \in 0..MaxRound
         /\ \A t \in Waiter : /\ wait[t].round \in -1..MaxRound
                              /\ wait[t].idx \in -1..(Need - 1)
                              /\ Sleeping(t) <=> wait[t].round \in 0..MaxRound
         /\ IsFiniteSet(Gathered) /\ Gathered \subseteq Waiter
<1>1. Gathered \subseteq Waiter /\ IsFiniteSet(Waiter)
  BY BarrierAssumption DEF Gathered
<1>2. IsFiniteSet(Gathered)
  BY <1>1, FS_Subset
<1> QED BY <1>1, <1>2, BarrierAssumption DEF BarrierTypeOK, Sleeping

\* Nobody has arrived, and the record counts nobody.
LEMMA BarrierInitInv == BarrierInit => BarrierInv
<1> SUFFICES ASSUME BarrierInit PROVE BarrierInv
  OBVIOUS
<1>1. BarrierTypeOK
  BY BarrierAssumption DEF BarrierInit, BarrierTypeOK, NoWait
<1>2. \A t \in Waiter : ~Sleeping(t)
  BY DEF BarrierInit, Sleeping, NoWait
<1>3. Gathered = {}
  BY <1>2 DEF Gathered
<1>4. SleepersSound /\ IndicesDistinct
  BY <1>2 DEF SleepersSound, IndicesDistinct
<1>5. RoundsSound
  BY <1>3, BarrierAssumption DEF BarrierInit, RoundsSound
<1>6. SeenCounts
  BY <1>3, FS_EmptySet DEF BarrierInit, SeenCounts, Gathered
<1> QED BY <1>1, <1>4, <1>5, <1>6 DEF BarrierInv

\* The last arrival: the round was one short, is full with it, and the next one
\* starts with nobody in it.
LEMMA CompletesKeeps ==
  ASSUME BarrierInv, NEW t \in Waiter, Arrive(t), bar.seen + 1 = Need
  PROVE  BarrierInv'
<1> DEFINE now == bar.round
<1>1. /\ ~Sleeping(t) /\ now < MaxRound
      /\ arrived' = [arrived EXCEPT ![now] = @ \cup {t}]
      /\ bar' = NextRound
      /\ left' = [left EXCEPT ![now] = @ \cup {Need - 1}]
      /\ UNCHANGED <<wait, block, stale>>
  BY DEF Arrive, ArriveAs
<1>2. /\ Need \in Nat \ {0} /\ MaxRound \in Nat
      /\ bar.seen \in 0..(Need - 1) /\ now \in 0..MaxRound
      /\ \A u \in Waiter : /\ wait[u].round \in -1..MaxRound
                           /\ wait[u].idx \in -1..(Need - 1)
                           /\ Sleeping(u) <=> wait[u].round \in 0..MaxRound
      /\ IsFiniteSet(Gathered)
  BY BarrierTypes DEF BarrierInv
<1>3. bar'.seen = 0 /\ bar'.round = now + 1 /\ bar' \in [seen : 0..(Need - 1), round : 0..MaxRound]
  BY <1>1, <1>2 DEF NextRound
<1>4. /\ arrived' \in [0..MaxRound -> SUBSET Waiter]
      /\ arrived'[now] = arrived[now] \cup {t}
      /\ \A r \in 0..MaxRound \ {now} : arrived'[r] = arrived[r]
  BY <1>1, <1>2 DEF BarrierInv, BarrierTypeOK
<1>5. /\ left' \in [0..MaxRound -> SUBSET (0..(Need - 1))]
      /\ left'[now] = left[now] \cup {Need - 1}
      /\ \A r \in 0..MaxRound \ {now} : left'[r] = left[r]
  BY <1>1, <1>2 DEF BarrierInv, BarrierTypeOK
<1> HIDE DEF now
<1>6. BarrierTypeOK'
  BY <1>1, <1>3, <1>4, <1>5 DEF BarrierInv, BarrierTypeOK
<1>7. \A u \in Waiter : Sleeping(u)' <=> Sleeping(u)
  BY <1>1 DEF Sleeping
<1>8. SleepersSound'
  BY <1>1, <1>2, <1>3, <1>7 DEF BarrierInv, SleepersSound, now
\* nobody sleeps in a round that has not begun
<1>9. Gathered' = {}
  BY <1>1, <1>2, <1>3, <1>7 DEF BarrierInv, SleepersSound, Gathered, now
<1>10. Cardinality(arrived'[now]) = Need
  <2>1. arrived[now] = Gathered /\ t \notin Gathered
    BY <1>1, <1>2 DEF BarrierInv, RoundsSound, Gathered, now
  <2>2. Cardinality(Gathered \cup {t}) = Cardinality(Gathered) + 1
    BY <1>2, <2>1, FS_AddElement
  <2>3. Cardinality(Gathered) = bar.seen
    BY DEF BarrierInv, SeenCounts, Gathered
  <2> QED BY <1>4, <2>1, <2>2, <2>3
<1>11. RoundsSound'
  <2> SUFFICES ASSUME NEW r \in 0..MaxRound
               PROVE  /\ r < bar'.round => Cardinality(arrived'[r]) >= Need
                      /\ r = bar'.round => arrived'[r] = Gathered'
                      /\ r > bar'.round => arrived'[r] = {}
                      /\ r >= bar'.round => left'[r] = {}
    BY DEF RoundsSound
  <2>1. CASE r = now
    BY <1>2, <1>3, <1>10, <2>1
  <2>2. CASE r # now
    <3>1. arrived'[r] = arrived[r] /\ left'[r] = left[r]
      BY <1>4, <1>5, <2>2
    <3>2. /\ r < now => Cardinality(arrived[r]) >= Need
          /\ r > now => arrived[r] = {} /\ left[r] = {}
      BY <1>2 DEF BarrierInv, RoundsSound, now
    <3> QED BY <1>2, <1>3, <1>9, <2>2, <3>1, <3>2
  <2> QED BY <2>1, <2>2
<1>12. IndicesDistinct'
  <2>1. \A u, v \in Waiter :
          u # v /\ Sleeping(u)' /\ Sleeping(v)' /\ wait'[u].round = wait'[v].round
            => wait'[u].idx # wait'[v].idx
    BY <1>1, <1>7 DEF BarrierInv, IndicesDistinct
  <2>2. ASSUME NEW u \in Waiter, Sleeping(u)' PROVE wait'[u].idx \notin left'[wait'[u].round]
    <3>1. /\ Sleeping(u) /\ wait'[u] = wait[u] /\ wait[u].round \in 0..MaxRound
          /\ wait[u].idx \notin left[wait[u].round] /\ wait[u].idx \in 0..(Need - 2)
      BY SMTT(40), <1>1, <1>2, <1>7, <2>2 DEF BarrierInv, IndicesDistinct, SleepersSound
    <3> QED BY SMTT(40), <1>2, <1>5, <3>1
  <2> QED BY <2>1, <2>2 DEF IndicesDistinct
<1>13. SeenCounts'
  BY <1>3, <1>9, FS_EmptySet DEF SeenCounts, Gathered
<1> QED BY <1>6, <1>8, <1>11, <1>12, <1>13 DEF BarrierInv

\* Any other arrival goes to sleep with the index the count had.
LEMMA WaitsKeeps ==
  ASSUME BarrierInv, NEW t \in Waiter, Arrive(t), bar.seen + 1 # Need
  PROVE  BarrierInv'
<1> DEFINE now == bar.round
           rec == [round |-> now, idx |-> bar.seen, block |-> block]
<1>1. /\ ~Sleeping(t) /\ now < MaxRound
      /\ arrived' = [arrived EXCEPT ![now] = @ \cup {t}]
      /\ bar' = [bar EXCEPT !.seen = @ + 1]
      /\ wait' = [wait EXCEPT ![t] = rec]
      /\ UNCHANGED <<left, block, stale>>
  BY DEF Arrive, ArriveAs
<1>2. /\ Need \in Nat \ {0} /\ MaxRound \in Nat
      /\ bar.seen \in 0..(Need - 1) /\ now \in 0..MaxRound
      /\ \A u \in Waiter : /\ wait[u].round \in -1..MaxRound
                           /\ wait[u].idx \in -1..(Need - 1)
                           /\ Sleeping(u) <=> wait[u].round \in 0..MaxRound
      /\ IsFiniteSet(Gathered)
  BY BarrierTypes DEF BarrierInv
<1>3. /\ bar'.seen = bar.seen + 1 /\ bar'.round = now
      /\ bar' \in [seen : 0..(Need - 1), round : 0..MaxRound]
      /\ bar.seen \in 0..(Need - 2)
  <2>1. bar.seen \in 0..(Need - 2)
    BY <1>2
  <2>2. bar \in [seen : 0..(Need - 1), round : 0..MaxRound]
    BY DEF BarrierInv, BarrierTypeOK
  <2>3. bar' = [seen |-> bar.seen + 1, round |-> now]
    BY <1>1, <2>2
  <2> HIDE DEF now
  <2>4. bar.seen + 1 \in 0..(Need - 1)
    BY <1>2, <2>1
  <2> QED BY <1>2, <2>1, <2>3, <2>4
<1>4. /\ arrived' \in [0..MaxRound -> SUBSET Waiter]
      /\ arrived'[now] = arrived[now] \cup {t}
      /\ \A r \in 0..MaxRound \ {now} : arrived'[r] = arrived[r]
  BY <1>1, <1>2 DEF BarrierInv, BarrierTypeOK
<1>5. /\ wait' \in [Waiter -> [round : -1..MaxRound, idx : -1..(Need - 1), block : -1..1]]
      /\ wait'[t] = rec /\ \A u \in Waiter \ {t} : wait'[u] = wait[u]
  <2>1. rec \in [round : -1..MaxRound, idx : -1..(Need - 1), block : -1..1]
    BY <1>2 DEF BarrierInv, BarrierTypeOK
  <2> HIDE DEF rec
  <2> QED BY <1>1, <2>1 DEF BarrierInv, BarrierTypeOK
<1>6. /\ rec.round = now /\ rec.idx = bar.seen /\ rec.block = block
  OBVIOUS
<1> HIDE DEF now, rec
<1>7. BarrierTypeOK'
  BY <1>1, <1>3, <1>4, <1>5 DEF BarrierInv, BarrierTypeOK
<1>8. Sleeping(t)' /\ \A u \in Waiter \ {t} : Sleeping(u)' <=> Sleeping(u)
  BY <1>2, <1>5, <1>6 DEF Sleeping
<1>9. SleepersSound'
  <2> SUFFICES ASSUME NEW u \in Waiter, Sleeping(u)'
               PROVE  /\ wait'[u].block = block'
                      /\ wait'[u].round <= bar'.round
                      /\ wait'[u].idx \in 0..(Need - 2)
                      /\ wait'[u].round = bar'.round => wait'[u].idx < bar'.seen
    BY DEF SleepersSound
  <2>1. CASE u = t
    BY <1>1, <1>2, <1>3, <1>5, <1>6, <2>1
  <2>2. CASE u # t
    <3>1. /\ wait'[u] = wait[u] /\ wait[u].block = block /\ wait[u].round <= now
          /\ wait[u].idx \in 0..(Need - 2)
          /\ wait[u].round = now => wait[u].idx < bar.seen
      BY <1>5, <1>8, <2>2 DEF BarrierInv, SleepersSound, now
    <3> QED BY <1>1, <1>2, <1>3, <3>1
  <2> QED BY <2>1, <2>2
<1>10. Gathered' = Gathered \cup {t} /\ t \notin Gathered
  <2>1. \A u \in Waiter \ {t} : u \in Gathered' <=> u \in Gathered
    BY <1>3, <1>5, <1>8 DEF Gathered, now
  <2>2. t \in Gathered' /\ t \notin Gathered
    BY <1>1, <1>3, <1>5, <1>6, <1>8 DEF Gathered
  <2>3. Gathered' \subseteq Waiter /\ Gathered \subseteq Waiter
    BY DEF Gathered
  <2> QED BY <2>1, <2>2, <2>3
<1>11. RoundsSound'
  <2> SUFFICES ASSUME NEW r \in 0..MaxRound
               PROVE  /\ r < bar'.round => Cardinality(arrived'[r]) >= Need
                      /\ r = bar'.round => arrived'[r] = Gathered'
                      /\ r > bar'.round => arrived'[r] = {}
                      /\ r >= bar'.round => left'[r] = {}
    BY DEF RoundsSound
  <2>1. /\ r < now => Cardinality(arrived[r]) >= Need
        /\ r = now => arrived[r] = Gathered
        /\ r > now => arrived[r] = {}
        /\ r >= now => left[r] = {}
    BY DEF BarrierInv, RoundsSound, now
  <2>2. CASE r = now
    BY <1>1, <1>2, <1>3, <1>4, <1>10, <2>1, <2>2
  <2>3. CASE r # now
    BY <1>1, <1>2, <1>3, <1>4, <2>1, <2>3
  <2> QED BY <2>2, <2>3
<1>12. IndicesDistinct'
  <2>1. ASSUME NEW u \in Waiter, NEW v \in Waiter, u # v, Sleeping(u)', Sleeping(v)',
               wait'[u].round = wait'[v].round
        PROVE  wait'[u].idx # wait'[v].idx
    <3>1. CASE u # t /\ v # t
      BY <1>5, <1>8, <2>1, <3>1 DEF BarrierInv, IndicesDistinct
    <3>2. ASSUME NEW w \in Waiter \ {t}, Sleeping(w), wait[w].round = now
          PROVE  wait[w].idx # bar.seen
      BY <1>2, <3>2 DEF BarrierInv, SleepersSound, now
    <3>3. CASE u = t
      BY <1>5, <1>6, <1>8, <2>1, <3>2, <3>3
    <3>4. CASE v = t
      BY <1>5, <1>6, <1>8, <2>1, <3>2, <3>4
    <3> QED BY <3>1, <3>3, <3>4
  <2>2. ASSUME NEW u \in Waiter, Sleeping(u)' PROVE wait'[u].idx \notin left'[wait'[u].round]
    <3>1. CASE u = t
      BY <1>1, <1>2, <1>5, <1>6, <3>1 DEF BarrierInv, RoundsSound, now
    <3>2. CASE u # t
      BY <1>1, <1>5, <1>8, <2>2, <3>2 DEF BarrierInv, IndicesDistinct
    <3> QED BY <3>1, <3>2
  <2> QED BY <2>1, <2>2 DEF IndicesDistinct
<1>13. SeenCounts'
  <2>1. Cardinality(Gathered') = Cardinality(Gathered) + 1
    BY <1>2, <1>10, FS_AddElement
  <2>2. bar.seen = Cardinality(Gathered)
    BY DEF BarrierInv, SeenCounts, Gathered
  <2> QED BY <1>3, <2>1, <2>2 DEF SeenCounts, Gathered
<1> QED BY <1>7, <1>9, <1>11, <1>12, <1>13 DEF BarrierInv

\* A thread that gets out of its loop is of a round that is over: in its own
\* round it would count itself.
LEMMA LeaveIsLate ==
  ASSUME BarrierInv, NEW t \in Waiter, Sleeping(t), ~StillClosed(t)
  PROVE  wait[t].round < bar.round
<1>1. /\ IsFiniteSet(Gathered) /\ bar.round \in Nat /\ wait[t].round \in Int
  BY BarrierTypes DEF BarrierInv
<1>2. wait[t].block = block /\ wait[t].round <= bar.round
  BY DEF BarrierInv, SleepersSound
<1>3. ASSUME wait[t].round = bar.round PROVE FALSE
  <2>1. t \in Gathered
    BY <1>3 DEF Gathered
  <2>2. Cardinality(Gathered) # 0
    BY <1>1, <2>1, FS_EmptySet
  <2>3. bar.seen # 0
    BY <2>2 DEF BarrierInv, SeenCounts, Gathered
  <2> QED BY <1>2, <1>3, <2>3 DEF StillClosed
<1> QED BY <1>1, <1>2, <1>3

\* Leaving gives back an index nobody else of the round has.
LEMMA LeaveKeeps ==
  ASSUME BarrierInv, NEW t \in Waiter, Leave(t)
  PROVE  BarrierInv'
<1> DEFINE old == wait[t].round
           p == wait[t].idx
<1>1. /\ Sleeping(t) /\ ~StillClosed(t)
      /\ left' = [left EXCEPT ![old] = @ \cup {p}]
      /\ wait' = [wait EXCEPT ![t] = NoWait]
      /\ UNCHANGED <<bar, block, stale, arrived>>
  BY DEF Leave
<1>2. /\ Need \in Nat \ {0} /\ MaxRound \in Nat
      /\ bar.seen \in 0..(Need - 1) /\ bar.round \in 0..MaxRound
      /\ \A u \in Waiter : /\ wait[u].round \in -1..MaxRound
                           /\ wait[u].idx \in -1..(Need - 1)
                           /\ Sleeping(u) <=> wait[u].round \in 0..MaxRound
  BY BarrierTypes DEF BarrierInv
<1>3. old < bar.round /\ old \in 0..MaxRound /\ p \in 0..(Need - 1)
  BY <1>1, <1>2, LeaveIsLate DEF BarrierInv, SleepersSound
<1>4. /\ wait' \in [Waiter -> [round : -1..MaxRound, idx : -1..(Need - 1), block : -1..1]]
      /\ wait'[t].round = -1 /\ \A u \in Waiter \ {t} : wait'[u] = wait[u]
  BY <1>1, <1>2 DEF BarrierInv, BarrierTypeOK, NoWait
<1>5. /\ left' \in [0..MaxRound -> SUBSET (0..(Need - 1))]
      /\ left'[old] = left[old] \cup {p}
      /\ \A r \in 0..MaxRound \ {old} : left'[r] = left[r]
  BY <1>1, <1>3 DEF BarrierInv, BarrierTypeOK
<1> HIDE DEF old, p
<1>6. BarrierTypeOK'
  BY <1>1, <1>4, <1>5 DEF BarrierInv, BarrierTypeOK
<1>7. ~Sleeping(t)' /\ \A u \in Waiter \ {t} : Sleeping(u)' <=> Sleeping(u)
  BY <1>4 DEF Sleeping
<1>8. SleepersSound'
  BY <1>1, <1>4, <1>7 DEF BarrierInv, SleepersSound
<1>9. Gathered' = Gathered
  <2>1. \A u \in Waiter \ {t} : u \in Gathered' <=> u \in Gathered
    BY <1>1, <1>4, <1>7 DEF Gathered
  <2>2. t \notin Gathered' /\ t \notin Gathered
    BY <1>2, <1>3, <1>7 DEF Gathered, old
  <2>3. Gathered' \subseteq Waiter /\ Gathered \subseteq Waiter
    BY DEF Gathered
  <2> QED BY <2>1, <2>2, <2>3
<1>10. RoundsSound'
  <2> SUFFICES ASSUME NEW r \in 0..MaxRound
               PROVE  /\ r < bar'.round => Cardinality(arrived'[r]) >= Need
                      /\ r = bar'.round => arrived'[r] = Gathered'
                      /\ r > bar'.round => arrived'[r] = {}
                      /\ r >= bar'.round => left'[r] = {}
    BY DEF RoundsSound
  <2>1. /\ r < bar.round => Cardinality(arrived[r]) >= Need
        /\ r = bar.round => arrived[r] = Gathered
        /\ r > bar.round => arrived[r] = {}
        /\ r >= bar.round => left[r] = {}
    BY DEF BarrierInv, RoundsSound
  <2>2. r >= bar.round => left'[r] = left[r]
    BY <1>2, <1>3, <1>5
  <2> QED BY <1>1, <1>9, <2>1, <2>2
<1>11. IndicesDistinct'
  <2>1. ASSUME NEW u \in Waiter, NEW v \in Waiter, u # v, Sleeping(u)', Sleeping(v)',
               wait'[u].round = wait'[v].round
        PROVE  wait'[u].idx # wait'[v].idx
    BY <1>4, <1>7, <2>1 DEF BarrierInv, IndicesDistinct
  <2>2. ASSUME NEW u \in Waiter, Sleeping(u)' PROVE wait'[u].idx \notin left'[wait'[u].round]
    <3>1. u # t /\ Sleeping(u) /\ wait'[u] = wait[u] /\ wait[u].round \in 0..MaxRound
      BY <1>2, <1>4, <1>7, <2>2
    <3>2. wait[u].idx \notin left[wait[u].round]
      BY <3>1 DEF BarrierInv, IndicesDistinct
    <3>3. wait[u].round = old => wait[u].idx # p
      BY <1>1, <3>1 DEF BarrierInv, IndicesDistinct, old, p
    <3> QED BY <1>5, <3>1, <3>2, <3>3
  <2> QED BY <2>1, <2>2 DEF IndicesDistinct
<1>12. SeenCounts'
  <2>1. bar.seen = Cardinality(Gathered)
    BY DEF BarrierInv, SeenCounts, Gathered
  <2> QED BY <1>1, <1>9, <2>1 DEF SeenCounts, Gathered
<1> QED BY <1>6, <1>8, <1>10, <1>11, <1>12 DEF BarrierInv

\* The table moves only while nobody sleeps.
LEMMA MoveKeeps ==
  ASSUME BarrierInv, MoveUnderWaiters = FALSE, Move
  PROVE  BarrierInv'
<1>1. /\ \A t \in Waiter : ~Sleeping(t)
      /\ block' = 1 /\ stale' = bar /\ UNCHANGED <<bar, wait, arrived, left>>
  BY DEF Move
<1>2. \A t \in Waiter : ~Sleeping(t)'
  BY <1>1 DEF Sleeping
<1>3. BarrierTypeOK'
  BY <1>1 DEF BarrierInv, BarrierTypeOK
<1>4. SleepersSound' /\ IndicesDistinct'
  BY <1>2 DEF SleepersSound, IndicesDistinct
<1>5. Gathered' = Gathered
  BY <1>1, <1>2 DEF Gathered
<1>6. RoundsSound'
  BY <1>1, <1>5 DEF BarrierInv, RoundsSound
<1>7. SeenCounts'
  BY <1>1, <1>5 DEF BarrierInv, SeenCounts, Gathered
<1> QED BY <1>3, <1>4, <1>6, <1>7 DEF BarrierInv

\* A step of the barrier, or of something else.
LEMMA BarrierStep ==
  ASSUME BarrierInv, MoveUnderWaiters = FALSE, [BarrierNext]_barrierVars
  PROVE  BarrierInv'
<1>1. CASE UNCHANGED barrierVars
  BY <1>1 DEF barrierVars, BarrierInv, BarrierTypeOK, SleepersSound, RoundsSound, Gathered,
              IndicesDistinct, SeenCounts, Sleeping
<1>2. CASE BarrierNext
  <2>1. CASE Move
    BY <2>1, MoveKeeps
  <2>2. ASSUME NEW t \in Waiter, Arrive(t) PROVE BarrierInv'
    BY <2>2, CompletesKeeps, WaitsKeeps
  <2>3. ASSUME NEW t \in Waiter, Leave(t) PROVE BarrierInv'
    BY <2>3, LeaveKeeps
  <2> QED BY <1>2, <2>1, <2>2, <2>3 DEF BarrierNext
<1> QED BY <1>1, <1>2

\* Nobody has left the round the record counts, and every earlier one was full.
LEMMA BarrierInvFacts == BarrierInv => BarrierTypeOK /\ RoundsApart
<1> SUFFICES ASSUME BarrierInv PROVE NobodyLeavesEarly
  BY DEF BarrierInv, RoundsApart
<1> SUFFICES ASSUME NEW r \in 0..MaxRound, left[r] # {}
             PROVE  Cardinality(arrived[r]) >= Need
  BY DEF NobodyLeavesEarly
<1>1. bar.round \in Nat /\ r \in Nat
  BY BarrierTypes DEF BarrierInv
<1> QED BY <1>1 DEF BarrierInv, RoundsSound

(***************************************************************************)
(* Barriers: the theorem.                                                  *)
(***************************************************************************)
\* As long as the table does not move under a sleeper, nobody leaves a round before Need
\* different threads arrived in it, no arrival index is used twice in a round, and the count
\* in the record is the number of threads that sleep in the current round, however many
\* threads of later rounds pile up behind slow ones of earlier rounds.
THEOREM BarrierHolds ==
  BarrierSpec /\ MoveUnderWaiters = FALSE => [](BarrierTypeOK /\ RoundsApart)
<1> SUFFICES ASSUME MoveUnderWaiters = FALSE
             PROVE  BarrierSpec => [](BarrierTypeOK /\ RoundsApart)
  OBVIOUS
<1>1. BarrierInit => BarrierInv
  BY BarrierInitInv
<1>2. BarrierInv /\ [BarrierNext]_barrierVars => BarrierInv'
  BY BarrierStep
<1>3. BarrierInv => BarrierTypeOK /\ RoundsApart
  BY BarrierInvFacts
<1> QED BY <1>1, <1>2, <1>3, PTL DEF BarrierSpec

(***************************************************************************)
(* The worker pool: both channels of a pool obey the theorems about        *)
(* Channel, of which TaskProof and ResultProof are instances.              *)
(***************************************************************************)
TaskProof == INSTANCE Channel_proofs WITH
  ch <- tch, wt <- twt, hist <- thist,
  Sender <- {Client}, Receiver <- Worker, Value <- Job, Capacity <- {0}, MaxSends <- MaxJobs

ResultProof == INSTANCE Channel_proofs WITH
  ch <- rch, wt <- rwt, hist <- rhist,
  Sender <- Worker, Receiver <- {Client}, Value <- Job, Capacity <- {0}, MaxSends <- MaxJobs

(***************************************************************************)
(* The ledger of jobs, of the pool's state only what decides where a job   *)
(* is: who holds which job, the job in the waiter of a collecting client,  *)
(* the jobs accepted by submit() and taken for the client, how often each  *)
(* was returned, and the next id.                                          *)
(***************************************************************************)
Places == Worker \cup {Client}

Among(j, s) == \E p \in 1..Len(s) : s[p] = j

Once(s) == \A p, k \in 1..Len(s) : s[p] = s[k] => p = k

Ledger(held, got, sent, drawn, returned, next) ==
  /\ held \in [Places -> Job \cup {Null}] /\ got \in Job \cup {Null}
  /\ sent \in Seq(Job) /\ drawn \in Seq(Job) /\ next \in Nat
  /\ returned \in [Job \cup {Null} -> Nat]
  /\ Once(sent) /\ Once(drawn)
  /\ \A j \in Job : Among(j, sent) => j < next
  /\ \A j \in Job : Among(j, sent) <=> Among(j, drawn) \/ \E x \in Places : held[x] = j
  /\ \A x, y \in Places : held[x] = held[y] /\ held[x] # Null => x = y
  /\ \A x \in Places : held[x] # Null => ~Among(held[x], drawn)
  /\ \A j \in Job : returned[j] = IF Among(j, drawn) /\ got # j THEN 1 ELSE 0
  /\ got # Null => Among(got, drawn)

\* The job a thread is responsible for: the client's, while submit() sleeps; a worker's,
\* from the waiter of its receive to the end of its send.
Holds(x) ==
  IF x = Client
  THEN IF twt[Client].op = "send" /\ ~twt[Client].done THEN twt[Client].value ELSE Null
  ELSE IF twt[x].value # Null THEN twt[x].value
  ELSE IF rwt[x].op = "send" /\ rwt[x].done THEN Null ELSE worker[x].task

Held == [x \in Places |-> Holds(x)]

JobLedger ==
  Ledger(Held, rwt[Client].value, thist.accepted, rhist.taken, rhist.returned, jobseq)

(***************************************************************************)
(* Who does what on which channel.                                         *)
(***************************************************************************)
ClientRole ==
  /\ twt[Client].op \in {"none", "send"}
  /\ twt[Client].op = "none" <=> twt[Client].value = Null
  /\ tch.closed => twt[Client].op = "none"
  /\ rwt[Client].op \in {"none", "recv"}
  /\ rwt[Client].op = "none" \/ ~rwt[Client].done => rwt[Client].value = Null
  /\ ~rch.closed

WorkerRole(w) ==
  /\ twt[w].op \in {"none", "recv"}
  /\ twt[w].op = "recv" => worker[w] = Taking
  /\ twt[w].op = "none" \/ ~twt[w].done => twt[w].value = Null
  /\ twt[w].op = "recv" /\ twt[w].done /\ twt[w].value = Null => tch.closed
  /\ rwt[w].op \in {"none", "send"}
  /\ rwt[w].op = "none" => rwt[w].value = Null
  /\ rwt[w].op = "send" => worker[w].at = "put" /\ rwt[w].value = worker[w].task

WorkerState ==
  {Off, Taking, Exited} \cup {Has(j) : j \in Job} \cup {Putting(j) : j \in Job}

PoolRoles ==
  /\ running \in BOOLEAN /\ jobseq \in 0..MaxJobs
  /\ worker \in [Worker -> WorkerState]
  /\ ClientRole
  /\ \A w \in Worker : WorkerRole(w)

PoolInv == TaskProof!Inv /\ ResultProof!Inv /\ PoolRoles /\ JobLedger

(***************************************************************************)
(* The steps of the ledger.                                                *)
(***************************************************************************)
\* A job that joins a list without it.
LEMMA AppendJob ==
  ASSUME NEW s \in Seq(Job), NEW j \in Job, Once(s), ~Among(j, s)
  PROVE  /\ Append(s, j) \in Seq(Job) /\ Once(Append(s, j))
         /\ \A k : Among(k, Append(s, j)) <=> Among(k, s) \/ k = j
<1>1. /\ Append(s, j) \in Seq(Job) /\ Len(s) \in Nat /\ Len(Append(s, j)) = Len(s) + 1
      /\ \A p \in 1..Len(s) : Append(s, j)[p] = s[p]
      /\ Append(s, j)[Len(s) + 1] = j
  OBVIOUS
<1>2. Once(Append(s, j))
  BY <1>1 DEF Once, Among
<1>3. ASSUME NEW k PROVE Among(k, Append(s, j)) <=> Among(k, s) \/ k = j
  BY <1>1 DEF Among
<1> QED BY <1>1, <1>2, <1>3

\* Null is no job.
LEMMA NullNoJob == Null \notin Job
  BY PoolAssumption DEF Job

\* submit() takes the next id, and its send is accepted for the place x.
LEMMA LedgerAccept ==
  ASSUME NEW held, NEW got, NEW sent, NEW drawn, NEW returned, NEW next, NEW x \in Places,
         Ledger(held, got, sent, drawn, returned, next), next \in Job, held[x] = Null
  PROVE  Ledger([held EXCEPT ![x] = next], got, Append(sent, next), drawn, returned, next + 1)
<1> DEFINE with == [held EXCEPT ![x] = next]
           all == Append(sent, next)
<1>1. /\ held \in [Places -> Job \cup {Null}] /\ got \in Job \cup {Null}
      /\ sent \in Seq(Job) /\ drawn \in Seq(Job) /\ next \in Nat
      /\ returned \in [Job \cup {Null} -> Nat]
      /\ Once(sent) /\ Once(drawn)
      /\ \A j \in Job : Among(j, sent) => j < next
      /\ \A j \in Job : Among(j, sent) <=> Among(j, drawn) \/ \E y \in Places : held[y] = j
      /\ \A y, z \in Places : held[y] = held[z] /\ held[y] # Null => y = z
      /\ \A y \in Places : held[y] # Null => ~Among(held[y], drawn)
      /\ \A j \in Job : returned[j] = IF Among(j, drawn) /\ got # j THEN 1 ELSE 0
      /\ got # Null => Among(got, drawn)
  BY DEF Ledger
<1>2. ~Among(next, sent)
  BY <1>1
<1>3. /\ all \in Seq(Job) /\ Once(all)
      /\ \A j : Among(j, all) <=> Among(j, sent) \/ j = next
  BY <1>1, <1>2, AppendJob
<1>4. /\ with \in [Places -> Job \cup {Null}] /\ with[x] = next
      /\ \A y \in Places : y # x => with[y] = held[y]
  BY <1>1
<1>5. ~Among(next, drawn) /\ \A y \in Places : held[y] # next
  BY <1>1, <1>2
<1> HIDE DEF with, all
<1>6. \A j \in Job : Among(j, all) => j < next + 1
  BY <1>1, <1>3 DEF Job
<1>7. \A j \in Job : Among(j, all) <=> Among(j, drawn) \/ \E y \in Places : with[y] = j
  BY <1>1, <1>3, <1>4, NullNoJob
<1>8. \A y, z \in Places : with[y] = with[z] /\ with[y] # Null => y = z
  BY <1>1, <1>4, <1>5
<1>9. \A y \in Places : with[y] # Null => ~Among(with[y], drawn)
  BY <1>1, <1>4, <1>5
<1> QED BY <1>1, <1>3, <1>4, <1>6, <1>7, <1>8, <1>9 DEF Ledger, with, all

\* A submit() that throws has used up its id.
LEMMA LedgerSkip ==
  ASSUME NEW held, NEW got, NEW sent, NEW drawn, NEW returned, NEW next,
         Ledger(held, got, sent, drawn, returned, next)
  PROVE  Ledger(held, got, sent, drawn, returned, next + 1)
<1>1. \A j \in Job : j \in Int
  BY DEF Job
<1> QED BY <1>1 DEF Ledger

\* A job passes from the waiter of x to y.
LEMMA LedgerMove ==
  ASSUME NEW held, NEW got, NEW sent, NEW drawn, NEW returned, NEW next,
         NEW x \in Places, NEW y \in Places, x # y, held[y] = Null,
         Ledger(held, got, sent, drawn, returned, next)
  PROVE  Ledger([held EXCEPT ![x] = Null, ![y] = held[x]], got, sent, drawn, returned, next)
<1> DEFINE with == [held EXCEPT ![x] = Null, ![y] = held[x]]
<1>1. /\ held \in [Places -> Job \cup {Null}]
      /\ \A j \in Job : Among(j, sent) <=> Among(j, drawn) \/ \E z \in Places : held[z] = j
      /\ \A u, z \in Places : held[u] = held[z] /\ held[u] # Null => u = z
      /\ \A z \in Places : held[z] # Null => ~Among(held[z], drawn)
  BY DEF Ledger
<1>2. /\ with \in [Places -> Job \cup {Null}] /\ with[x] = Null /\ with[y] = held[x]
      /\ \A z \in Places : z # x /\ z # y => with[z] = held[z]
  BY <1>1
<1> HIDE DEF with
<1>3. \A j \in Job : (\E z \in Places : with[z] = j) <=> \E z \in Places : held[z] = j
  BY <1>1, <1>2, NullNoJob
<1>4. \A u, z \in Places : with[u] = with[z] /\ with[u] # Null => u = z
  BY <1>1, <1>2
<1>5. \A z \in Places : with[z] # Null => ~Among(with[z], drawn)
  BY <1>1, <1>2
<1>6. \A j \in Job : Among(j, sent) <=> Among(j, drawn) \/ \E z \in Places : with[z] = j
  BY <1>1, <1>3
<1> QED BY <1>2, <1>4, <1>5, <1>6 DEF Ledger, with

\* The job of x is taken for the client, who has it in its waiter.
LEMMA LedgerHandOver ==
  ASSUME NEW held, NEW got, NEW sent, NEW drawn, NEW returned, NEW next,
         NEW x \in Places, held[x] # Null, got = Null,
         Ledger(held, got, sent, drawn, returned, next)
  PROVE  Ledger([held EXCEPT ![x] = Null], held[x], sent, Append(drawn, held[x]),
                returned, next)
<1> DEFINE with == [held EXCEPT ![x] = Null]
           all == Append(drawn, held[x])
<1>1. /\ held \in [Places -> Job \cup {Null}]
      /\ sent \in Seq(Job) /\ drawn \in Seq(Job) /\ next \in Nat
      /\ returned \in [Job \cup {Null} -> Nat]
      /\ Once(sent) /\ Once(drawn)
      /\ \A j \in Job : Among(j, sent) => j < next
      /\ \A j \in Job : Among(j, sent) <=> Among(j, drawn) \/ \E y \in Places : held[y] = j
      /\ \A y, z \in Places : held[y] = held[z] /\ held[y] # Null => y = z
      /\ \A y \in Places : held[y] # Null => ~Among(held[y], drawn)
      /\ \A j \in Job : returned[j] = IF Among(j, drawn) /\ got # j THEN 1 ELSE 0
  BY DEF Ledger
<1>2. held[x] \in Job /\ ~Among(held[x], drawn)
  BY <1>1
<1>3. /\ all \in Seq(Job) /\ Once(all)
      /\ \A j : Among(j, all) <=> Among(j, drawn) \/ j = held[x]
  BY <1>1, <1>2, AppendJob
<1>4. /\ with \in [Places -> Job \cup {Null}] /\ with[x] = Null
      /\ \A y \in Places : y # x => with[y] = held[y]
  BY <1>1
<1> HIDE DEF with, all
<1>5. \A j \in Job : Among(j, sent) <=> Among(j, all) \/ \E y \in Places : with[y] = j
  BY <1>1, <1>2, <1>3, <1>4, NullNoJob
<1>6. \A y, z \in Places : with[y] = with[z] /\ with[y] # Null => y = z
  BY <1>1, <1>4
<1>7. \A y \in Places : with[y] # Null => ~Among(with[y], all)
  BY <1>1, <1>2, <1>3, <1>4
<1>8. \A j \in Job : returned[j] = IF Among(j, all) /\ held[x] # j THEN 1 ELSE 0
  BY <1>1, <1>2, <1>3, NullNoJob
<1>9. held[x] \in Job \cup {Null} /\ Among(held[x], all)
  BY <1>2, <1>3
<1> QED BY <1>1, <1>3, <1>4, <1>5, <1>6, <1>7, <1>8, <1>9 DEF Ledger, with, all

\* The call that collects a job returns with it.
LEMMA LedgerReturn ==
  ASSUME NEW held, NEW got, NEW sent, NEW drawn, NEW returned, NEW next, got # Null,
         Ledger(held, got, sent, drawn, returned, next)
  PROVE  Ledger(held, Null, sent, drawn, [returned EXCEPT ![got] = @ + 1], next)
<1> DEFINE more == [returned EXCEPT ![got] = @ + 1]
<1>1. /\ returned \in [Job \cup {Null} -> Nat] /\ got \in Job /\ Among(got, drawn)
      /\ \A j \in Job : returned[j] = IF Among(j, drawn) /\ got # j THEN 1 ELSE 0
  BY DEF Ledger
<1>2. /\ more \in [Job \cup {Null} -> Nat] /\ more[got] = returned[got] + 1
      /\ \A j \in Job : j # got => more[j] = returned[j]
  BY <1>1
<1> HIDE DEF more
<1>3. \A j \in Job : more[j] = IF Among(j, drawn) /\ Null # j THEN 1 ELSE 0
  BY <1>1, <1>2, NullNoJob
<1> QED BY <1>2, <1>3 DEF Ledger, more

\* A receiver that does not sleep takes a queued result at once.
LEMMA LedgerDeliver ==
  ASSUME NEW held, NEW got, NEW sent, NEW drawn, NEW returned, NEW next,
         NEW x \in Places, held[x] # Null, got = Null,
         Ledger(held, got, sent, drawn, returned, next)
  PROVE  Ledger([held EXCEPT ![x] = Null], Null, sent, Append(drawn, held[x]),
                [returned EXCEPT ![held[x]] = @ + 1], next)
  BY LedgerHandOver, LedgerReturn

(***************************************************************************)
(* The two channels.                                                       *)
(***************************************************************************)
\* A rendezvous channel of the pool, in the terms the proof needs.
Shape(c, w, h) ==
  /\ c \in [cap : {0}, buf : [0..(0 - 1) -> Job \cup {Null}], head : Int, tail : Int, len : Int,
            closed : BOOLEAN, sendq : Seq(Places), recvq : Seq(Places)]
  /\ c.len = 0
  /\ w \in [Places -> [op : {"none", "send", "recv"}, value : Job \cup {Null}, done : BOOLEAN]]
  /\ h \in [accepted : Seq(Job \cup {Null}), taken : Seq(Job \cup {Null}),
            returned : [Job \cup {Null} -> Nat]]
  /\ c.sendq # <<>> => Head(c.sendq) \in Places /\ w[Head(c.sendq)].op = "send"
                       /\ ~w[Head(c.sendq)].done
  /\ c.recvq # <<>> => Head(c.recvq) \in Places /\ w[Head(c.recvq)].op = "recv"
                       /\ ~w[Head(c.recvq)].done
  /\ c.recvq # <<>> => ~c.closed /\ c.sendq = <<>>
  /\ \A t \in Places : w[t].op = "send" /\ ~w[t].done => c.sendq # <<>>

\* The assumptions of Channel hold of both channels.
LEMMA PoolChannels ==
  /\ {0} \subseteq Nat /\ MaxJobs \in Nat /\ Null \notin Job
  /\ TaskProof!IsFiniteSet({Client}) /\ TaskProof!IsFiniteSet(Worker)
  /\ ResultProof!IsFiniteSet({Client}) /\ ResultProof!IsFiniteSet(Worker)
<1>1. IsFiniteSet({Client}) /\ IsFiniteSet(Worker)
  BY FS_Singleton, PoolAssumption
<1>2. TaskProof!IsFiniteSet({Client}) /\ TaskProof!IsFiniteSet(Worker)
  BY <1>1 DEF IsFiniteSet, TaskProof!IsFiniteSet
<1>3. ResultProof!IsFiniteSet({Client}) /\ ResultProof!IsFiniteSet(Worker)
  BY <1>1 DEF IsFiniteSet, ResultProof!IsFiniteSet
<1> QED BY <1>2, <1>3, PoolAssumption, NullNoJob

\* What the invariant of Channel says of the task channel.
LEMMA TaskShape == TaskProof!Inv => Shape(tch, twt, thist)
<1> SUFFICES ASSUME TaskProof!Inv PROVE Shape(tch, twt, thist)
  OBVIOUS
<1>1. TaskProof!Facts
  BY TaskProof!InvFacts, PoolChannels
<1>2. TaskProof!Thread = Places /\ TaskProof!Payload = Job \cup {Null}
  BY DEF TaskProof!Thread, TaskProof!Payload, Places
<1>3. tch.cap = 0 /\ TaskProof!Record /\ TaskProof!RingOK
  BY <1>1 DEF TaskProof!Facts, TaskProof!Record
<1>4. tch \in [cap : {0}, buf : [0..(0 - 1) -> Job \cup {Null}], head : Int, tail : Int, len : Int,
            closed : BOOLEAN, sendq : Seq(Places), recvq : Seq(Places)]
  BY <1>2, <1>3 DEF TaskProof!Record, TaskProof!ChanRec
<1>5. tch.len = 0
  BY <1>3, <1>4 DEF TaskProof!RingOK
<1>6. /\ twt \in [Places -> [op : {"none", "send", "recv"}, value : Job \cup {Null},
                         done : BOOLEAN]]
      /\ thist \in [accepted : Seq(Job \cup {Null}), taken : Seq(Job \cup {Null}),
                    returned : [Job \cup {Null} -> Nat]]
  BY <1>1, <1>2 DEF TaskProof!Facts, TaskProof!ChanWaiter, TaskProof!History
<1>7. TaskProof!Queues /\ TaskProof!NoIdleWaiter
  BY <1>1 DEF TaskProof!Facts
<1>8. \A q \in Seq(Places) : q # <<>> => Head(q) \in Places /\ TaskProof!In(q, Head(q))
  BY DEF TaskProof!In
<1>9. \A t \in Places : ~TaskProof!In(<<>>, t)
  BY DEF TaskProof!In
<1>10. /\ tch.sendq # <<>> => Head(tch.sendq) \in Places /\ twt[Head(tch.sendq)].op = "send"
                       /\ ~twt[Head(tch.sendq)].done
       /\ tch.recvq # <<>> => Head(tch.recvq) \in Places /\ twt[Head(tch.recvq)].op = "recv"
                       /\ ~twt[Head(tch.recvq)].done
       /\ \A t \in Places : twt[t].op = "send" /\ ~twt[t].done => tch.sendq # <<>>
  BY <1>2, <1>4, <1>7, <1>8, <1>9 DEF TaskProof!Queues
<1>11. tch.recvq # <<>> => ~tch.closed /\ tch.sendq = <<>>
  BY <1>7 DEF TaskProof!NoIdleWaiter
<1> QED BY <1>4, <1>5, <1>6, <1>10, <1>11 DEF Shape

\* What the invariant of Channel says of the result channel.
LEMMA ResultShape == ResultProof!Inv => Shape(rch, rwt, rhist)
<1> SUFFICES ASSUME ResultProof!Inv PROVE Shape(rch, rwt, rhist)
  OBVIOUS
<1>1. ResultProof!Facts
  BY ResultProof!InvFacts, PoolChannels
<1>2. ResultProof!Thread = Places /\ ResultProof!Payload = Job \cup {Null}
  BY DEF ResultProof!Thread, ResultProof!Payload, Places
<1>3. rch.cap = 0 /\ ResultProof!Record /\ ResultProof!RingOK
  BY <1>1 DEF ResultProof!Facts, ResultProof!Record
<1>4. rch \in [cap : {0}, buf : [0..(0 - 1) -> Job \cup {Null}], head : Int, tail : Int, len : Int,
            closed : BOOLEAN, sendq : Seq(Places), recvq : Seq(Places)]
  BY <1>2, <1>3 DEF ResultProof!Record, ResultProof!ChanRec
<1>5. rch.len = 0
  BY <1>3, <1>4 DEF ResultProof!RingOK
<1>6. /\ rwt \in [Places -> [op : {"none", "send", "recv"}, value : Job \cup {Null},
                         done : BOOLEAN]]
      /\ rhist \in [accepted : Seq(Job \cup {Null}), taken : Seq(Job \cup {Null}),
                    returned : [Job \cup {Null} -> Nat]]
  BY <1>1, <1>2 DEF ResultProof!Facts, ResultProof!ChanWaiter, ResultProof!History
<1>7. ResultProof!Queues /\ ResultProof!NoIdleWaiter
  BY <1>1 DEF ResultProof!Facts
<1>8. \A q \in Seq(Places) : q # <<>> => Head(q) \in Places /\ ResultProof!In(q, Head(q))
  BY DEF ResultProof!In
<1>9. \A t \in Places : ~ResultProof!In(<<>>, t)
  BY DEF ResultProof!In
<1>10. /\ rch.sendq # <<>> => Head(rch.sendq) \in Places /\ rwt[Head(rch.sendq)].op = "send"
                       /\ ~rwt[Head(rch.sendq)].done
       /\ rch.recvq # <<>> => Head(rch.recvq) \in Places /\ rwt[Head(rch.recvq)].op = "recv"
                       /\ ~rwt[Head(rch.recvq)].done
       /\ \A t \in Places : rwt[t].op = "send" /\ ~rwt[t].done => rch.sendq # <<>>
  BY <1>2, <1>4, <1>7, <1>8, <1>9 DEF ResultProof!Queues
<1>11. rch.recvq # <<>> => ~rch.closed /\ rch.sendq = <<>>
  BY <1>7 DEF ResultProof!NoIdleWaiter
<1> QED BY <1>4, <1>5, <1>6, <1>10, <1>11 DEF Shape

\* The actions a pool makes on its task channel are those the theorems are about.
LEMMA TaskActions ==
  ASSUME NEW t, NEW v
  PROVE  /\ Task!Send(t, v) => TaskProof!Send(t, v)
         /\ Task!SendRefused(t) => TaskProof!SendRefused(t)
         /\ Task!Recv(t) => TaskProof!Recv(t)
         /\ Task!TryRecv(t) => TaskProof!TryRecv(t)
         /\ Task!Wake(t) => TaskProof!Wake(t)
         /\ Task!Close(t) => TaskProof!Close(t)
<1> USE DEF Task!Idle, TaskProof!Idle, Task!Woken, TaskProof!Woken, Task!Thread, TaskProof!Thread,
            Task!vars, TaskProof!vars, Task!NoWaiter, TaskProof!NoWaiter,
            Task!HasRoom, TaskProof!HasRoom
<1>1. Task!SendRefused(t) => TaskProof!SendRefused(t)
  BY DEF Task!SendRefused, TaskProof!SendRefused
<1>2. Task!Sendable(t) => TaskProof!Sendable(t)
  BY DEF Task!Sendable, TaskProof!Sendable
<1>3. Task!SendHandoff(t, v) => TaskProof!SendHandoff(t, v)
  BY <1>2 DEF Task!SendHandoff, TaskProof!SendHandoff
<1>4. Task!SendBuffer(t, v) => TaskProof!SendBuffer(t, v)
  BY <1>2 DEF Task!SendBuffer, TaskProof!SendBuffer, Task!PutInBuffer, TaskProof!PutInBuffer
<1>5. Task!SendQueue(t, v) => TaskProof!SendQueue(t, v)
  BY <1>2 DEF Task!SendQueue, TaskProof!SendQueue, Task!PutInQueue, TaskProof!PutInQueue
<1>6. Task!RecvBuffer(t) => TaskProof!RecvBuffer(t)
  BY DEF Task!RecvBuffer, TaskProof!RecvBuffer, Task!Returns, TaskProof!Returns
<1>7. Task!RecvSender(t) => TaskProof!RecvSender(t)
  BY DEF Task!RecvSender, TaskProof!RecvSender, Task!Returns, TaskProof!Returns
<1>8. Task!Empty <=> TaskProof!Empty
  BY DEF Task!Empty, TaskProof!Empty
<1>9. Task!RecvClosed(t) => TaskProof!RecvClosed(t)
  BY <1>8 DEF Task!RecvClosed, TaskProof!RecvClosed
<1>10. Task!RecvQueue(t) => TaskProof!RecvQueue(t)
  BY <1>8 DEF Task!RecvQueue, TaskProof!RecvQueue
<1>11. Task!RecvLoop(t) => TaskProof!RecvLoop(t)
  BY <1>6, <1>7, <1>9, <1>10 DEF Task!RecvLoop, TaskProof!RecvLoop
<1>12. Task!TryRecv(t) => TaskProof!TryRecv(t)
  BY <1>6, <1>7, <1>8 DEF Task!TryRecv, TaskProof!TryRecv
<1>13. Task!SendWake(t) => TaskProof!SendWake(t)
  BY DEF Task!SendWake, TaskProof!SendWake
<1>14. Task!RecvWake(t) => TaskProof!RecvWake(t)
  BY DEF Task!RecvWake, TaskProof!RecvWake, Task!Returns, TaskProof!Returns
<1>15. Task!RecvWakeNull(t) => TaskProof!RecvWakeNull(t)
  BY <1>11 DEF Task!RecvWakeNull, TaskProof!RecvWakeNull
<1>16. Task!Close(t) => TaskProof!Close(t)
  BY DEF Task!Close, TaskProof!Close
<1> QED BY <1>1, <1>3, <1>4, <1>5, <1>11, <1>12, <1>13, <1>14, <1>15, <1>16
        DEF Task!Send, TaskProof!Send, Task!Recv, TaskProof!Recv, Task!Wake, TaskProof!Wake

\* So they keep the invariant of Channel.
LEMMA TaskKept ==
  ASSUME TaskProof!Inv,
         \/ UNCHANGED tvars
         \/ \E v \in Job : Task!Send(Client, v)
         \/ Task!SendRefused(Client)
         \/ \E w \in Worker : Task!Recv(w)
         \/ \E t \in Places : Task!Wake(t)
         \/ Task!Close(Client)
  PROVE  TaskProof!Inv'
<1>1. [TaskProof!Next]_(TaskProof!vars)
  <2>1. CASE UNCHANGED tvars
    BY <2>1 DEF tvars, TaskProof!vars
  <2>2. CASE \E v \in Job : Task!Send(Client, v)
    BY <2>2, TaskActions DEF TaskProof!Next, TaskProof!Payload
  <2>3. CASE Task!SendRefused(Client)
    BY <2>3, TaskActions DEF TaskProof!Next
  <2>4. CASE \E w \in Worker : Task!Recv(w)
    BY <2>4, TaskActions DEF TaskProof!Next
  <2>5. CASE \E t \in Places : Task!Wake(t)
    BY <2>5, TaskActions DEF TaskProof!Next, TaskProof!Thread, Places
  <2>6. CASE Task!Close(Client)
    BY <2>6, TaskActions DEF TaskProof!Next, TaskProof!Thread
  <2> QED BY <2>1, <2>2, <2>3, <2>4, <2>5, <2>6
<1> QED BY <1>1, TaskProof!InvNext, PoolChannels

\* The actions a pool makes on its result channel are those the theorems are about.
LEMMA ResultActions ==
  ASSUME NEW t, NEW v
  PROVE  /\ Result!Send(t, v) => ResultProof!Send(t, v)
         /\ Result!SendRefused(t) => ResultProof!SendRefused(t)
         /\ Result!Recv(t) => ResultProof!Recv(t)
         /\ Result!TryRecv(t) => ResultProof!TryRecv(t)
         /\ Result!Wake(t) => ResultProof!Wake(t)
<1> USE DEF Result!Idle, ResultProof!Idle, Result!Woken, ResultProof!Woken,
            Result!Thread, ResultProof!Thread,
            Result!vars, ResultProof!vars, Result!NoWaiter, ResultProof!NoWaiter,
            Result!HasRoom, ResultProof!HasRoom
<1>1. Result!SendRefused(t) => ResultProof!SendRefused(t)
  BY DEF Result!SendRefused, ResultProof!SendRefused
<1>2. Result!Sendable(t) => ResultProof!Sendable(t)
  BY DEF Result!Sendable, ResultProof!Sendable
<1>3. Result!SendHandoff(t, v) => ResultProof!SendHandoff(t, v)
  BY <1>2 DEF Result!SendHandoff, ResultProof!SendHandoff
<1>4. Result!SendBuffer(t, v) => ResultProof!SendBuffer(t, v)
  BY <1>2 DEF Result!SendBuffer, ResultProof!SendBuffer, Result!PutInBuffer, ResultProof!PutInBuffer
<1>5. Result!SendQueue(t, v) => ResultProof!SendQueue(t, v)
  BY <1>2 DEF Result!SendQueue, ResultProof!SendQueue, Result!PutInQueue, ResultProof!PutInQueue
<1>6. Result!RecvBuffer(t) => ResultProof!RecvBuffer(t)
  BY DEF Result!RecvBuffer, ResultProof!RecvBuffer, Result!Returns, ResultProof!Returns
<1>7. Result!RecvSender(t) => ResultProof!RecvSender(t)
  BY DEF Result!RecvSender, ResultProof!RecvSender, Result!Returns, ResultProof!Returns
<1>8. Result!Empty <=> ResultProof!Empty
  BY DEF Result!Empty, ResultProof!Empty
<1>9. Result!RecvClosed(t) => ResultProof!RecvClosed(t)
  BY <1>8 DEF Result!RecvClosed, ResultProof!RecvClosed
<1>10. Result!RecvQueue(t) => ResultProof!RecvQueue(t)
  BY <1>8 DEF Result!RecvQueue, ResultProof!RecvQueue
<1>11. Result!RecvLoop(t) => ResultProof!RecvLoop(t)
  BY <1>6, <1>7, <1>9, <1>10 DEF Result!RecvLoop, ResultProof!RecvLoop
<1>12. Result!TryRecv(t) => ResultProof!TryRecv(t)
  BY <1>6, <1>7, <1>8 DEF Result!TryRecv, ResultProof!TryRecv
<1>13. Result!SendWake(t) => ResultProof!SendWake(t)
  BY DEF Result!SendWake, ResultProof!SendWake
<1>14. Result!RecvWake(t) => ResultProof!RecvWake(t)
  BY DEF Result!RecvWake, ResultProof!RecvWake, Result!Returns, ResultProof!Returns
<1>15. Result!RecvWakeNull(t) => ResultProof!RecvWakeNull(t)
  BY <1>11 DEF Result!RecvWakeNull, ResultProof!RecvWakeNull
<1> QED BY <1>1, <1>3, <1>4, <1>5, <1>11, <1>12, <1>13, <1>14, <1>15
        DEF Result!Send, ResultProof!Send, Result!Recv, ResultProof!Recv,
            Result!Wake, ResultProof!Wake

\* So they keep the invariant of Channel.
LEMMA ResultKept ==
  ASSUME ResultProof!Inv,
         \/ UNCHANGED rvars
         \/ \E w \in Worker, v \in Job : Result!Send(w, v)
         \/ Result!Recv(Client) \/ Result!TryRecv(Client)
         \/ \E t \in Places : Result!Wake(t)
  PROVE  ResultProof!Inv'
<1>1. [ResultProof!Next]_(ResultProof!vars)
  <2>1. CASE UNCHANGED rvars
    BY <2>1 DEF rvars, ResultProof!vars
  <2>2. CASE \E w \in Worker, v \in Job : Result!Send(w, v)
    BY <2>2, ResultActions DEF ResultProof!Next, ResultProof!Payload
  <2>3. CASE Result!Recv(Client) \/ Result!TryRecv(Client)
    BY <2>3, ResultActions DEF ResultProof!Next
  <2>4. CASE \E t \in Places : Result!Wake(t)
    BY <2>4, ResultActions DEF ResultProof!Next, ResultProof!Thread, Places
  <2> QED BY <2>1, <2>2, <2>3, <2>4
<1> QED BY <1>1, ResultProof!InvNext, PoolChannels

(***************************************************************************)
(* Every step of the pool keeps its invariant.                             *)
(***************************************************************************)
\* Both channels have their shape, before and after, and nobody is in two places.
LEMMA PoolShapes ==
  ASSUME PoolInv
  PROVE  /\ Shape(tch, twt, thist) /\ Shape(rch, rwt, rhist)
         /\ Client \in Places /\ \A w \in Worker : w \in Places /\ w # Client
         /\ \A x \in Places : x = Client \/ x \in Worker
         /\ \A x \in Places : Held[x] = Holds(x)
         /\ Held \in [Places -> Job \cup {Null}]
<1>1. Shape(tch, twt, thist) /\ Shape(rch, rwt, rhist)
  BY TaskShape, ResultShape DEF PoolInv
<1>2. Client \in Places /\ \A w \in Worker : w \in Places /\ w # Client
  BY PoolAssumption DEF Places
<1>3. Held \in [Places -> Job \cup {Null}]
  BY DEF PoolInv, JobLedger, Ledger
<1> QED BY <1>1, <1>2, <1>3 DEF Held, Places

\* Who holds a job changes at x only.
LEMMA HeldAt ==
  ASSUME NEW x, NEW j, Held \in [Places -> Job \cup {Null}],
         \A y \in Places : Holds(y)' = IF y = x THEN j ELSE Holds(y)
  PROVE  Held' = [Held EXCEPT ![x] = j]
  BY DEF Held

\* Who holds a job does not change.
LEMMA HeldSame ==
  ASSUME \A y \in Places : Holds(y)' = Holds(y)
  PROVE  Held' = Held
  BY DEF Held

\* submit() (a send of the client).
LEMMA SubmitKeeps ==
  ASSUME PoolInv, Submit
  PROVE  PoolInv'
<1>1. /\ jobseq \in Job /\ jobseq # Null /\ jobseq + 1 \in 0..MaxJobs
  BY PoolAssumption, NullNoJob DEF PoolInv, PoolRoles, Submit, MaySubmit, Job
<1>2. rch' = rch /\ rwt' = rwt /\ rhist' = rhist /\ running' = running /\ worker' = worker
      /\ jobseq' = jobseq + 1 /\ twt[Client].op = "none"
  BY DEF Submit, rvars, MaySubmit, ClientReady, Task!Idle
<1>3. TaskProof!Inv'
  BY <1>1, TaskKept DEF PoolInv, Submit
<1>4. ResultProof!Inv'
  BY <1>2, ResultKept DEF PoolInv, rvars
<1>5. Shape(tch, twt, thist)
  BY PoolShapes
<1>6. CASE Task!SendHandoff(Client, jobseq)
  <2> DEFINE x == Head(tch.recvq)
  <2>1. /\ x \in Places /\ twt[x].op = "recv" /\ ~twt[x].done
        /\ tch'.closed = tch.closed /\ ~tch.closed
        /\ twt' = [twt EXCEPT ![x] = [op |-> "recv", value |-> jobseq, done |-> TRUE]]
        /\ thist'.accepted = Append(thist.accepted, jobseq)
    BY <1>5, <1>6 DEF Shape, Task!SendHandoff, Task!Sendable
  <2> HIDE DEF x
  <2>2. x \in Worker /\ x # Client
    BY <2>1, PoolShapes DEF PoolInv, PoolRoles, ClientRole
  <2>3. WorkerRole(x)
    BY <2>2 DEF PoolInv, PoolRoles
  <2>4. twt[x].value = Null /\ worker[x] = Taking /\ rwt[x].op = "none"
    BY <2>1, <2>3 DEF WorkerRole, Taking
  <2>5. /\ twt'[x] = [op |-> "recv", value |-> jobseq, done |-> TRUE]
        /\ \A y \in Places : y # x => twt'[y] = twt[y]
    BY <1>5, <2>1 DEF Shape
  <2>6. PoolRoles'
    <3>1. ClientRole'
      BY <1>2, <2>1, <2>2, <2>5, PoolShapes DEF PoolInv, PoolRoles, ClientRole
    <3>2. ASSUME NEW w \in Worker PROVE WorkerRole(w)'
      <4>1. CASE w = x
        BY <1>1, <1>2, <2>3, <2>4, <2>5, <4>1 DEF WorkerRole
      <4>2. CASE w # x
        BY <1>2, <2>1, <2>5, <4>2, PoolShapes DEF PoolInv, PoolRoles, WorkerRole
      <4> QED BY <4>1, <4>2
    <3> QED BY <1>1, <1>2, <3>1, <3>2 DEF PoolInv, PoolRoles
  <2>7. Held' = [Held EXCEPT ![x] = jobseq] /\ Held[x] = Null
    <3>1. \A y \in Places : Holds(y)' = IF y = x THEN jobseq ELSE Holds(y)
      BY <1>1, <1>2, <2>2, <2>5, PoolShapes DEF Holds
    <3>2. Holds(x) = Null
      BY <2>2, <2>4 DEF Holds, Taking
    <3> QED BY <2>1, <3>1, <3>2, HeldAt, PoolShapes
  <2>8. JobLedger'
    <3>1. Ledger(Held, rwt[Client].value, thist.accepted, rhist.taken, rhist.returned, jobseq)
      BY DEF PoolInv, JobLedger
    <3>2. Ledger([Held EXCEPT ![x] = jobseq], rwt[Client].value, Append(thist.accepted, jobseq),
                 rhist.taken, rhist.returned, jobseq + 1)
      BY <1>1, <2>1, <2>7, <3>1, LedgerAccept
    <3> QED BY <1>2, <2>1, <2>7, <3>2 DEF JobLedger
  <2> QED BY <1>3, <1>4, <2>6, <2>8 DEF PoolInv
<1>7. CASE Task!SendQueue(Client, jobseq)
  <2>1. /\ tch'.closed = tch.closed /\ ~tch.closed
        /\ twt' = [twt EXCEPT ![Client] = [op |-> "send", value |-> jobseq, done |-> FALSE]]
        /\ thist'.accepted = Append(thist.accepted, jobseq)
    BY <1>5, <1>7 DEF Shape, Task!SendQueue, Task!PutInQueue, Task!Sendable
  <2>2. /\ twt'[Client] = [op |-> "send", value |-> jobseq, done |-> FALSE]
        /\ \A y \in Places : y # Client => twt'[y] = twt[y]
    BY <1>5, <2>1, PoolShapes DEF Shape
  <2>3. PoolRoles'
    <3>1. ClientRole'
      BY <1>1, <1>2, <2>1, <2>2 DEF PoolInv, PoolRoles, ClientRole
    <3>2. ASSUME NEW w \in Worker PROVE WorkerRole(w)'
      BY <1>2, <2>1, <2>2, PoolShapes DEF PoolInv, PoolRoles, WorkerRole
    <3> QED BY <1>1, <1>2, <3>1, <3>2 DEF PoolInv, PoolRoles
  <2>4. Held' = [Held EXCEPT ![Client] = jobseq] /\ Held[Client] = Null
    <3>1. \A y \in Places : Holds(y)' = IF y = Client THEN jobseq ELSE Holds(y)
      BY <1>1, <1>2, <2>2, PoolShapes DEF Holds
    <3>2. Holds(Client) = Null
      BY <1>2 DEF Holds
    <3> QED BY <3>1, <3>2, HeldAt, PoolShapes
  <2>5. JobLedger'
    <3>1. Ledger(Held, rwt[Client].value, thist.accepted, rhist.taken, rhist.returned, jobseq)
      BY DEF PoolInv, JobLedger
    <3>2. Ledger([Held EXCEPT ![Client] = jobseq], rwt[Client].value,
                 Append(thist.accepted, jobseq), rhist.taken, rhist.returned, jobseq + 1)
      BY <1>1, <2>4, <3>1, PoolShapes, LedgerAccept
    <3> QED BY <1>2, <2>1, <2>4, <3>2 DEF JobLedger
  <2> QED BY <1>3, <1>4, <2>3, <2>5 DEF PoolInv
<1>8. CASE Task!SendRefused(Client)
  <2>1. tch' = tch /\ twt' = twt /\ thist' = thist
    BY <1>8 DEF Task!SendRefused, Task!vars
  <2>2. PoolRoles'
    BY <1>1, <1>2, <2>1 DEF PoolInv, PoolRoles, ClientRole, WorkerRole
  <2>3. Held' = Held
    BY <1>2, <2>1 DEF Held, Holds
  <2>4. JobLedger'
    BY <1>2, <2>1, <2>3, LedgerSkip DEF PoolInv, JobLedger
  <2> QED BY <1>3, <1>4, <2>2, <2>4 DEF PoolInv
<1>9. ~Task!SendBuffer(Client, jobseq)
  BY <1>5 DEF Shape, Task!SendBuffer, Task!HasRoom
<1> QED BY <1>6, <1>7, <1>8, <1>9 DEF Submit, Task!Send

\* submit() comes back.
LEMMA SubmitReturnsKeeps ==
  ASSUME PoolInv, SubmitReturns
  PROVE  PoolInv'
<1>1. /\ rch' = rch /\ rwt' = rwt /\ rhist' = rhist /\ running' = running /\ worker' = worker
      /\ jobseq' = jobseq /\ tch' = tch /\ thist' = thist
      /\ twt' = [twt EXCEPT ![Client] = [op |-> "none", value |-> Null, done |-> FALSE]]
      /\ twt[Client].op = "send" /\ twt[Client].done
  BY DEF SubmitReturns, rvars, Task!SendWake, Task!NoWaiter, Task!Woken
<1>2. TaskProof!Inv' /\ ResultProof!Inv'
  BY <1>1, TaskKept, ResultKept, PoolShapes DEF PoolInv, SubmitReturns, Task!Wake, rvars
<1>3. /\ twt'[Client] = [op |-> "none", value |-> Null, done |-> FALSE]
      /\ \A y \in Places : y # Client => twt'[y] = twt[y]
  BY <1>1, PoolShapes DEF Shape
<1>4. PoolRoles'
  <2>1. ClientRole'
    BY <1>1, <1>3 DEF PoolInv, PoolRoles, ClientRole
  <2>2. ASSUME NEW w \in Worker PROVE WorkerRole(w)'
    BY <1>1, <1>3, PoolShapes DEF PoolInv, PoolRoles, WorkerRole
  <2> QED BY <1>1, <2>1, <2>2 DEF PoolInv, PoolRoles
<1>5. Held' = Held
  <2>1. \A y \in Places : Holds(y)' = Holds(y)
    BY <1>1, <1>3 DEF Holds
  <2> QED BY <2>1, HeldSame
<1> QED BY <1>1, <1>2, <1>4, <1>5 DEF PoolInv, JobLedger

\* start() (fresh workers).
LEMMA StartKeeps ==
  ASSUME PoolInv, Start
  PROVE  PoolInv'
<1>1. /\ rch' = rch /\ rwt' = rwt /\ rhist' = rhist /\ running' = TRUE /\ jobseq' = jobseq
      /\ tch' = tch /\ twt' = twt /\ thist' = thist /\ worker' = [w \in Worker |-> Taking]
  BY DEF Start, tvars, rvars
<1>2. TaskProof!Inv' /\ ResultProof!Inv'
  BY <1>1, TaskKept, ResultKept DEF PoolInv, tvars, rvars
<1>3. \A w \in Worker : /\ worker[w].task = Null /\ worker[w] # Taking /\ worker[w].at # "put"
                        /\ worker'[w] = Taking /\ Taking.task = Null
  BY <1>1 DEF Start, Off, Exited, Taking
<1>4. \A w \in Worker : twt[w].op = "none" /\ rwt[w].op = "none"
  BY <1>3 DEF PoolInv, PoolRoles, WorkerRole
<1>5. PoolRoles'
  <2>1. ClientRole'
    BY <1>1 DEF PoolInv, PoolRoles, ClientRole
  <2>2. ASSUME NEW w \in Worker PROVE WorkerRole(w)'
    BY <1>1, <1>4 DEF PoolInv, PoolRoles, WorkerRole
  <2>3. worker' \in [Worker -> WorkerState]
    BY <1>1 DEF WorkerState
  <2> QED BY <1>1, <2>1, <2>2, <2>3 DEF PoolInv, PoolRoles
<1>6. Held' = Held
  <2>1. \A y \in Places : Holds(y)' = Holds(y)
    BY <1>1, <1>3, PoolShapes DEF Holds
  <2> QED BY <2>1, HeldSame
<1> QED BY <1>1, <1>2, <1>5, <1>6 DEF PoolInv, JobLedger

\* shutdown() (chan_close of the task channel).
LEMMA ShutdownKeeps ==
  ASSUME PoolInv, Shutdown
  PROVE  PoolInv'
<1>1. /\ rch' = rch /\ rwt' = rwt /\ rhist' = rhist /\ jobseq' = jobseq /\ running' = FALSE
      /\ thist' = thist /\ worker' = worker /\ twt[Client].op = "none"
  BY DEF Shutdown, rvars, Task!Close, Task!Idle
<1>2. TaskProof!Inv' /\ ResultProof!Inv'
  BY <1>1, TaskKept, ResultKept DEF PoolInv, Shutdown, rvars
<1>3. tch'.closed
  BY PoolShapes DEF Shape, Shutdown, Task!Close
<1>4. \A y \in Places : /\ twt'[y].op = twt[y].op /\ twt'[y].value = twt[y].value
                        /\ twt[y].done => twt'[y].done
  <2>1. Task!Thread = Places
    BY DEF Task!Thread, Places
  <2>2. \A y \in Places : twt'[y] \in {twt[y], [twt[y] EXCEPT !.done = TRUE]}
    BY <2>1 DEF Shutdown, Task!Close
  <2> QED BY <2>2, PoolShapes DEF Shape
<1>5. PoolRoles'
  <2>1. ClientRole'
    BY <1>1, <1>4, PoolShapes DEF PoolInv, PoolRoles, ClientRole
  <2>2. ASSUME NEW w \in Worker PROVE WorkerRole(w)'
    <3>1. w \in Places
      BY PoolShapes
    <3> QED BY <1>1, <1>3, <1>4, <3>1 DEF PoolInv, PoolRoles, WorkerRole
  <2> QED BY <1>1, <2>1, <2>2 DEF PoolInv, PoolRoles
<1>6. Held' = Held
  <2>1. \A y \in Places : Holds(y)' = Holds(y)
    BY <1>1, <1>4, PoolShapes DEF Holds
  <2> QED BY <2>1, HeldSame
<1> QED BY <1>1, <1>2, <1>5, <1>6 DEF PoolInv, JobLedger

\* collect() or waitOne() take the value of a worker that sleeps in its send.
LEMMA CollectsFromWorker ==
  ASSUME PoolInv, ResultProof!Inv', rwt[Client].op = "none", Result!RecvSender(Client),
         UNCHANGED <<tvars, running, jobseq, worker>>
  PROVE  PoolInv'
<1> DEFINE x == Head(rch.sendq)
<1>1. /\ tch' = tch /\ twt' = twt /\ thist' = thist /\ running' = running /\ jobseq' = jobseq
      /\ worker' = worker
  BY DEF tvars
<1>2. TaskProof!Inv'
  BY <1>1, TaskKept DEF PoolInv, tvars
<1>3. /\ x \in Places /\ rwt[x].op = "send" /\ ~rwt[x].done /\ rch'.closed = rch.closed
      /\ rhist'.taken = Append(rhist.taken, rwt[x].value)
      /\ rhist'.returned = [rhist.returned EXCEPT ![rwt[x].value] = @ + 1]
  BY PoolShapes DEF Shape, Result!RecvSender, Result!Returns
<1>3a. rwt' = [rwt EXCEPT ![x].done = TRUE,
                         ![Client] = [op |-> "none", value |-> Null, done |-> FALSE]]
  BY DEF Result!RecvSender, Result!NoWaiter
<1> HIDE DEF x
<1>4. x \in Worker /\ x # Client
  BY <1>3, PoolShapes DEF PoolInv, PoolRoles, ClientRole
<1>5. /\ rwt'[x].op = "send" /\ rwt'[x].done /\ rwt'[x].value = rwt[x].value
      /\ rwt'[Client] = [op |-> "none", value |-> Null, done |-> FALSE]
      /\ \A y \in Places : y # x /\ y # Client => rwt'[y] = rwt[y]
  BY <1>3, <1>3a, <1>4, PoolShapes DEF Shape
<1>6. WorkerRole(x)
  BY <1>4 DEF PoolInv, PoolRoles
<1>7. /\ worker[x].at = "put" /\ rwt[x].value = worker[x].task /\ worker[x].task # Null
      /\ twt[x].op = "none" /\ twt[x].value = Null
  <2>1. worker[x].at = "put" /\ rwt[x].value = worker[x].task
    BY <1>3, <1>6 DEF WorkerRole
  <2>2. worker[x] \in WorkerState
    BY <1>4 DEF PoolInv, PoolRoles
  <2>3. worker[x].task # Null /\ worker[x] # Taking
    BY <2>1, <2>2, NullNoJob DEF WorkerState, Off, Taking, Exited, Has, Putting
  <2> QED BY <1>6, <2>1, <2>3 DEF WorkerRole
<1>8. PoolRoles'
  <2>1. ClientRole'
    <3>1. ~rch'.closed /\ rwt'[Client].op = "none" /\ rwt'[Client].value = Null
      BY <1>3, <1>5 DEF PoolInv, PoolRoles, ClientRole
    <3> QED BY <1>1, <3>1 DEF PoolInv, PoolRoles, ClientRole
  <2>2. ASSUME NEW w \in Worker PROVE WorkerRole(w)'
    <3>1. CASE w = x
      BY <1>1, <1>5, <1>6, <1>7, <3>1 DEF WorkerRole
    <3>2. CASE w # x
      BY <1>1, <1>5, <3>2, PoolShapes DEF PoolInv, PoolRoles, WorkerRole
    <3> QED BY <3>1, <3>2
  <2> QED BY <1>1, <2>1, <2>2 DEF PoolInv, PoolRoles
<1>9. Held' = [Held EXCEPT ![x] = Null] /\ Held[x] = rwt[x].value
  <2>1. \A y \in Places : Holds(y)' = IF y = x THEN Null ELSE Holds(y)
    BY <1>1, <1>4, <1>5, <1>7 DEF Holds
  <2>2. Holds(x) = rwt[x].value
    BY <1>3, <1>4, <1>7 DEF Holds
  <2> QED BY <1>3, <2>1, <2>2, HeldAt, PoolShapes
<1>10. JobLedger'
  <2>1. Ledger(Held, rwt[Client].value, thist.accepted, rhist.taken, rhist.returned, jobseq)
    BY DEF PoolInv, JobLedger
  <2>2. rwt[Client].value = Null /\ Held[x] # Null
    BY <1>7, <1>9 DEF PoolInv, PoolRoles, ClientRole
  <2>3. Ledger([Held EXCEPT ![x] = Null], Null, thist.accepted, Append(rhist.taken, Held[x]),
               [rhist.returned EXCEPT ![Held[x]] = @ + 1], jobseq)
    BY <1>3, <2>1, <2>2, LedgerDeliver
  <2>4. rhist'.taken = Append(rhist.taken, Held[x])
        /\ rhist'.returned = [rhist.returned EXCEPT ![Held[x]] = @ + 1]
        /\ rwt'[Client].value = Null
    BY <1>3, <1>5, <1>9
  <2> QED BY <1>1, <1>9, <2>3, <2>4 DEF JobLedger
<1> QED BY <1>2, <1>8, <1>10 DEF PoolInv

\* collect() and waitOne() on entry.
LEMMA CollectKeeps ==
  ASSUME PoolInv, Collect \/ WaitOne
  PROVE  PoolInv'
<1>1. /\ UNCHANGED <<tvars, running, jobseq, worker>> /\ rwt[Client].op = "none"
      /\ Result!TryRecv(Client) \/ Result!Recv(Client)
  BY DEF Collect, WaitOne, MayCollect, ClientReady, Result!Idle
<1>2. TaskProof!Inv' /\ ResultProof!Inv'
  BY <1>1, TaskKept, ResultKept DEF PoolInv
<1>3. ~Result!RecvBuffer(Client) /\ ~Result!RecvClosed(Client)
  BY PoolShapes DEF Shape, Result!RecvBuffer, Result!RecvClosed, PoolInv, PoolRoles, ClientRole
<1>4. CASE Result!RecvSender(Client)
  BY <1>1, <1>2, <1>4, CollectsFromWorker
<1>5. CASE UNCHANGED Result!vars
  <2>1. UNCHANGED <<tch, twt, thist, rch, rwt, rhist, running, jobseq, worker>>
    BY <1>1, <1>5 DEF tvars, Result!vars
  <2>2. PoolRoles'
    BY <2>1 DEF PoolInv, PoolRoles, ClientRole, WorkerRole
  <2>3. Held' = Held
    BY <2>1 DEF Held, Holds
  <2> QED BY <1>2, <2>1, <2>2, <2>3 DEF PoolInv, JobLedger
<1>6. CASE Result!RecvQueue(Client)
  <2>1. /\ rch'.closed = rch.closed /\ rhist' = rhist
        /\ rwt' = [rwt EXCEPT ![Client] = [op |-> "recv", value |-> Null, done |-> FALSE]]
        /\ tch' = tch /\ twt' = twt /\ thist' = thist /\ running' = running
        /\ jobseq' = jobseq /\ worker' = worker
    BY <1>1, <1>6, PoolShapes DEF tvars, Shape, Result!RecvQueue
  <2>2. /\ rwt'[Client] = [op |-> "recv", value |-> Null, done |-> FALSE]
        /\ \A y \in Places : y # Client => rwt'[y] = rwt[y]
    BY <2>1, PoolShapes DEF Shape
  <2>3. PoolRoles'
    <3>1. ClientRole'
      BY <2>1, <2>2 DEF PoolInv, PoolRoles, ClientRole
    <3>2. ASSUME NEW w \in Worker PROVE WorkerRole(w)'
      BY <2>1, <2>2, PoolShapes DEF PoolInv, PoolRoles, WorkerRole
    <3> QED BY <2>1, <3>1, <3>2 DEF PoolInv, PoolRoles
  <2>4. Held' = Held
    <3>1. \A y \in Places : Holds(y)' = Holds(y)
      BY <2>1, <2>2, PoolShapes DEF Holds
    <3> QED BY <3>1, HeldSame
  <2>5. rwt'[Client].value = rwt[Client].value
    BY <1>1, <2>2 DEF PoolInv, PoolRoles, ClientRole
  <2> QED BY <1>2, <2>1, <2>3, <2>4, <2>5 DEF PoolInv, JobLedger
<1> QED BY <1>1, <1>3, <1>4, <1>5, <1>6 DEF Result!TryRecv, Result!Recv, Result!RecvLoop

\* waitOne() comes back with the value in its waiter.
LEMMA WaitOneReturnsKeeps ==
  ASSUME PoolInv, WaitOneReturns
  PROVE  PoolInv'
<1>1. /\ tch' = tch /\ twt' = twt /\ thist' = thist /\ running' = running /\ jobseq' = jobseq
      /\ worker' = worker /\ rch' = rch /\ rwt[Client].value # Null
      /\ rwt' = [rwt EXCEPT ![Client] = [op |-> "none", value |-> Null, done |-> FALSE]]
      /\ rhist'.taken = rhist.taken
      /\ rhist'.returned = [rhist.returned EXCEPT ![rwt[Client].value] = @ + 1]
  BY PoolShapes
     DEF WaitOneReturns, tvars, Shape, Result!RecvWake, Result!NoWaiter, Result!Returns
<1>2. TaskProof!Inv'
  BY <1>1, TaskKept DEF PoolInv, tvars
<1>3. ResultProof!Inv'
  BY ResultKept, PoolShapes DEF PoolInv, WaitOneReturns, Result!Wake
<1>4. /\ rwt'[Client] = [op |-> "none", value |-> Null, done |-> FALSE]
      /\ \A y \in Places : y # Client => rwt'[y] = rwt[y]
  BY <1>1, PoolShapes DEF Shape
<1>5. PoolRoles'
  <2>1. ClientRole'
    BY <1>1, <1>4 DEF PoolInv, PoolRoles, ClientRole
  <2>2. ASSUME NEW w \in Worker PROVE WorkerRole(w)'
    BY <1>1, <1>4, PoolShapes DEF PoolInv, PoolRoles, WorkerRole
  <2> QED BY <1>1, <2>1, <2>2 DEF PoolInv, PoolRoles
<1>6. Held' = Held
  <2>1. \A y \in Places : Holds(y)' = Holds(y)
    BY <1>1, <1>4, PoolShapes DEF Holds
  <2> QED BY <2>1, HeldSame
<1>7. JobLedger'
  <2>1. Ledger(Held, rwt[Client].value, thist.accepted, rhist.taken, rhist.returned, jobseq)
    BY DEF PoolInv, JobLedger
  <2>2. Ledger(Held, Null, thist.accepted, rhist.taken,
               [rhist.returned EXCEPT ![rwt[Client].value] = @ + 1], jobseq)
    BY <1>1, <2>1, LedgerReturn
  <2> QED BY <1>1, <1>4, <1>6, <2>2 DEF JobLedger
<1> QED BY <1>2, <1>3, <1>5, <1>7 DEF PoolInv

\* A worker that takes the task of a submit() that sleeps.
LEMMA TakesFromClient ==
  ASSUME PoolInv, TaskProof!Inv', NEW w \in Worker, worker[w] = Taking, Task!RecvSender(w),
         twt[w].op = "none", WorkerTake(w)
  PROVE  PoolInv'
<1>1. /\ rch' = rch /\ rwt' = rwt /\ rhist' = rhist /\ running' = running /\ jobseq' = jobseq
      /\ tch.sendq # <<>>
  BY DEF WorkerTake, rvars, Task!RecvSender
<1>2. ResultProof!Inv'
  BY <1>1, ResultKept DEF PoolInv, rvars
<1>3. Head(tch.sendq) = Client /\ twt[Client].op = "send" /\ ~twt[Client].done
  <2>1. /\ Head(tch.sendq) \in Places /\ twt[Head(tch.sendq)].op = "send"
        /\ ~twt[Head(tch.sendq)].done
    BY <1>1, PoolShapes DEF Shape
  <2>2. Head(tch.sendq) \notin Worker
    BY <2>1 DEF PoolInv, PoolRoles, WorkerRole
  <2> QED BY <2>1, <2>2, PoolShapes
<1>4. /\ thist'.accepted = thist.accepted /\ tch'.closed = tch.closed
  BY PoolShapes DEF Shape, Task!RecvSender
<1>5. twt' = [twt EXCEPT ![Client].done = TRUE,
                         ![w] = [op |-> "none", value |-> Null, done |-> FALSE]]
  BY <1>3 DEF Task!RecvSender, Task!NoWaiter
<1>6. /\ twt'[Client].op = "send" /\ twt'[Client].done /\ twt'[Client].value = twt[Client].value
      /\ twt'[w] = [op |-> "none", value |-> Null, done |-> FALSE]
      /\ \A y \in Places : y # w /\ y # Client => twt'[y] = twt[y]
  BY <1>3, <1>5, PoolShapes DEF Shape
<1>7. twt[Client].value \in Job /\ twt[Client].value # Null
  BY <1>3, PoolShapes DEF PoolInv, PoolRoles, ClientRole, Shape
<1>8. WorkerRole(w) /\ worker \in [Worker -> WorkerState]
  BY DEF PoolInv, PoolRoles
<1>9. /\ worker' = [worker EXCEPT ![w] = Has(twt[Client].value)]
      /\ Has(twt[Client].value) \in WorkerState
  BY <1>1, <1>3, <1>7 DEF WorkerTake, WorkerState
<1>10. /\ worker'[w] = Has(twt[Client].value) /\ worker' \in [Worker -> WorkerState]
       /\ \A y \in Worker : y # w => worker'[y] = worker[y]
  BY <1>8, <1>9
<1>11. rwt[w].op = "none" /\ twt[w].value = Null
  BY <1>8 DEF WorkerRole, Taking
<1>12. PoolRoles'
  <2>1. ClientRole'
    BY <1>1, <1>3, <1>4, <1>6 DEF PoolInv, PoolRoles, ClientRole
  <2>2. ASSUME NEW u \in Worker PROVE WorkerRole(u)'
    <3>1. CASE u = w
      BY <1>1, <1>6, <1>8, <1>11, <3>1 DEF WorkerRole
    <3>2. CASE u # w
      BY <1>1, <1>4, <1>6, <1>10, <3>2, PoolShapes DEF PoolInv, PoolRoles, WorkerRole
    <3> QED BY <3>1, <3>2
  <2> QED BY <1>1, <1>10, <2>1, <2>2 DEF PoolInv, PoolRoles
<1>13. /\ Held[w] = Null /\ Held[Client] = twt[Client].value
       /\ Held' = [Held EXCEPT ![Client] = Null, ![w] = Held[Client]]
  <2>1. Holds(w) = Null /\ Holds(Client) = twt[Client].value
    BY <1>3, <1>11, PoolShapes DEF Holds, Taking
  <2>2. \A y \in Places : Holds(y)' = IF y = w THEN twt[Client].value
                                      ELSE IF y = Client THEN Null ELSE Holds(y)
    BY <1>1, <1>6, <1>10, <1>11, PoolShapes DEF Holds, Has
  <2>3. Held' = [y \in Places |-> IF y = w THEN twt[Client].value
                                  ELSE IF y = Client THEN Null ELSE Held[y]]
    BY <2>2, PoolShapes DEF Held
  <2>4. Held[w] = Null /\ Held[Client] = twt[Client].value /\ w # Client
    BY <2>1, PoolShapes
  <2> QED BY <2>3, <2>4, PoolShapes
<1>14. JobLedger'
  <2>1. Ledger(Held, rwt[Client].value, thist.accepted, rhist.taken, rhist.returned, jobseq)
    BY DEF PoolInv, JobLedger
  <2>2. Ledger([Held EXCEPT ![Client] = Null, ![w] = Held[Client]], rwt[Client].value,
               thist.accepted, rhist.taken, rhist.returned, jobseq)
    BY <1>13, <2>1, PoolShapes, LedgerMove
  <2> QED BY <1>1, <1>4, <1>13, <2>2 DEF JobLedger
<1> QED BY <1>2, <1>12, <1>14 DEF PoolInv

\* A worker's receive that changes no job: it sleeps, ends the loop, or comes back with
\* the task it was handed.
LEMMA WorkerRests ==
  ASSUME PoolInv, TaskProof!Inv', NEW w \in Worker, NEW waiter, NEW state,
         UNCHANGED <<rvars, running, jobseq>>,
         tch'.closed = tch.closed, thist'.accepted = thist.accepted,
         twt' = [twt EXCEPT ![w] = waiter], worker' = [worker EXCEPT ![w] = state],
         state \in WorkerState, worker[w] = Taking,
         \/ /\ waiter = [op |-> "none", value |-> Null, done |-> FALSE]
            /\ state.task = twt[w].value
         \/ /\ waiter = [op |-> "recv", value |-> Null, done |-> FALSE]
            /\ state = Taking /\ twt[w].value = Null
  PROVE  PoolInv'
<1>1. /\ rch' = rch /\ rwt' = rwt /\ rhist' = rhist /\ running' = running /\ jobseq' = jobseq
  BY DEF rvars
<1>2. ResultProof!Inv'
  BY <1>1, ResultKept DEF PoolInv, rvars
<1>3. twt'[w] = waiter /\ \A y \in Places : y # w => twt'[y] = twt[y]
  BY PoolShapes DEF Shape
<1>4. WorkerRole(w) /\ worker \in [Worker -> WorkerState]
  BY DEF PoolInv, PoolRoles
<1>5. /\ worker'[w] = state /\ worker' \in [Worker -> WorkerState]
      /\ \A y \in Worker : y # w => worker'[y] = worker[y]
  BY <1>4
<1>6. rwt[w].op = "none" /\ Taking.task = Null
  BY <1>4 DEF WorkerRole, Taking
<1>7. PoolRoles'
  <2>1. ClientRole'
    BY <1>1, <1>3, PoolShapes DEF PoolInv, PoolRoles, ClientRole
  <2>2. ASSUME NEW u \in Worker PROVE WorkerRole(u)'
    <3>1. CASE u = w
      BY <1>1, <1>3, <1>4, <1>5, <1>6, <3>1 DEF WorkerRole
    <3>2. CASE u # w
      BY <1>1, <1>3, <1>5, <3>2, PoolShapes DEF PoolInv, PoolRoles, WorkerRole
    <3> QED BY <3>1, <3>2
  <2> QED BY <1>1, <1>5, <2>1, <2>2 DEF PoolInv, PoolRoles
<1>8. Held' = Held
  <2>1. ASSUME NEW y \in Places PROVE Holds(y)' = Holds(y)
    <3>1. CASE y = w
      BY <1>1, <1>3, <1>5, <1>6, <3>1, PoolShapes DEF Holds
    <3>2. CASE y # w
      BY <1>1, <1>3, <1>5, <3>2, PoolShapes DEF Holds
    <3> QED BY <3>1, <3>2
  <2> QED BY <2>1, HeldSame
<1> QED BY <1>1, <1>2, <1>7, <1>8 DEF PoolInv, JobLedger

\* chan_recv of the worker loop on entry.
LEMMA WorkerTakeKeeps ==
  ASSUME PoolInv, NEW w \in Worker, WorkerTake(w)
  PROVE  PoolInv'
<1>1. /\ worker[w] = Taking /\ Task!Recv(w) /\ twt[w].op = "none"
      /\ UNCHANGED <<rvars, running, jobseq>>
  BY DEF WorkerTake, Task!Recv, Task!Idle
<1>2. TaskProof!Inv'
  BY <1>1, TaskKept DEF PoolInv
<1>3. twt[w].value = Null
  BY <1>1 DEF PoolInv, PoolRoles, WorkerRole
<1>4. ~Task!RecvBuffer(w)
  BY PoolShapes DEF Shape, Task!RecvBuffer
<1>5. CASE Task!RecvSender(w)
  BY <1>1, <1>2, <1>5, TakesFromClient
<1>6. CASE Task!RecvClosed(w)
  <2>1. /\ tch'.closed = tch.closed /\ thist'.accepted = thist.accepted
        /\ twt' = [twt EXCEPT ![w] = [op |-> "none", value |-> Null, done |-> FALSE]]
        /\ worker' = [worker EXCEPT ![w] = Exited]
    BY <1>6 DEF Task!RecvClosed, Task!Empty, Task!NoWaiter, WorkerTake
  <2>2. Exited \in WorkerState /\ Exited.task = twt[w].value
    BY <1>3 DEF WorkerState, Exited
  <2> QED BY <1>1, <1>2, <2>1, <2>2, WorkerRests
<1>7. CASE Task!RecvQueue(w)
  <2>1. /\ thist'.accepted = thist.accepted
        /\ twt' = [twt EXCEPT ![w] = [op |-> "recv", value |-> Null, done |-> FALSE]]
        /\ worker' = [worker EXCEPT ![w] = Taking]
    BY <1>7 DEF Task!RecvQueue, Task!Empty, WorkerTake
  <2>2. tch'.closed = tch.closed
    BY <1>7, PoolShapes DEF Shape, Task!RecvQueue
  <2>3. Taking \in WorkerState
    BY DEF WorkerState
  <2> QED BY <1>1, <1>2, <1>3, <2>1, <2>2, <2>3, WorkerRests
<1> QED BY <1>1, <1>4, <1>5, <1>6, <1>7 DEF Task!Recv, Task!RecvLoop

\* chan_recv of the worker loop after it slept.
LEMMA WorkerTakeReturnsKeeps ==
  ASSUME PoolInv, NEW w \in Worker, WorkerTakeReturns(w)
  PROVE  PoolInv'
<1>1. /\ Task!RecvWake(w) \/ Task!RecvWakeNull(w)
      /\ twt[w].op = "recv" /\ twt[w].done
      /\ UNCHANGED <<rvars, running, jobseq>>
  BY DEF WorkerTakeReturns, Task!RecvWake, Task!RecvWakeNull, Task!Woken
<1>2. TaskProof!Inv'
  BY <1>1, PoolShapes, TaskKept DEF PoolInv, Task!Wake
<1>3. WorkerRole(w)
  BY DEF PoolInv, PoolRoles
<1>4. worker[w] = Taking
  BY <1>1, <1>3 DEF WorkerRole
<1>5. CASE Task!RecvWake(w)
  <2>1. /\ tch'.closed = tch.closed
        /\ twt' = [twt EXCEPT ![w] = [op |-> "none", value |-> Null, done |-> FALSE]]
        /\ twt[w].value # Null
        /\ worker' = [worker EXCEPT ![w] = Has(twt[w].value)]
    BY <1>5 DEF Task!RecvWake, Task!NoWaiter, WorkerTakeReturns
  <2>2. thist'.accepted = thist.accepted
    BY <1>5, PoolShapes DEF Shape, Task!RecvWake
  <2>3. twt[w].value \in Job
    BY <2>1, PoolShapes DEF Shape
  <2>4. Has(twt[w].value) \in WorkerState /\ Has(twt[w].value).task = twt[w].value
    BY <2>3 DEF WorkerState, Has
  <2> QED BY <1>1, <1>2, <1>4, <2>1, <2>2, <2>4, WorkerRests
<1>6. CASE Task!RecvWakeNull(w)
  <2>1. twt[w].value = Null /\ tch.closed
    BY <1>1, <1>3, <1>6 DEF Task!RecvWakeNull, WorkerRole
  <2>2. tch.sendq = <<>>
    <3>1. ASSUME tch.sendq # <<>> PROVE FALSE
      <4>1. Head(tch.sendq) \in Places /\ twt[Head(tch.sendq)].op = "send"
        BY <3>1, PoolShapes DEF Shape
      <4>2. Head(tch.sendq) \notin Worker
        BY <4>1 DEF PoolInv, PoolRoles, WorkerRole
      <4>3. Head(tch.sendq) # Client
        BY <2>1, <4>1 DEF PoolInv, PoolRoles, ClientRole
      <4> QED BY <4>1, <4>2, <4>3, PoolShapes
    <3> QED BY <3>1
  <2>3. Task!RecvClosed(w)
    BY <1>6, <2>1, <2>2, PoolShapes
       DEF Task!RecvWakeNull, Task!RecvLoop, Task!RecvBuffer, Task!RecvSender, Task!RecvQueue, Shape
  <2>4. /\ tch'.closed = tch.closed /\ thist'.accepted = thist.accepted
        /\ twt' = [twt EXCEPT ![w] = [op |-> "none", value |-> Null, done |-> FALSE]]
        /\ worker' = [worker EXCEPT ![w] = Exited]
    BY <2>1, <2>3 DEF Task!RecvClosed, Task!NoWaiter, WorkerTakeReturns
  <2>5. Exited \in WorkerState /\ Exited.task = twt[w].value
    BY <2>1 DEF WorkerState, Exited
  <2> QED BY <1>1, <1>2, <1>4, <2>4, <2>5, WorkerRests
<1> QED BY <1>1, <1>5, <1>6

\* The callback of a worker returns.
LEMMA WorkerRunKeeps ==
  ASSUME PoolInv, NEW w \in Worker, WorkerRun(w)
  PROVE  PoolInv'
<1>1. /\ rch' = rch /\ rwt' = rwt /\ rhist' = rhist /\ running' = running /\ jobseq' = jobseq
      /\ tch' = tch /\ twt' = twt /\ thist' = thist /\ worker[w].at = "run"
      /\ worker' = [worker EXCEPT ![w] = Putting(worker[w].task)]
  BY DEF WorkerRun, tvars, rvars
<1>2. TaskProof!Inv' /\ ResultProof!Inv'
  BY <1>1, TaskKept, ResultKept DEF PoolInv, tvars, rvars
<1>3. WorkerRole(w) /\ worker \in [Worker -> WorkerState]
  BY DEF PoolInv, PoolRoles
<1>4. worker[w] # Taking /\ worker[w].task \in Job
  BY <1>1, <1>3 DEF WorkerState, Off, Taking, Exited, Has, Putting
<1>5. /\ worker' \in [Worker -> WorkerState]
      /\ worker'[w].task = worker[w].task /\ worker'[w].at = "put"
      /\ \A y \in Worker : y # w => worker'[y] = worker[y]
  <2>1. Putting(worker[w].task) \in WorkerState
    BY <1>4 DEF WorkerState
  <2>2. worker'[w] = Putting(worker[w].task)
    BY <1>1, <1>3
  <2> QED BY <1>1, <1>3, <2>1, <2>2 DEF Putting
<1>6. twt[w].op = "none" /\ rwt[w].op = "none"
  BY <1>1, <1>3, <1>4 DEF WorkerRole
<1>7. PoolRoles'
  <2>1. ClientRole'
    BY <1>1 DEF PoolInv, PoolRoles, ClientRole
  <2>2. ASSUME NEW u \in Worker PROVE WorkerRole(u)'
    <3>1. CASE u = w
      BY <1>1, <1>3, <1>6, <3>1 DEF WorkerRole
    <3>2. CASE u # w
      BY <1>1, <1>5, <3>2 DEF PoolInv, PoolRoles, WorkerRole
    <3> QED BY <3>1, <3>2
  <2> QED BY <1>1, <1>5, <2>1, <2>2 DEF PoolInv, PoolRoles
<1>8. Held' = Held
  <2>1. \A y \in Places : Holds(y)' = Holds(y)
    BY <1>1, <1>5, PoolShapes DEF Holds
  <2> QED BY <2>1, HeldSame
<1> QED BY <1>1, <1>2, <1>7, <1>8 DEF PoolInv, JobLedger

\* A worker whose send meets a waitOne() that sleeps.
LEMMA PutsToClient ==
  ASSUME PoolInv, ResultProof!Inv', NEW w \in Worker, WorkerPut(w),
         Result!SendHandoff(w, worker[w].task), worker[w].task \in Job, rwt[w].op = "none"
  PROVE  PoolInv'
<1> DEFINE j == worker[w].task
<1>0. j \in Job /\ j # Null
  BY NullNoJob
<1>1. /\ tch' = tch /\ twt' = twt /\ thist' = thist /\ running' = running /\ jobseq' = jobseq
      /\ worker[w].at = "put" /\ rch.recvq # <<>>
      /\ worker' = [worker EXCEPT ![w] = IF rwt'[w].op = "send" THEN worker[w] ELSE Taking]
  BY DEF WorkerPut, tvars, Result!SendHandoff
<1>2. TaskProof!Inv'
  BY <1>1, TaskKept DEF PoolInv, tvars
<1>3. Head(rch.recvq) = Client /\ rwt[Client].op = "recv" /\ ~rwt[Client].done
  <2>1. /\ Head(rch.recvq) \in Places /\ rwt[Head(rch.recvq)].op = "recv"
        /\ ~rwt[Head(rch.recvq)].done
    BY <1>1, PoolShapes DEF Shape
  <2>2. Head(rch.recvq) \notin Worker
    BY <2>1 DEF PoolInv, PoolRoles, WorkerRole
  <2> QED BY <2>1, <2>2, PoolShapes
<1>4. /\ rch'.closed = rch.closed
      /\ rhist'.taken = Append(rhist.taken, j) /\ rhist'.returned = rhist.returned
      /\ rwt' = [rwt EXCEPT ![Client] = [op |-> "recv", value |-> j, done |-> TRUE]]
  BY <1>3, PoolShapes DEF Shape, Result!SendHandoff
<1>5. WorkerRole(w) /\ worker \in [Worker -> WorkerState]
  BY DEF PoolInv, PoolRoles
<1>6. worker[w] # Taking /\ Taking.task = Null /\ Taking \in WorkerState
  BY <1>1 DEF Taking, WorkerState
<1>7. twt[w].op = "none" /\ twt[w].value = Null
  BY <1>5, <1>6 DEF WorkerRole
<1> HIDE DEF j
<1>8. /\ rwt'[Client] = [op |-> "recv", value |-> j, done |-> TRUE]
      /\ \A y \in Places : y # Client => rwt'[y] = rwt[y]
  BY <1>4, PoolShapes DEF Shape
<1>9. rwt'[w].op = "none" /\ rwt'[w] = rwt[w]
  BY <1>8, PoolShapes
<1>10. /\ worker'[w] = Taking /\ worker' \in [Worker -> WorkerState]
       /\ \A y \in Worker : y # w => worker'[y] = worker[y]
  BY <1>1, <1>5, <1>6, <1>9
<1>11. PoolRoles'
  <2>1. ClientRole'
    BY <1>1, <1>4, <1>8 DEF PoolInv, PoolRoles, ClientRole
  <2>2. ASSUME NEW u \in Worker PROVE WorkerRole(u)'
    <3>1. CASE u = w
      BY <1>1, <1>5, <1>7, <1>9, <1>10, <3>1 DEF WorkerRole
    <3>2. CASE u # w
      BY <1>1, <1>8, <1>10, <3>2, PoolShapes DEF PoolInv, PoolRoles, WorkerRole
    <3> QED BY <3>1, <3>2
  <2> QED BY <1>1, <1>10, <2>1, <2>2 DEF PoolInv, PoolRoles
<1>12. Held' = [Held EXCEPT ![w] = Null] /\ Held[w] = j
  <2>1. \A y \in Places : Holds(y)' = IF y = w THEN Null ELSE Holds(y)
    BY <1>1, <1>6, <1>7, <1>8, <1>9, <1>10, PoolShapes DEF Holds
  <2>2. Holds(w) = j
    BY <1>7, PoolShapes DEF Holds, j
  <2> QED BY <2>1, <2>2, HeldAt, PoolShapes
<1>13. JobLedger'
  <2>1. Ledger(Held, rwt[Client].value, thist.accepted, rhist.taken, rhist.returned, jobseq)
    BY DEF PoolInv, JobLedger
  <2>2. rwt[Client].value = Null
    BY <1>3 DEF PoolInv, PoolRoles, ClientRole
  <2>3. Ledger([Held EXCEPT ![w] = Null], Held[w], thist.accepted,
               Append(rhist.taken, Held[w]), rhist.returned, jobseq)
    BY <1>0, <1>12, <2>1, <2>2, PoolShapes, LedgerHandOver
  <2>4. rwt'[Client].value = Held[w] /\ rhist'.taken = Append(rhist.taken, Held[w])
    BY <1>4, <1>8, <1>12
  <2> QED BY <1>1, <1>4, <1>12, <2>3, <2>4 DEF JobLedger
<1> QED BY <1>2, <1>11, <1>13 DEF PoolInv

\* chan_send of the worker loop.
LEMMA WorkerPutKeeps ==
  ASSUME PoolInv, NEW w \in Worker, WorkerPut(w)
  PROVE  PoolInv'
<1>1. /\ tch' = tch /\ twt' = twt /\ thist' = thist /\ running' = running /\ jobseq' = jobseq
      /\ worker[w].at = "put" /\ Result!Send(w, worker[w].task)
      /\ worker' = [worker EXCEPT ![w] = IF rwt'[w].op = "send" THEN worker[w] ELSE Taking]
  BY DEF WorkerPut, tvars
<1>2. WorkerRole(w) /\ worker \in [Worker -> WorkerState]
  BY DEF PoolInv, PoolRoles
<1>3. worker[w].task \in Job /\ worker[w] # Taking
  BY <1>1, <1>2 DEF WorkerState, Off, Taking, Exited, Has, Putting
<1>4. TaskProof!Inv' /\ ResultProof!Inv'
  BY <1>1, <1>3, TaskKept, ResultKept DEF PoolInv, tvars
<1>5. rwt[w].op = "none"
  BY <1>1 DEF Result!Send, Result!SendHandoff, Result!SendBuffer, Result!SendQueue,
              Result!Sendable, Result!Idle
<1>6. CASE Result!SendHandoff(w, worker[w].task)
  BY <1>3, <1>4, <1>5, <1>6, PutsToClient
<1>7. ~Result!SendBuffer(w, worker[w].task)
  BY PoolShapes DEF Shape, Result!SendBuffer, Result!HasRoom
<1>8. CASE Result!SendQueue(w, worker[w].task)
  <2>1. /\ rch'.closed = rch.closed
        /\ rhist'.taken = rhist.taken /\ rhist'.returned = rhist.returned
        /\ rwt' = [rwt EXCEPT ![w] = [op |-> "send", value |-> worker[w].task, done |-> FALSE]]
    BY <1>8, PoolShapes DEF Shape, Result!SendQueue, Result!PutInQueue
  <2>2. /\ rwt'[w] = [op |-> "send", value |-> worker[w].task, done |-> FALSE]
        /\ \A y \in Places : y # w => rwt'[y] = rwt[y]
    BY <2>1, PoolShapes DEF Shape
  <2>3. worker' = worker
    BY <1>1, <1>2, <2>2
  <2>4. PoolRoles'
    <3>1. ClientRole'
      BY <1>1, <2>1, <2>2, PoolShapes DEF PoolInv, PoolRoles, ClientRole
    <3>2. ASSUME NEW u \in Worker PROVE WorkerRole(u)'
      <4>1. CASE u = w
        BY <1>1, <1>2, <2>2, <2>3, <4>1 DEF WorkerRole
      <4>2. CASE u # w
        BY <1>1, <2>2, <2>3, <4>2, PoolShapes DEF PoolInv, PoolRoles, WorkerRole
      <4> QED BY <4>1, <4>2
    <3> QED BY <1>1, <2>3, <3>1, <3>2 DEF PoolInv, PoolRoles
  <2>5. Held' = Held
    <3>1. \A y \in Places : Holds(y)' = Holds(y)
      BY <1>1, <1>5, <2>2, <2>3 DEF Holds
    <3> QED BY <3>1, HeldSame
  <2>6. rwt'[Client] = rwt[Client]
    BY <2>2, PoolShapes
  <2> QED BY <1>1, <1>4, <2>1, <2>4, <2>5, <2>6 DEF PoolInv, JobLedger
<1> QED BY <1>1, <1>6, <1>7, <1>8 DEF Result!Send

\* chan_send of the worker loop after it slept.
LEMMA WorkerPutReturnsKeeps ==
  ASSUME PoolInv, NEW w \in Worker, WorkerPutReturns(w)
  PROVE  PoolInv'
<1>1. /\ tch' = tch /\ twt' = twt /\ thist' = thist /\ running' = running /\ jobseq' = jobseq
      /\ rch' = rch /\ rhist' = rhist
      /\ rwt' = [rwt EXCEPT ![w] = [op |-> "none", value |-> Null, done |-> FALSE]]
      /\ rwt[w].op = "send" /\ rwt[w].done
      /\ worker' = [worker EXCEPT ![w] = Taking]
  BY DEF WorkerPutReturns, tvars, Result!SendWake, Result!NoWaiter, Result!Woken
<1>2. TaskProof!Inv' /\ ResultProof!Inv'
  BY <1>1, TaskKept, ResultKept, PoolShapes
     DEF PoolInv, WorkerPutReturns, Result!Wake, tvars
<1>3. WorkerRole(w) /\ worker \in [Worker -> WorkerState]
  BY DEF PoolInv, PoolRoles
<1>4. worker[w] # Taking /\ Taking.task = Null /\ Taking \in WorkerState
  BY <1>1, <1>3 DEF WorkerRole, Taking, WorkerState
<1>5. twt[w].op = "none" /\ twt[w].value = Null
  BY <1>3, <1>4 DEF WorkerRole
<1>6. /\ rwt'[w] = [op |-> "none", value |-> Null, done |-> FALSE]
      /\ \A y \in Places : y # w => rwt'[y] = rwt[y]
  BY <1>1, PoolShapes DEF Shape
<1>7. /\ worker'[w] = Taking /\ worker' \in [Worker -> WorkerState]
      /\ \A y \in Worker : y # w => worker'[y] = worker[y]
  BY <1>1, <1>3, <1>4
<1>8. PoolRoles'
  <2>1. ClientRole'
    BY <1>1, <1>6, PoolShapes DEF PoolInv, PoolRoles, ClientRole
  <2>2. ASSUME NEW u \in Worker PROVE WorkerRole(u)'
    <3>1. CASE u = w
      BY <1>1, <1>3, <1>5, <1>6, <1>7, <3>1 DEF WorkerRole
    <3>2. CASE u # w
      BY <1>1, <1>6, <1>7, <3>2, PoolShapes DEF PoolInv, PoolRoles, WorkerRole
    <3> QED BY <3>1, <3>2
  <2> QED BY <1>1, <1>7, <2>1, <2>2 DEF PoolInv, PoolRoles
<1>9. Held' = Held
  <2>1. ASSUME NEW y \in Places PROVE Holds(y)' = Holds(y)
    <3>1. CASE y = w
      BY <1>1, <1>4, <1>5, <1>6, <1>7, <3>1, PoolShapes DEF Holds
    <3>2. CASE y # w
      BY <1>1, <1>6, <1>7, <3>2, PoolShapes DEF Holds
    <3> QED BY <3>1, <3>2
  <2> QED BY <2>1, HeldSame
<1>10. rwt'[Client] = rwt[Client]
  BY <1>6, PoolShapes
<1> QED BY <1>1, <1>2, <1>8, <1>9, <1>10 DEF PoolInv, JobLedger

\* Every step of the specification.
LEMMA PoolStep ==
  ASSUME PoolInv, [PoolNext]_poolVars
  PROVE  PoolInv'
<1>1. CASE UNCHANGED poolVars
  <2>1. UNCHANGED <<tch, twt, thist, rch, rwt, rhist, running, jobseq, worker>>
    BY <1>1 DEF poolVars
  <2>2. TaskProof!Inv' /\ ResultProof!Inv'
    BY <2>1, TaskKept, ResultKept DEF PoolInv, tvars, rvars
  <2>3. PoolRoles'
    BY <2>1 DEF PoolInv, PoolRoles, ClientRole, WorkerRole
  <2>4. Held' = Held
    BY <2>1 DEF Held, Holds
  <2> QED BY <2>1, <2>2, <2>3, <2>4 DEF PoolInv, JobLedger
<1>2. CASE ClientStep
  BY <1>2, StartKeeps, SubmitKeeps, SubmitReturnsKeeps, CollectKeeps, WaitOneReturnsKeeps,
     ShutdownKeeps DEF ClientStep
<1>3. CASE \E w \in Worker : WorkerStep(w)
  BY <1>3, WorkerTakeKeeps, WorkerTakeReturnsKeeps, WorkerRunKeeps, WorkerPutKeeps,
     WorkerPutReturnsKeeps DEF WorkerStep
<1> QED BY <1>1, <1>2, <1>3 DEF PoolNext

\* A new pool.
LEMMA PoolInitInv == PoolInit => PoolInv
<1> SUFFICES ASSUME PoolInit PROVE PoolInv
  OBVIOUS
<1>1. /\ Task!Init /\ Result!Init /\ running = FALSE /\ jobseq = 0
      /\ worker = [w \in Worker |-> Off]
  BY DEF PoolInit
<1>2. TaskProof!Inv
  <2>1. TaskProof!Init
    BY <1>1 DEF Task!Init, TaskProof!Init, Task!NoWaiter, TaskProof!NoWaiter, Task!Payload,
                TaskProof!Payload, Task!Thread, TaskProof!Thread
  <2> QED BY <2>1, TaskProof!InvInit, PoolChannels
<1>3. ResultProof!Inv
  <2>1. ResultProof!Init
    BY <1>1 DEF Result!Init, ResultProof!Init, Result!NoWaiter, ResultProof!NoWaiter,
                Result!Payload, ResultProof!Payload, Result!Thread, ResultProof!Thread
  <2> QED BY <2>1, ResultProof!InvInit, PoolChannels
<1>4. /\ twt = [t \in Places |-> [op |-> "none", value |-> Null, done |-> FALSE]]
      /\ rwt = [t \in Places |-> [op |-> "none", value |-> Null, done |-> FALSE]]
      /\ ~tch.closed /\ ~rch.closed
      /\ thist.accepted = <<>> /\ rhist.taken = <<>>
      /\ rhist.returned = [v \in Job \cup {Null} |-> 0]
  <2>1. /\ Task!Thread = Places /\ Result!Thread = Places
        /\ Result!Payload = Job \cup {Null}
    BY DEF Task!Thread, Result!Thread, Result!Payload, Places
  <2> QED BY <1>1, <2>1 DEF Task!Init, Result!Init, Task!NoWaiter, Result!NoWaiter
<1>5. Client \in Places /\ \A w \in Worker : w \in Places /\ w # Client
  BY PoolAssumption DEF Places
<1>6. PoolRoles
  <2>1. ClientRole
    BY <1>4, <1>5 DEF ClientRole
  <2>2. ASSUME NEW w \in Worker PROVE WorkerRole(w)
    BY <1>4, <1>5 DEF WorkerRole
  <2>3. worker \in [Worker -> WorkerState]
    BY <1>1 DEF WorkerState
  <2>4. jobseq \in 0..MaxJobs
    BY <1>1, PoolAssumption
  <2>5. running \in BOOLEAN
    BY <1>1
  <2> QED BY <2>1, <2>2, <2>3, <2>4, <2>5 DEF PoolRoles
<1>7. JobLedger
  <2>1. \A y \in Places : Holds(y) = Null
    BY <1>1, <1>4, <1>5 DEF Holds, Off, Places
  <2>2. Held = [y \in Places |-> Null]
    BY <2>1 DEF Held
  <2>3. <<>> \in Seq(Job) /\ Once(<<>>) /\ \A j : ~Among(j, <<>>)
    BY DEF Once, Among
  <2>4. \A j \in Job : ~\E x \in Places : Held[x] = j
    BY <2>2, NullNoJob
  <2>5. rwt[Client].value = Null
    BY <1>4, <1>5
  <2>6. Ledger(Held, Null, <<>>, <<>>, [v \in Job \cup {Null} |-> 0], 0)
    <3>1. Held \in [Places -> Job \cup {Null}] /\ \A x \in Places : Held[x] = Null
      BY <2>2
    <3> HIDE DEF Held
    <3> QED BY <2>3, <2>4, <3>1 DEF Ledger
  <2> QED BY <1>1, <1>4, <2>5, <2>6 DEF JobLedger
<1> QED BY <1>2, <1>3, <1>6, <1>7 DEF PoolInv

(***************************************************************************)
(* What the ledger says about the jobs.                                    *)
(***************************************************************************)
\* The places of a job in the terms of the ledger.
LEMMA JobPlaces ==
  ASSUME PoolInv, NEW j \in Job
  PROVE  /\ InTaskChannel(j) = {x \in Places : Held[x] = j /\ twt[x].value = j}
         /\ InWorker(j) = {x \in Places : Held[x] = j /\ twt[x].value # j /\ rwt[x].op = "none"}
         /\ InResultChannel(j) =
              {x \in Places : Held[x] = j /\ twt[x].value # j /\ rwt[x].op # "none"}
                \cup {x \in {Client} : rwt[Client].value = j}
<1>0. j # Null
  BY NullNoJob
<1>1. ClientRole /\ \A w \in Worker : WorkerRole(w) /\ worker[w] \in WorkerState
  BY DEF PoolInv, PoolRoles
<1>2. /\ Held[Client] = IF twt[Client].op = "send" /\ ~twt[Client].done
                        THEN twt[Client].value ELSE Null
      /\ \A w \in Worker : Held[w] = IF twt[w].value # Null THEN twt[w].value
                                     ELSE IF rwt[w].op = "send" /\ rwt[w].done THEN Null
                                     ELSE worker[w].task
  BY PoolShapes DEF Holds
<1>3. Task!Thread = Places /\ Result!Thread = Places
  BY DEF Task!Thread, Result!Thread, Places
<1>4. \A x \in Places : (twt[x].value = j /\ (twt[x].op = "send" => ~twt[x].done))
                          <=> Held[x] = j /\ twt[x].value = j
  BY <1>0, <1>1, <1>2, PoolShapes DEF ClientRole, WorkerRole
<1>5. \A w \in Worker : twt[w].value = Null \/ worker[w].task = Null
  BY <1>1 DEF WorkerRole, Taking
<1>6. \A w \in Worker : (worker[w].task = j /\ rwt[w].op = "none")
                          <=> Held[w] = j /\ twt[w].value # j /\ rwt[w].op = "none"
  BY <1>0, <1>1, <1>2, <1>5 DEF WorkerRole
<1>7. ~(Held[Client] = j /\ twt[Client].value # j)
  BY <1>0, <1>2
<1>8. \A w \in Worker : (rwt[w].value = j /\ (rwt[w].op = "send" => ~rwt[w].done))
                          <=> Held[w] = j /\ twt[w].value # j /\ rwt[w].op # "none"
  BY <1>0, <1>1, <1>2, <1>5 DEF WorkerRole
<1>9. (rwt[Client].value = j /\ (rwt[Client].op = "send" => ~rwt[Client].done))
        <=> rwt[Client].value = j
  BY <1>1 DEF ClientRole
<1>10. InTaskChannel(j) = {x \in Places : Held[x] = j /\ twt[x].value = j}
  BY <1>3, <1>4 DEF InTaskChannel
<1>11. InWorker(j) = {x \in Places : Held[x] = j /\ twt[x].value # j /\ rwt[x].op = "none"}
  BY <1>6, <1>7, PoolShapes DEF InWorker, Result!Idle
<1>12. InResultChannel(j) =
              {x \in Places : Held[x] = j /\ twt[x].value # j /\ rwt[x].op # "none"}
                \cup {x \in {Client} : rwt[Client].value = j}
  BY <1>3, <1>7, <1>8, <1>9, PoolShapes DEF InResultChannel
<1> QED BY <1>10, <1>11, <1>12

\* A list without duplicates has an element in one position or in none.
LEMMA Positions ==
  ASSUME NEW s \in Seq(Job), Once(s), NEW j
  PROVE  Cardinality({p \in DOMAIN s : s[p] = j}) = IF Among(j, s) THEN 1 ELSE 0
<1>1. CASE Among(j, s)
  <2>1. PICK p \in 1..Len(s) : s[p] = j
    BY <1>1 DEF Among
  <2>2. {k \in DOMAIN s : s[k] = j} = {p}
    BY <2>1 DEF Once
  <2> QED BY <1>1, <2>2, FS_Singleton
<1>2. CASE ~Among(j, s)
  <2>1. {k \in DOMAIN s : s[k] = j} = {}
    BY <1>2 DEF Among
  <2> QED BY <1>2, <2>1, FS_EmptySet
<1> QED BY <1>1, <1>2

\* A job is in one place.
LEMMA OnePlace == PoolInv => JobInOnePlace
<1> SUFFICES ASSUME PoolInv, NEW j \in Job
             PROVE  Cardinality(InTaskChannel(j)) + Cardinality(InWorker(j))
                      + Cardinality(InResultChannel(j)) + rhist.returned[j]
                    = Cardinality({p \in DOMAIN thist.accepted : thist.accepted[p] = j})
  BY DEF JobInOnePlace
<1> DEFINE A == InTaskChannel(j)
           B == InWorker(j)
           C == InResultChannel(j)
           D == {p \in DOMAIN thist.accepted : thist.accepted[p] = j}
           got == rwt[Client].value
<1>1. /\ thist.accepted \in Seq(Job) /\ Once(thist.accepted)
      /\ Among(j, thist.accepted) <=> Among(j, rhist.taken) \/ \E x \in Places : Held[x] = j
      /\ \A x, y \in Places : Held[x] = Held[y] /\ Held[x] # Null => x = y
      /\ \A x \in Places : Held[x] # Null => ~Among(Held[x], rhist.taken)
      /\ rhist.returned[j] = IF Among(j, rhist.taken) /\ got # j THEN 1 ELSE 0
      /\ got # Null => Among(got, rhist.taken)
      /\ j # Null
  BY NullNoJob DEF PoolInv, JobLedger, Ledger
<1>2. /\ A = {x \in Places : Held[x] = j /\ twt[x].value = j}
      /\ B = {x \in Places : Held[x] = j /\ twt[x].value # j /\ rwt[x].op = "none"}
      /\ C = {x \in Places : Held[x] = j /\ twt[x].value # j /\ rwt[x].op # "none"}
               \cup {x \in {Client} : got = j}
  BY JobPlaces
<1>3. Cardinality(D) = IF Among(j, thist.accepted) THEN 1 ELSE 0
  BY <1>1, Positions
<1>4. Cardinality({}) = 0 /\ \A x : Cardinality({x}) = 1
  BY FS_EmptySet, FS_Singleton
<1> HIDE DEF A, B, C, D, got
<1>5. CASE Among(j, rhist.taken)
  <2>1. \A x \in Places : Held[x] # j
    BY <1>1, <1>5
  <2>2. A = {} /\ B = {} /\ C = {x \in {Client} : got = j}
    BY <1>2, <2>1
  <2>3. C = IF got = j THEN {Client} ELSE {}
    BY <2>2
  <2>4. Cardinality(C) = IF got = j THEN 1 ELSE 0
    BY <1>4, <2>3
  <2>5. Cardinality(A) = 0 /\ Cardinality(B) = 0 /\ Cardinality(D) = 1
    BY <1>1, <1>3, <1>4, <1>5, <2>2
  <2> QED BY <1>1, <1>5, <2>4, <2>5 DEF A, B, C, D
<1>6. CASE ~Among(j, rhist.taken) /\ \E x \in Places : Held[x] = j
  <2>1. PICK x \in Places : Held[x] = j
    BY <1>6
  <2>2. \A y \in Places : Held[y] = j <=> y = x
    BY <1>1, <2>1
  <2>3. got # j /\ rhist.returned[j] = 0 /\ Cardinality(D) = 1
    BY <1>1, <1>3, <1>6
  <2>4. /\ A = IF twt[x].value = j THEN {x} ELSE {}
        /\ B = IF twt[x].value # j /\ rwt[x].op = "none" THEN {x} ELSE {}
        /\ C = IF twt[x].value # j /\ rwt[x].op # "none" THEN {x} ELSE {}
    BY <1>2, <2>2, <2>3
  <2>5. /\ Cardinality(A) = IF twt[x].value = j THEN 1 ELSE 0
        /\ Cardinality(B) = IF twt[x].value # j /\ rwt[x].op = "none" THEN 1 ELSE 0
        /\ Cardinality(C) = IF twt[x].value # j /\ rwt[x].op # "none" THEN 1 ELSE 0
    BY <1>4, <2>4
  <2> QED BY <2>3, <2>5 DEF A, B, C, D
<1>7. CASE ~Among(j, rhist.taken) /\ ~\E x \in Places : Held[x] = j
  <2>1. A = {} /\ B = {} /\ C = {} /\ rhist.returned[j] = 0 /\ Cardinality(D) = 0
    BY <1>1, <1>2, <1>3, <1>7
  <2> QED BY <1>4, <2>1 DEF A, B, C, D
<1> QED BY <1>5, <1>6, <1>7

\* Jobs that submit() has accepted and nobody has taken are with somebody.
LEMMA Backlog == PoolInv => PoolBackpressure
<1> SUFFICES ASSUME PoolInv PROVE PoolBackpressure
  OBVIOUS
<1> DEFINE a == thist.accepted
           b == rhist.taken
           gone == {p \in DOMAIN a : Among(a[p], b)}
           open == DOMAIN a \ gone
           where == [p \in gone |-> CHOOSE k \in DOMAIN b : b[k] = a[p]]
           who == [p \in open |-> CHOOSE x \in Places : Held[x] = a[p]]
<1>1. /\ a \in Seq(Job) /\ b \in Seq(Job) /\ Once(a)
      /\ \A j \in Job : Among(j, a) => Among(j, b) \/ \E x \in Places : Held[x] = j
  BY DEF PoolInv, JobLedger, Ledger
<1> HIDE DEF a, b
<1>2. /\ Len(a) \in Nat /\ DOMAIN a = 1..Len(a) /\ Len(b) \in Nat /\ DOMAIN b = 1..Len(b)
      /\ IsFiniteSet(DOMAIN a) /\ Cardinality(DOMAIN a) = Len(a)
      /\ IsFiniteSet(DOMAIN b) /\ Cardinality(DOMAIN b) = Len(b)
  <2>1. /\ Len(a) \in Nat /\ DOMAIN a = 1..Len(a) /\ Len(b) \in Nat /\ DOMAIN b = 1..Len(b)
    BY <1>1
  <2>2. \A m \in Nat : IsFiniteSet(1..m) /\ Cardinality(1..m) = m
    <3> TAKE m \in Nat
    <3>1. IsFiniteSet(1..m) /\ Cardinality(1..m) = IF 1 > m THEN 0 ELSE m - 1 + 1
      BY FS_Interval
    <3> QED BY <3>1
  <2> QED BY <2>1, <2>2
<1>3. Cardinality(gone) <= Len(b)
  <2>1. \A p \in gone : where[p] \in DOMAIN b /\ b[where[p]] = a[p]
    BY <1>2 DEF Among
  <2>2. \A p, k \in gone : where[p] = where[k] => p = k
    BY <1>1, <1>2, <2>1 DEF Once
  <2> HIDE DEF gone
  <2>3. where \in Injection(gone, DOMAIN b)
    <3>1. where \in [gone -> DOMAIN b]
      BY <2>1
    <3> QED BY <2>2, <3>1 DEF Injection, IsInjective
  <2> HIDE DEF where
  <2> QED BY <1>2, <2>3, FS_Injection
<1>4. /\ IsFiniteSet(Places) /\ Cardinality(Places) = Cardinality(Worker) + 1
      /\ Cardinality(Worker) \in Nat
  BY PoolAssumption, FS_AddElement, FS_CardinalityType DEF Places
<1>5. Cardinality(open) <= Cardinality(Places)
  <2>1. \A p \in open : who[p] \in Places /\ Held[who[p]] = a[p]
    <3> TAKE p \in open
    <3>1. a[p] \in Job /\ Among(a[p], a) /\ ~Among(a[p], b)
      BY <1>1, <1>2 DEF Among
    <3> QED BY <1>1, <3>1
  <2>2. \A p, k \in open : who[p] = who[k] => p = k
    BY <1>1, <1>2, <2>1 DEF Once
  <2> HIDE DEF open
  <2>3. who \in Injection(open, Places)
    <3>1. who \in [open -> Places]
      BY <2>1
    <3> QED BY <2>2, <3>1 DEF Injection, IsInjective
  <2> HIDE DEF who
  <2> QED BY <1>4, <2>3, FS_Injection
<1>6. Cardinality(open) = Len(a) - Cardinality(gone) /\ Cardinality(gone) \in Nat
  <2>1. DOMAIN a \cap gone = gone /\ gone \in SUBSET DOMAIN a
    OBVIOUS
  <2>2. IsFiniteSet(gone)
    BY <1>2, <2>1, FS_Subset
  <2>3. Cardinality(open) = Cardinality(DOMAIN a) - Cardinality(DOMAIN a \cap gone)
    <3> HIDE DEF gone
    <3> QED BY <1>2, FS_Difference
  <2> HIDE DEF gone, open
  <2> QED BY <1>2, <2>1, <2>2, <2>3, FS_CardinalityType
<1> HIDE DEF gone, open
<1>7. Len(a) - Len(b) <= Cardinality(Worker) + 1
  BY <1>2, <1>3, <1>4, <1>5, <1>6
<1> QED BY <1>7 DEF PoolBackpressure, a, b

\* What the invariant says of the jobs.
LEMMA PoolInvFacts == PoolInv => JobsKept
<1>1. ASSUME PoolInv PROVE JobIdsFresh
  <2>1. thist.accepted \in Seq(Job) /\ Once(thist.accepted)
    BY <1>1 DEF PoolInv, JobLedger, Ledger
  <2>2. DOMAIN thist.accepted = 1..Len(thist.accepted)
    BY <2>1
  <2> QED BY <2>1, <2>2 DEF Once, JobIdsFresh
<1> QED BY <1>1, OnePlace, Backlog DEF JobsKept

\* JobsKept, for every number of workers and of jobs: a job that submit() got rid of is in
\* exactly one place until it is collected, ids are fresh, and no more jobs are under way
\* than the workers and the sleeping submit() can have (submit, the worker loop, collect).
THEOREM JobsAreKept == PoolSpec => []JobsKept
<1>1. PoolInit => PoolInv
  BY PoolInitInv
<1>2. PoolInv /\ [PoolNext]_poolVars => PoolInv'
  BY PoolStep
<1>3. PoolInv => JobsKept
  BY PoolInvFacts
<1> QED BY <1>1, <1>2, <1>3, PTL DEF PoolSpec

\* The types of a pool: the threads of its channels are the places a job can be in.
LEMMA PoolTypes == PoolInv => PoolTypeOK
<1> SUFFICES ASSUME PoolInv PROVE PoolTypeOK
  OBVIOUS
<1>1. Task!TypeOK
  <2>1. TaskProof!TypeOK
    BY DEF PoolInv, TaskProof!Inv
  <2> QED BY <2>1 DEF Task!TypeOK, TaskProof!TypeOK, Task!ChanRec, TaskProof!ChanRec,
             Task!ChanWaiter, TaskProof!ChanWaiter, Task!History, TaskProof!History,
             Task!Payload, TaskProof!Payload, Task!Thread, TaskProof!Thread,
             Task!RingOK, TaskProof!RingOK
<1>2. Result!TypeOK
  <2>1. ResultProof!TypeOK
    BY DEF PoolInv, ResultProof!Inv
  <2> QED BY <2>1 DEF Result!TypeOK, ResultProof!TypeOK, Result!ChanRec, ResultProof!ChanRec,
             Result!ChanWaiter, ResultProof!ChanWaiter, Result!History, ResultProof!History,
             Result!Payload, ResultProof!Payload, Result!Thread, ResultProof!Thread,
             Result!RingOK, ResultProof!RingOK
<1>3. running \in BOOLEAN /\ jobseq \in 0..MaxJobs /\ worker \in [Worker -> WorkerState]
  BY DEF PoolInv, PoolRoles
<1> QED BY <1>1, <1>2, <1>3 DEF PoolTypeOK, WorkerState

(***************************************************************************)
(* The three of them side by side.                                         *)
(***************************************************************************)
\* The mutex table, a barrier and a pool beside each other: all three keep their types and
\* what their own theorems say, as long as neither table moves under a call in progress (the
\* records of hphp_thr.c and of Pool).
THEOREM TypesAreKept ==
  ConSpec /\ MoveUnderUse = FALSE /\ MoveUnderWaiters = FALSE
    => [](TypesOK /\ Exclusive /\ RoundsApart /\ JobsKept)
<1> SUFFICES ASSUME MoveUnderUse = FALSE, MoveUnderWaiters = FALSE
             PROVE  ConSpec => [](TypesOK /\ Exclusive /\ RoundsApart /\ JobsKept)
  OBVIOUS
<1> DEFINE AllInv == MutexInv /\ BarrierInv /\ PoolInv
<1>1. ConInit => AllInv
  BY MutexInitInv, BarrierInitInv, PoolInitInv DEF ConInit
<1>2. AllInv /\ [ConNext]_conVars => AllInv'
  <2> SUFFICES ASSUME AllInv, [ConNext]_conVars PROVE AllInv'
    OBVIOUS
  <2>1. [MutexNext]_mutexVars /\ [BarrierNext]_barrierVars /\ [PoolNext]_poolVars
    BY DEF ConNext, conVars
  <2>2. MutexInv'
    BY <2>1, MutexStep
  <2>3. BarrierInv'
    BY <2>1, BarrierStep
  <2>4. PoolInv'
    BY <2>1, PoolStep
  <2> QED BY <2>2, <2>3, <2>4
<1>3. AllInv => TypesOK /\ Exclusive /\ RoundsApart /\ JobsKept
  BY BarrierInvFacts, PoolTypes, PoolInvFacts DEF MutexInv, TypesOK
<1> QED BY <1>1, <1>2, <1>3, PTL DEF ConSpec
=============================================================================
