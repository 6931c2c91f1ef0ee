------------------------- MODULE ParallelMap_proofs ------------------------
(***************************************************************************)
(* Proofs about ParallelMap, for every length of the input, every worker   *)
(* count and every number of slots for thread handles.                     *)
(***************************************************************************)
EXTENDS ParallelMap, FiniteSetTheorems, TLAPS

(***************************************************************************)
(* The inductive invariant.                                                *)
(***************************************************************************)
MapTypeOK ==
  /\ n \in 0..MaxItems /\ workers \in 0..PtsLen /\ i \in 0..n
  /\ phase \in {"before", "launch", "collect", "empty", "done"}
  /\ phase = "before" => accepted = <<>> /\ taken = <<>> /\ n = 0
  /\ pts \in Seq(Item) /\ busy \subseteq 0..(i - 1)
  /\ slots \in [0..(n - 1) -> -1..(MaxItems - 1)]
  /\ accepted \in Seq(Item) /\ taken \in Seq(Item)

\* The handles are of launched threads, whose number the worker count bounds; who is busy
\* has one.
HandlesSound ==
  /\ Len(pts) <= i /\ Len(pts) <= workers
  /\ \A k \in busy : \E p \in DOMAIN pts : pts[p] = k

\* An item the loop is past is running, was sent once, or was skipped.
SentOnce == Len(accepted) + Cardinality(busy) <= i

\* A slot is empty or holds its own item.
SlotsOwn == \A k \in 0..(n - 1) : slots[k] \in {-1, k}

\* A finished call has stored as many results as there are items.
AllStored == phase = "done" => \A k \in 0..(n - 1) : slots[k] = k

MapInv == MapTypeOK /\ HandlesSound /\ SentOnce /\ SlotsOwn /\ AllStored /\ NoneLeftBehind

(***************************************************************************)
(* Lemmas.                                                                 *)
(***************************************************************************)
\* The clamped worker count never exceeds the slots for handles (thr_parallel_map).
LEMMA ClampBound ==
  ASSUME NEW w \in Int, NEW len \in Nat
  PROVE  Clamp(w, len) \in 0..PtsLen /\ Clamp(w, len) <= len
BY MapAssumption DEF Clamp

\* The threads that run are finitely many.
LEMMA BusyFinite == MapTypeOK => IsFiniteSet(busy) /\ Cardinality(busy) \in Nat
<1> SUFFICES ASSUME MapTypeOK PROVE IsFiniteSet(busy) /\ Cardinality(busy) \in Nat
  OBVIOUS
<1>1. i - 1 \in Int /\ 0 \in Int
  BY DEF MapTypeOK
<1>2. IsFiniteSet(0..(i - 1))
  BY <1>1, FS_Interval
<1>3. IsFiniteSet(busy)
  BY <1>2, FS_Subset DEF MapTypeOK
<1> QED BY <1>3, FS_CardinalityType

\* As many filled slots as there are slots means all are filled.
LEMMA AllFilled ==
  ASSUME MapTypeOK, SlotsOwn, Got = n
  PROVE  \A k \in 0..(n - 1) : slots[k] = k
<1> DEFINE Filled == {k \in 0..(n - 1) : slots[k] # -1}
<1>1. n \in Nat /\ n - 1 \in Int /\ 0 \in Int
  BY MapAssumption DEF MapTypeOK
<1>2. IsFiniteSet(0..(n - 1)) /\ Cardinality(0..(n - 1)) = IF 0 > n - 1 THEN 0 ELSE n - 1 - 0 + 1
  BY <1>1, FS_Interval
<1>3. Cardinality(0..(n - 1)) = n
  BY <1>1, <1>2
<1>4. Cardinality(Filled) = n
  BY DEF Got
<1>5. Filled \in SUBSET (0..(n - 1))
  OBVIOUS
<1> HIDE DEF Filled
<1>6. Filled = 0..(n - 1)
  BY <1>2, <1>3, <1>4, <1>5, FS_Subset
<1> QED BY <1>6 DEF Filled, SlotsOwn

(***************************************************************************)
(* The steps.                                                              *)
(***************************************************************************)
\* Nothing has happened.
LEMMA MapInitInv == MapInit => MapInv
<1> SUFFICES ASSUME MapInit PROVE MapInv
  OBVIOUS
<1>1. MapTypeOK
  BY MapAssumption DEF MapInit, MapTypeOK, Chan!Init, Item
<1>2. HandlesSound
  BY DEF MapInit, HandlesSound
<1>3. SentOnce
  BY FS_EmptySet DEF MapInit, SentOnce, Chan!Init
<1> QED BY <1>1, <1>2, <1>3 DEF MapInit, MapInv, SlotsOwn, AllStored, NoneLeftBehind

\* The input arrives.
LEMMA CallKeeps == ASSUME MapInv, Call1 PROVE MapInv'
<1>1. PICK w \in -1..(MaxItems + 1) : workers' = Clamp(w, n')
  BY DEF Call1
<1>2. n' \in 1..MaxItems /\ slots' = [k \in 0..(n' - 1) |-> -1] /\ phase = "before" /\ phase' = "launch"
      /\ UNCHANGED <<i, skipped, pts, busy, accepted, taken>>
  BY DEF Call1, chan
<1>3. n = 0 /\ accepted = <<>> /\ i = 0
  BY <1>2, MapAssumption DEF MapInv, MapTypeOK
<1>4. workers' \in 0..PtsLen
  BY <1>1, <1>2, ClampBound, MapAssumption
<1>5. MapTypeOK'
  BY <1>2, <1>3, <1>4, MapAssumption DEF MapInv, MapTypeOK
<1>6. HandlesSound'
  BY <1>2, <1>3, <1>4 DEF MapInv, MapTypeOK, HandlesSound
<1>7. SentOnce' /\ SlotsOwn' /\ AllStored' /\ NoneLeftBehind'
  BY <1>2 DEF MapInv, SentOnce, SlotsOwn, AllStored, NoneLeftBehind
<1> QED BY <1>5, <1>6, <1>7 DEF MapInv

\* A thread is launched.
LEMMA LaunchKeeps == ASSUME MapInv, Launch PROVE MapInv'
<1>1. /\ phase = "launch" /\ i < n /\ i < workers /\ pts' = Append(pts, i) /\ busy' = busy \cup {i}
      /\ i' = i + 1 /\ UNCHANGED <<n, workers, phase, slots, accepted, taken>>
  BY DEF Launch, chan
<1>2. i \in Item /\ i \in Nat /\ n \in Nat /\ n <= MaxItems /\ MaxItems \in Nat
  BY <1>1, MapAssumption DEF MapInv, MapTypeOK, Item
<1>3. pts' \in Seq(Item) /\ Len(pts') = Len(pts) + 1
      /\ (\A p \in DOMAIN pts : pts'[p] = pts[p]) /\ pts'[Len(pts) + 1] = i
      /\ DOMAIN pts' = 1..(Len(pts) + 1) /\ DOMAIN pts = 1..Len(pts) /\ Len(pts) \in Nat
  BY <1>1, <1>2 DEF MapInv, MapTypeOK
<1>4. busy' \subseteq 0..(i' - 1) /\ i' \in 0..n
  BY <1>1, <1>2 DEF MapInv, MapTypeOK
<1>5. MapTypeOK'
  BY <1>1, <1>3, <1>4 DEF MapInv, MapTypeOK
<1>6. HandlesSound'
  <2>1. Len(pts') <= i' /\ Len(pts') <= workers'
    BY <1>1, <1>2, <1>3 DEF MapInv, MapTypeOK, HandlesSound
  <2>2. \A k \in busy' : \E p \in DOMAIN pts' : pts'[p] = k
    <3> SUFFICES ASSUME NEW k \in busy' PROVE \E p \in DOMAIN pts' : pts'[p] = k
      OBVIOUS
    <3>1. CASE k = i
      <4>1. Len(pts) + 1 \in DOMAIN pts'
        BY <1>3
      <4> QED BY <3>1, <4>1, <1>3
    <3>2. CASE k # i
      <4>1. PICK p \in DOMAIN pts : pts[p] = k
        BY <3>2, <1>1 DEF MapInv, HandlesSound
      <4>2. p \in DOMAIN pts'
        BY <1>3
      <4> QED BY <4>1, <4>2, <1>3
    <3> QED BY <3>1, <3>2
  <2> QED BY <2>1, <2>2 DEF HandlesSound
<1>7. SentOnce'
  <2>1. i \notin busy
    BY <1>2 DEF MapInv, MapTypeOK
  <2>2. Cardinality(busy') = Cardinality(busy) + 1
    BY <2>1, <1>1, BusyFinite, FS_AddElement DEF MapInv
  <2>3. Cardinality(busy) \in Nat /\ Len(accepted) \in Nat
    BY BusyFinite DEF MapInv, MapTypeOK
  <2> QED BY <2>2, <2>3, <1>1, <1>2 DEF MapInv, SentOnce
<1>8. SlotsOwn' /\ AllStored' /\ NoneLeftBehind'
  BY <1>1 DEF MapInv, SlotsOwn, AllStored, NoneLeftBehind
<1> QED BY <1>5, <1>6, <1>7, <1>8 DEF MapInv

\* An item is skipped.
LEMMA SkipKeeps == ASSUME MapInv, LaunchFails PROVE MapInv'
<1>1. /\ phase = "launch" /\ i < n /\ i' = i + 1
      /\ UNCHANGED <<n, workers, phase, pts, busy, slots, accepted, taken>>
  BY DEF LaunchFails, chan
<1>2. i \in Nat /\ n \in Nat /\ Len(accepted) \in Nat /\ Len(pts) \in Nat /\ Cardinality(busy) \in Nat
  BY MapAssumption, BusyFinite DEF MapInv, MapTypeOK
<1>3. MapTypeOK'
  BY <1>1, <1>2 DEF MapInv, MapTypeOK
<1>4. HandlesSound' /\ SentOnce'
  BY <1>1, <1>2 DEF MapInv, HandlesSound, SentOnce
<1> QED BY <1>1, <1>3, <1>4 DEF MapInv, SlotsOwn, AllStored, NoneLeftBehind

\* A result is sent, by the caller for the next item or by a thread for its own.
LEMMA SendsKeep == ASSUME MapInv, RunInline \/ \E k \in Item : WorkerSends(k) PROVE MapInv'
<1>1. CASE RunInline
  <2>1. /\ phase = "launch" /\ i < n /\ i' = i + 1 /\ accepted' = Append(accepted, i)
        /\ UNCHANGED <<n, workers, phase, pts, busy, slots, taken>>
    BY <1>1 DEF RunInline, Chan!Accept
  <2>2. i \in Item /\ i \in Nat /\ n \in Nat
    BY <2>1, MapAssumption DEF MapInv, MapTypeOK, Item
  <2>3. accepted' \in Seq(Item) /\ Len(accepted') = Len(accepted) + 1 /\ Len(accepted) \in Nat
    BY <2>1, <2>2 DEF MapInv, MapTypeOK
  <2>4. Len(pts) \in Nat /\ Cardinality(busy) \in Nat
    BY BusyFinite DEF MapInv, MapTypeOK
  <2>5. MapTypeOK'
    BY <2>1, <2>2, <2>3 DEF MapInv, MapTypeOK
  <2>6. HandlesSound' /\ SentOnce'
    BY <2>1, <2>2, <2>3, <2>4 DEF MapInv, HandlesSound, SentOnce
  <2> QED BY <2>1, <2>5, <2>6 DEF MapInv, SlotsOwn, AllStored, NoneLeftBehind
<1>2. ASSUME NEW k \in Item, WorkerSends(k) PROVE MapInv'
  <2>1. /\ k \in busy /\ busy' = busy \ {k} /\ accepted' = Append(accepted, k)
        /\ UNCHANGED <<n, workers, i, phase, pts, slots, taken>>
    BY <1>2 DEF WorkerSends, Chan!Accept
  <2>2. accepted' \in Seq(Item) /\ Len(accepted') = Len(accepted) + 1 /\ Len(accepted) \in Nat
    BY <2>1 DEF MapInv, MapTypeOK
  <2>3. Cardinality(busy') = Cardinality(busy) - 1 /\ Cardinality(busy) \in Nat
    BY <2>1, BusyFinite, FS_RemoveElement DEF MapInv
  <2>4. phase \notin {"before", "done"}
    BY <2>1 DEF MapInv, MapTypeOK, NoneLeftBehind
  <2>5. MapTypeOK'
    BY <2>1, <2>2, <2>4 DEF MapInv, MapTypeOK
  <2>6. HandlesSound' /\ SentOnce'
    BY <2>1, <2>2, <2>3 DEF MapInv, MapTypeOK, HandlesSound, SentOnce
  <2> QED BY <2>1, <2>5, <2>6 DEF MapInv, SlotsOwn, AllStored, NoneLeftBehind
<1> QED BY <1>1, <1>2

\* Every thread is joined, so none is busy.
LEMMA JoinKeeps == ASSUME MapInv, JoinAll PROVE MapInv'
<1>1. busy = {}
  BY DEF JoinAll, MapInv, HandlesSound
<1>2. phase = "launch" /\ phase' = "collect" /\ UNCHANGED <<n, workers, i, pts, busy, slots, accepted, taken>>
  BY DEF JoinAll, chan
<1>3. MapTypeOK' /\ HandlesSound' /\ SentOnce' /\ SlotsOwn'
  BY <1>2 DEF MapInv, MapTypeOK, HandlesSound, SentOnce, SlotsOwn
<1> QED BY <1>1, <1>2, <1>3 DEF MapInv, AllStored, NoneLeftBehind

\* A result is received and stored under its index.
LEMMA CollectKeeps == ASSUME MapInv, CollectOne PROVE MapInv'
<1>1. /\ phase = "collect" /\ Len(taken) < Len(accepted) /\ taken' = Append(taken, Arriving)
      /\ slots' = [slots EXCEPT ![Arriving] = Arriving]
      /\ UNCHANGED <<n, workers, i, phase, pts, busy, accepted>>
  BY DEF CollectOne, Store, Chan!Take, Arriving
<1>2. Len(taken) + 1 \in DOMAIN accepted /\ Arriving \in Item
  <2>1. Len(taken) \in Nat /\ Len(accepted) \in Nat /\ DOMAIN accepted = 1..Len(accepted)
    BY DEF MapInv, MapTypeOK
  <2>2. Len(taken) + 1 \in 1..Len(accepted)
    BY <2>1, <1>1
  <2> QED BY <2>1, <2>2 DEF MapInv, MapTypeOK, Arriving
<1> DEFINE a == Arriving
<1>3. a \in -1..(MaxItems - 1)
  BY <1>2, MapAssumption DEF Item
<1>4. slots' = [slots EXCEPT ![a] = a] /\ taken' = Append(taken, a) /\ a \in Item
  BY <1>1, <1>2
<1> HIDE DEF a
<1>5. taken' \in Seq(Item) /\ slots' \in [0..(n - 1) -> -1..(MaxItems - 1)]
  <2>1. taken \in Seq(Item) /\ slots \in [0..(n - 1) -> -1..(MaxItems - 1)]
    BY DEF MapInv, MapTypeOK
  <2>2. taken' \in Seq(Item)
    BY <2>1, <1>4
  <2>3. slots' \in [0..(n - 1) -> -1..(MaxItems - 1)]
    BY <2>1, <1>3, <1>4
  <2> QED BY <2>2, <2>3
<1>6. MapTypeOK' /\ HandlesSound' /\ SentOnce'
  BY <1>1, <1>5 DEF MapInv, MapTypeOK, HandlesSound, SentOnce
<1>7. SlotsOwn'
  BY <1>1, <1>4 DEF MapInv, MapTypeOK, SlotsOwn
<1> QED BY <1>1, <1>6, <1>7 DEF MapInv, AllStored, NoneLeftBehind

\* The call returns with all results, or with an empty list.
LEMMA ReturnKeeps == ASSUME MapInv, NoSlots \/ Finish PROVE MapInv'
<1>1. /\ phase = "collect" /\ phase' \in {"empty", "done"}
      /\ UNCHANGED <<n, workers, i, pts, busy, slots, accepted, taken>>
  BY DEF NoSlots, Finish, Chan!Close
<1>2. MapTypeOK' /\ HandlesSound' /\ SentOnce' /\ SlotsOwn' /\ NoneLeftBehind'
  BY <1>1 DEF MapInv, MapTypeOK, HandlesSound, SentOnce, SlotsOwn, NoneLeftBehind
<1>3. AllStored'
  <2>1. CASE NoSlots
    BY <2>1 DEF NoSlots, AllStored
  <2>2. CASE Finish
    BY <2>2, <1>1, AllFilled DEF Finish, MapInv, AllStored
  <2> QED BY <2>1, <2>2
<1> QED BY <1>2, <1>3 DEF MapInv

(***************************************************************************)
(* The theorem.                                                            *)
(***************************************************************************)
\* In every state of the invariant the results are where they belong and the sends and
\* handles have room.
LEMMA MapInvFacts == MapInv => ResultsInPlace
<1> SUFFICES ASSUME MapInv PROVE ResultsInPlace
  OBVIOUS
<1>1. Cardinality(busy) \in Nat /\ Len(accepted) \in Nat /\ Len(taken) \in Nat /\ i \in Nat /\ n \in Nat /\ i <= n
  BY BusyFinite, MapAssumption DEF MapInv, MapTypeOK
<1>2. SendsFindRoom
  BY <1>1 DEF MapInv, SentOnce, SendsFindRoom
<1>3. HandlesFit
  BY MapAssumption DEF MapInv, MapTypeOK, HandlesSound, HandlesFit
<1> QED BY <1>2, <1>3 DEF MapInv, SlotsOwn, AllStored, OrderPreserved, ResultsInPlace

\* thr_parallel_map returns every item's result in the item's place, whatever the order in
\* which its threads end; no send on its channel can find it full, the handles fit pts[64]
\* for every worker count the caller passes, and no thread is left when the results are
\* collected (hphp_thr.c:727).
THEOREM MapKeepsOrder == MapSpec => []ResultsInPlace
<1>1. MapInit => MapInv
  BY MapInitInv
<1>2. MapInv /\ [MapNext]_mapVars => MapInv'
  <2> SUFFICES ASSUME MapInv, [MapNext]_mapVars PROVE MapInv'
    OBVIOUS
  <2>1. CASE UNCHANGED mapVars
    BY <2>1 DEF mapVars, MapInv, MapTypeOK, HandlesSound, SentOnce, SlotsOwn, AllStored, NoneLeftBehind
  <2>2. CASE MapNext
    BY <2>2, CallKeeps, LaunchKeeps, SkipKeeps, SendsKeep, JoinKeeps, CollectKeeps, ReturnKeeps DEF MapNext
  <2> QED BY <2>1, <2>2
<1>3. MapInv => ResultsInPlace
  BY MapInvFacts
<1> QED BY <1>1, <1>2, <1>3, PTL DEF MapSpec
=============================================================================
