------------------------------ MODULE HashMap ------------------------------
(***************************************************************************)
(* A PHP map of runtime/hphp_rt.c: an harr with is_map set, its keys in    *)
(* insertion order and, from MinIndex keys on, an open-addressing index    *)
(* over them.  A value sits beside its key and every operation moves the   *)
(* two together, so only keys are kept.  The slots from len on still hold  *)
(* whatever was last written to them, and an index entry that was not      *)
(* removed still leads there.                                              *)
(*                                                                         *)
(* Lists (is_map = false) and their conversion to maps are not modelled.   *)
(***************************************************************************)
EXTENDS Integers, FiniteSets

CONSTANTS
  MaxKey,        \* bound: keys are the integers 0..MaxKey
  MaxLen,        \* bound: length of the map
  Hash,          \* Hash[k]: the hash of key k
  MinIndex,      \* the length from which a map is indexed (12)
  FirstICap,     \* the size of its first index (32)
  Careful        \* does the program keep off what the index does not follow?

Key == 0..MaxKey

ASSUME MapAssumption ==
  /\ MaxKey \in Nat /\ MaxLen \in Nat
  /\ Hash \in [Key -> Nat]
  /\ MinIndex \in Nat \ {0} /\ FirstICap \in Nat
  /\ MinIndex + FirstICap \div 2 < FirstICap
  /\ Careful \in BOOLEAN

VARIABLES
  keys,          \* keys[s], s from 0: the key written to slot s, NoKeyYet if none was
  len,           \* the slots in use are 0..len-1
  next_index,    \* the key of the next push
  ix             \* the index: its entries e, their number cap, and budget

hashVars == <<keys, len, next_index, ix>>

NoKeyYet == -1
Slot == 0..(MaxLen - 1)
Live == 0..(len - 1)

(***************************************************************************)
(* The index.  An entry is 0 (empty), Tomb (removed) or a slot plus 1.  A  *)
(* map that has no index yet has cap = 0.                                  *)
(***************************************************************************)
Tomb == -1
NoIndex == [e |-> <<>>, cap |-> 0, budget |-> 0]
Indexed == ix.cap > 0

\* The p-th entry on the probe path of key k.
SlotAt(x, k, p) == (Hash[k] + p) % x.cap

\* The first p on k's probe path whose entry is in the set stop.
FirstOn(x, k, stop) ==
  CHOOSE p \in 0..(x.cap - 1) :
    x.e[SlotAt(x, k, p)] \in stop /\ \A q \in 0..(p - 1) : x.e[SlotAt(x, k, q)] \notin stop

\* The entries of slots that hold key k, in use or not.
EntriesOf(k) == {s + 1 : s \in {r \in Slot : keys[r] = k}}

\* k is entered for slot s at the first free entry.
Put(x, k, s) ==
  LET p == FirstOn(x, k, {0, Tomb})
  IN  [x EXCEPT !.e[SlotAt(x, k, p)] = s + 1]

\* hp_arr_index_rebuild: the first n slots, one after the other.
Rebuild(ks, n, cap) ==
  LET put[i \in 0..n] ==
        IF i = 0 THEN [e |-> [j \in 0..(cap - 1) |-> 0], cap |-> cap, budget |-> cap \div 2]
        ELSE Put(put[i - 1], ks[i - 1], i - 1)
  IN  put[n]

\* hp_arr_index_add for slot s of a map of n keys.
IndexAdd(x, ks, n, s) ==
  LET x1 == IF x.cap > 0 THEN x ELSE Rebuild(ks, n, FirstICap)
      x2 == IF x1.budget > 0 THEN x1
            ELSE Rebuild(ks, n, IF 2 * n >= x1.cap THEN 2 * x1.cap ELSE x1.cap)
  IN  IF x.cap = 0 /\ n < MinIndex THEN x
      ELSE [Put(x2, ks[s], s) EXCEPT !.budget = x2.budget - 1]

\* hp_arr_index_del: the first entry for slot s on its key's path.
IndexDel(x, ks, s) ==
  LET p == FirstOn(x, ks[s], {0, s + 1})
      j == SlotAt(x, ks[s], p)
  IN  IF x.cap = 0 \/ x.e[j] = 0 THEN x ELSE [x EXCEPT !.e[j] = Tomb]

\* hp_key_index: the slot of key k, or -1.
KeyIndex(k) ==
  IF Indexed
  THEN LET p == FirstOn(ix, k, {0} \cup EntriesOf(k))
       IN  IF ix.e[SlotAt(ix, k, p)] = 0 THEN -1 ELSE ix.e[SlotAt(ix, k, p)] - 1
  ELSE IF \E s \in Live : keys[s] = k
       THEN CHOOSE s \in Live : keys[s] = k /\ \A r \in 0..(s - 1) : keys[r] # k
       ELSE -1

(***************************************************************************)
(* Operations.                                                             *)
(***************************************************************************)
HashInit ==
  /\ keys = [s \in Slot |-> NoKeyYet]
  /\ len = 0
  /\ next_index = 0
  /\ ix = NoIndex

\* hp_arr_set of a key that is not found; a found one only gets a new value.
Set(k) ==
  /\ len < MaxLen
  /\ KeyIndex(k) = -1
  /\ keys' = [keys EXCEPT ![len] = k]
  /\ len' = len + 1
  /\ ix' = IndexAdd(ix, keys', len', len)
  /\ next_index' = IF k >= next_index THEN k + 1 ELSE next_index

SlipUnsetKeepsEntry(k) ==
  LET i == KeyIndex(k)  last == len - 1
  IN  /\ i >= 0
      /\ IF i = last THEN UNCHANGED <<keys, ix>>
         ELSE /\ keys' = [keys EXCEPT ![i] = keys[last]]
              /\ UNCHANGED ix
      /\ len' = last
      /\ UNCHANGED next_index

\* hp_arr_unset: the last key moves into the freed slot.  len still counts it
\* while the index is brought up to date.  A careful program removes only keys it
\* holds; a stale entry found with len = 0 would make the code read keys[-1],
\* which ends the behaviour here.
Unset(k) ==
  LET i == KeyIndex(k)  last == len - 1
  IN  /\ i >= 0
      /\ IF Careful THEN i < len ELSE len > 0
      /\ IF i = last
         THEN /\ ix' = IndexDel(ix, keys, i)
              /\ UNCHANGED keys
         ELSE /\ keys' = [keys EXCEPT ![i] = keys[last]]
              /\ ix' = IF Indexed
                       THEN IndexAdd(IndexDel(IndexDel(ix, keys, i), keys, last),
                                     keys', len, i)
                       ELSE ix
      /\ len' = last
      /\ UNCHANGED next_index

\* Push, unshift, pop and shift do not follow the index, and a map of n keys
\* without an index gets one of FirstICap entries whatever n is: a careful
\* program moves slots only without an index and has maps without an index only
\* as large as the first index has room for.
MayMoveSlots == ~(Careful /\ Indexed)

FitsFirstIndex(n) == Careful => n + 1 + FirstICap \div 2 < FirstICap

\* hp_arr_push and hp_arr_unshift take the next integer key and leave the
\* index alone.
Push ==
  /\ MayMoveSlots /\ FitsFirstIndex(len + 1) /\ len < MaxLen /\ next_index <= MaxKey
  /\ keys' = [keys EXCEPT ![len] = next_index]
  /\ len' = len + 1
  /\ next_index' = next_index + 1
  /\ UNCHANGED ix

Unshift ==
  /\ MayMoveSlots /\ FitsFirstIndex(len + 1) /\ len < MaxLen /\ next_index <= MaxKey
  /\ keys' = [s \in Slot |-> IF s = 0 THEN next_index
                             ELSE IF s <= len THEN keys[s - 1] ELSE keys[s]]
  /\ len' = len + 1
  /\ next_index' = next_index + 1
  /\ UNCHANGED ix

\* hp_arr_pop and hp_arr_shift leave the index alone.
Pop ==
  /\ MayMoveSlots /\ len > 0
  /\ len' = len - 1
  /\ UNCHANGED <<keys, next_index, ix>>

Shift ==
  /\ MayMoveSlots /\ len > 0
  /\ keys' = [s \in Slot |-> IF s < len - 1 THEN keys[s + 1] ELSE keys[s]]
  /\ len' = len - 1
  /\ UNCHANGED <<next_index, ix>>

\* The program goes on with a copy (hp_arr_clone): no index, nothing behind len.
Clone ==
  /\ FitsFirstIndex(len)
  /\ keys' = [s \in Slot |-> IF s < len THEN keys[s] ELSE NoKeyYet]
  /\ ix' = NoIndex
  /\ UNCHANGED <<len, next_index>>

HashNext ==
  \/ \E k \in Key : Set(k) \/ Unset(k)
  \/ Push \/ Unshift \/ Pop \/ Shift \/ Clone

HashSpec == HashInit /\ [][HashNext]_hashVars

(***************************************************************************)
(* Properties.                                                             *)
(***************************************************************************)
\* Every variable has its type.
HashTypeOK ==
  /\ keys \in [Slot -> Key \cup {NoKeyYet}]
  /\ len \in 0..MaxLen
  /\ next_index \in 0..(MaxKey + 1)
  /\ ix = NoIndex \/ ix.e \in [0..(ix.cap - 1) -> {Tomb} \cup 0..MaxLen]

\* A key the map holds is found, at its slot, whatever removals, moves,
\* tombstones and rebuilds came before.
FindsLive == \A s \in Live : KeyIndex(keys[s]) = s

\* No key is held twice.
KeysDistinct == \A r, s \in Live : keys[r] = keys[s] => r = s

\* Every probe comes to an end: the index keeps an empty entry, through
\* insertions, removals that leave tombstones, and rebuilds.
ProbesEnd == Indexed => \E j \in 0..(ix.cap - 1) : ix.e[j] = 0

\* hp_arr_unset "preserves the hash index": what is found is in the map.
NoGhosts == \A k \in Key : KeyIndex(k) < len

\* The index is right: keys are found where they are, once, and every probe ends
\* (hp_arr_set, hp_arr_unset, hp_idx_add, hp_idx_build).
IndexRight == HashTypeOK /\ FindsLive /\ KeysDistinct /\ ProbesEnd
=============================================================================
