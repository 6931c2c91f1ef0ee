--------------------------- MODULE HashMap_proofs ---------------------------
(***************************************************************************)
(* The index of a map finds every key at its slot (HashMap), for every     *)
(* hash function, size and number of keys, as long as the program keeps    *)
(* off what the index does not follow.                                     *)
(***************************************************************************)
EXTENDS HashMap, FiniteSetTheorems, WellFoundedInduction, TLAPS

\* A nonempty set of naturals has a least element: where a probe stops, and how far a
\* rebuild has come.
LEMMA LeastElement ==
  ASSUME NEW T, T \subseteq Nat, T # {}
  PROVE  \E x \in T : \A y \in T : x <= y
<1> DEFINE R == {ss \in Nat \X Nat : ss[1] < ss[2]}
<1>1. IsWellFoundedOn(R, Nat) BY NatLessThanWellFounded DEF OpToRel
<1> HIDE DEF R
<1>2. PICK x \in T : \A y \in T : ~ (<<y, x>> \in R)
  BY <1>1, WFMin
<1>3. ASSUME NEW y \in T PROVE x <= y
  <2>1. ~ (y < x)
    BY <1>2 DEF R
  <2> QED BY <2>1
<1> QED BY <1>3

\* What is congruent to a number below n leaves it as its remainder.
LEMMA Remainder ==
  ASSUME NEW n \in Nat \ {0}, NEW q \in Int, NEW r \in 0..(n - 1)
  PROVE  (n * q + r) % n = r
<1> DEFINE a == n * q + r
<1>1. a \in Int OBVIOUS
<1>2. PICK q2 \in Int, r2 \in 0..(n - 1) : a = n * q2 + r2 /\ (a % n) = r2
  <2>1. a = n * (a \div n) + (a % n) /\ (a % n) \in 0..(n - 1) /\ a \div n \in Int
    BY <1>1
  <2> HIDE DEF a
  <2> QED BY <2>1
<1>3. n * (q - q2) = r2 - r
  BY <1>2
<1>4. CASE q = q2
  BY <1>2, <1>4
<1>5. CASE q - q2 >= 1
  <2>1. n * (q - q2) >= n BY <1>5
  <2> QED BY <2>1, <1>3, <1>2
<1>6. CASE q - q2 <= -1
  <2>1. n * (q - q2) <= -n BY <1>6
  <2> QED BY <2>1, <1>3, <1>2
<1> QED BY <1>4, <1>5, <1>6, <1>2

\* The probe path from h passes every entry of an index of n.
LEMMA Around ==
  ASSUME NEW n \in Nat \ {0}, NEW h \in Nat, NEW j \in 0..(n - 1)
  PROVE  \E p \in 0..(n - 1) : (h + p) % n = j
<1>1. h = n * (h \div n) + (h % n) /\ (h % n) \in 0..(n - 1) /\ h \div n \in Int
  OBVIOUS
<1>2. CASE j >= (h % n)
  <2>1. j - (h % n) \in 0..(n - 1) /\ h + (j - (h % n)) = n * (h \div n) + j
    BY <1>1, <1>2
  <2>2. (n * (h \div n) + j) % n = j
    BY <1>1, Remainder
  <2> QED BY <2>1, <2>2
<1>3. CASE j < (h % n)
  <2>1. j + n - (h % n) \in 0..(n - 1) /\ h + (j + n - (h % n)) = n * (h \div n) + n + j
    BY <1>1, <1>3
  <2>2. n * (h \div n) + n = n * (h \div n + 1) /\ h \div n + 1 \in Int
    BY <1>1
  <2>3. (n * (h \div n + 1) + j) % n = j
    BY <2>2, Remainder
  <2> QED BY <2>1, <2>2, <2>3
<1> QED BY <1>1, <1>2, <1>3

(***************************************************************************)
(* What an index is, and that a key is reached on its probe path.          *)
(***************************************************************************)
Entry == {Tomb} \cup 0..MaxLen

IsIndex(x) ==
  /\ x.cap \in Nat \ {0}
  /\ x \in [e : [0..(x.cap - 1) -> Entry], cap : {x.cap}, budget : Nat]

\* The entry v leads to a slot that holds key k, in use or not.
Holds(ks, v, k) == v - 1 \in Slot /\ ks[v - 1] = k

\* The entries that do not end a probe.
Filled(x) == {j \in 0..(x.cap - 1) : x.e[j] # 0}

\* Nothing on the path of k before p ends a probe or leads to another slot than s for k.
Clear(x, ks, k, s, p) ==
  \A q \in 0..(p - 1) :
    /\ x.e[SlotAt(x, k, q)] # 0
    /\ Holds(ks, x.e[SlotAt(x, k, q)], k) => x.e[SlotAt(x, k, q)] = s + 1

\* The key in slot t is found there.
Reaches(x, ks, t) ==
  \E p \in 0..(x.cap - 1) : x.e[SlotAt(x, ks[t], p)] = t + 1 /\ Clear(x, ks, ks[t], t, p)

\* A new entry for slot s would be found.
Open(x, ks, s) ==
  \E p \in 0..(x.cap - 1) : x.e[SlotAt(x, ks[s], p)] \in {0, Tomb} /\ Clear(x, ks, ks[s], s, p)

\* There is room for the insertions the budget allows, and for rebuilding a map of n keys.
Roomy(x, n) ==
  /\ Cardinality(Filled(x)) + x.budget < x.cap
  /\ n + x.budget + 1 < x.cap

\* The contents of an index, field by field.
LEMMA IndexFields ==
  ASSUME NEW x, IsIndex(x)
  PROVE  /\ x.cap \in Nat \ {0} /\ x.budget \in Nat
         /\ x.e \in [0..(x.cap - 1) -> Entry]
         /\ \A j \in 0..(x.cap - 1) : x.e[j] \in Int
BY DEF IsIndex, Entry, Tomb

\* Every place of a probe is in the index.
LEMMA SlotInIndex ==
  ASSUME NEW x, x.cap \in Nat \ {0}, NEW k \in Key, NEW p \in Nat
  PROVE  SlotAt(x, k, p) \in 0..(x.cap - 1)
<1>1. Hash[k] + p \in Nat BY MapAssumption DEF Key
<1>2. ASSUME NEW a \in Nat, NEW n \in Nat \ {0} PROVE a % n \in 0..(n - 1)
  OBVIOUS
<1> QED BY <1>1, <1>2 DEF SlotAt

\* A probe for something the index has stops at the first place of the path that has it.
LEMMA Probe ==
  ASSUME NEW x, x.cap \in Nat \ {0}, NEW k \in Key, NEW stop,
         \E j \in 0..(x.cap - 1) : x.e[j] \in stop
  PROVE  /\ FirstOn(x, k, stop) \in 0..(x.cap - 1)
         /\ x.e[SlotAt(x, k, FirstOn(x, k, stop))] \in stop
         /\ \A q \in 0..(FirstOn(x, k, stop) - 1) : x.e[SlotAt(x, k, q)] \notin stop
<1> DEFINE T == {p \in 0..(x.cap - 1) : x.e[SlotAt(x, k, p)] \in stop}
<1>1. T # {}
  <2>1. PICK j \in 0..(x.cap - 1) : x.e[j] \in stop OBVIOUS
  <2>2. Hash[k] \in Nat BY MapAssumption DEF Key
  <2>3. PICK p \in 0..(x.cap - 1) : (Hash[k] + p) % x.cap = j
    BY <2>2, Around
  <2> QED BY <2>1, <2>3 DEF SlotAt
<1>2. T \subseteq Nat OBVIOUS
<1>3. PICK p \in T : \A y \in T : p <= y
  BY <1>1, <1>2, LeastElement
<1>4. p \in 0..(x.cap - 1) /\ x.e[SlotAt(x, k, p)] \in stop
  OBVIOUS
<1>5. \A q \in 0..(p - 1) : x.e[SlotAt(x, k, q)] \notin stop
  <2> SUFFICES ASSUME NEW q \in 0..(p - 1), x.e[SlotAt(x, k, q)] \in stop PROVE FALSE
    OBVIOUS
  <2>1. q \in T BY <1>4
  <2> QED BY <2>1, <1>3, <1>4
<1> QED BY <1>4, <1>5 DEF FirstOn

\* An index that is not full ends every probe.
LEMMA EmptyEntry ==
  ASSUME NEW x, IsIndex(x), Cardinality(Filled(x)) < x.cap
  PROVE  \E j \in 0..(x.cap - 1) : x.e[j] = 0
<1>1. x.cap \in Nat \ {0} BY IndexFields
<1>2. Cardinality(0..(x.cap - 1)) = x.cap
  BY <1>1, FS_Interval
<1>3. CASE \A j \in 0..(x.cap - 1) : x.e[j] # 0
  <2>1. Filled(x) = 0..(x.cap - 1) BY <1>3 DEF Filled
  <2> QED BY <2>1, <1>2, <1>1
<1> QED BY <1>3

\* The filled entries can be counted.
LEMMA FilledFinite ==
  ASSUME NEW x, IsIndex(x)
  PROVE  IsFiniteSet(Filled(x)) /\ Cardinality(Filled(x)) \in Nat
<1>1. x.cap \in Nat \ {0} BY IndexFields
<1>2. IsFiniteSet(0..(x.cap - 1)) BY <1>1, FS_Interval
<1>3. Filled(x) \subseteq 0..(x.cap - 1) BY DEF Filled
<1> QED BY <1>2, <1>3, FS_Subset, FS_CardinalityType

(***************************************************************************)
(* Entering a slot (Put) and removing it (IndexDel).                       *)
(***************************************************************************)
\* y is x with entry j set to v.
Rewritten(x, y, j, v) ==
  /\ IsIndex(y) /\ y.cap = x.cap /\ y.budget = x.budget
  /\ y.e = [x.e EXCEPT ![j] = v]

\* Setting one entry leaves an index.
LEMMA Rewriting ==
  ASSUME NEW x, IsIndex(x), NEW j \in 0..(x.cap - 1), NEW v \in Entry
  PROVE  Rewritten(x, [x EXCEPT !.e[j] = v], j, v)
<1> DEFINE y == [x EXCEPT !.e[j] = v]
<1>1. x \in [e : [0..(x.cap - 1) -> Entry], cap : {x.cap}, budget : Nat] BY DEF IsIndex
<1>2. y.cap = x.cap /\ y.budget = x.budget /\ y.e = [x.e EXCEPT ![j] = v]
  BY <1>1
<1>3. [x.e EXCEPT ![j] = v] \in [0..(x.cap - 1) -> Entry]
  BY <1>1
<1>4. y \in [e : [0..(x.cap - 1) -> Entry], cap : {x.cap}, budget : Nat]
  BY <1>1, <1>2, <1>3
<1>5. y \in [e : [0..(y.cap - 1) -> Entry], cap : {y.cap}, budget : Nat]
  BY <1>2, <1>4
<1>6. x.cap \in Nat \ {0} BY IndexFields
<1> HIDE DEF y
<1>7. IsIndex(y) BY <1>2, <1>5, <1>6 DEF IsIndex
<1>8. Rewritten(x, y, j, v) BY <1>2, <1>7 DEF Rewritten
<1> QED BY <1>8 DEF y

\* An insertion takes the first entry of the path that is empty or removed.
LEMMA PutTakes ==
  ASSUME NEW x, IsIndex(x), Cardinality(Filled(x)) < x.cap, NEW k \in Key, NEW s \in Slot
  PROVE  \E p \in 0..(x.cap - 1) :
           /\ x.e[SlotAt(x, k, p)] \in {0, Tomb}
           /\ \A q \in 0..(p - 1) : x.e[SlotAt(x, k, q)] \notin {0, Tomb}
           /\ Rewritten(x, Put(x, k, s), SlotAt(x, k, p), s + 1)
<1> DEFINE p == FirstOn(x, k, {0, Tomb})
<1>1. x.cap \in Nat \ {0} BY IndexFields
<1>2. \E j \in 0..(x.cap - 1) : x.e[j] \in {0, Tomb}
  BY EmptyEntry
<1>3. /\ p \in 0..(x.cap - 1)
      /\ x.e[SlotAt(x, k, p)] \in {0, Tomb}
      /\ \A q \in 0..(p - 1) : x.e[SlotAt(x, k, q)] \notin {0, Tomb}
  BY <1>1, <1>2, Probe
<1>4. s + 1 \in Entry BY MapAssumption DEF Slot, Entry
<1>5. SlotAt(x, k, p) \in 0..(x.cap - 1) BY <1>1, <1>3, SlotInIndex
<1>6. Rewritten(x, [x EXCEPT !.e[SlotAt(x, k, p)] = s + 1], SlotAt(x, k, p), s + 1)
  BY <1>4, <1>5, Rewriting
<1>7. Put(x, k, s) = [x EXCEPT !.e[SlotAt(x, k, p)] = s + 1]
  BY DEF Put
<1> HIDE DEF p
<1> QED BY <1>3, <1>6, <1>7

\* An insertion fills at most one entry more.
LEMMA PutFills ==
  ASSUME NEW x, IsIndex(x), Cardinality(Filled(x)) < x.cap, NEW k \in Key, NEW s \in Slot
  PROVE  /\ IsIndex(Put(x, k, s)) /\ Put(x, k, s).cap = x.cap /\ Put(x, k, s).budget = x.budget
         /\ Cardinality(Filled(Put(x, k, s))) <= Cardinality(Filled(x)) + 1
         /\ \A j \in 0..(x.cap - 1) : Put(x, k, s).e[j] \in {x.e[j], s + 1}
<1>1. x.cap \in Nat \ {0} /\ x.e \in [0..(x.cap - 1) -> Entry] BY IndexFields
<1>2. PICK p \in 0..(x.cap - 1) : Rewritten(x, Put(x, k, s), SlotAt(x, k, p), s + 1)
  BY PutTakes
<1>3. SlotAt(x, k, p) \in 0..(x.cap - 1) BY <1>1, SlotInIndex
<1>4. PICK j : j = SlotAt(x, k, p) OBVIOUS
<1>5. PICK y : y = Put(x, k, s) OBVIOUS
<1>6. IsIndex(y) /\ y.cap = x.cap /\ y.budget = x.budget /\ y.e = [x.e EXCEPT ![j] = s + 1]
  BY <1>2, <1>4, <1>5 DEF Rewritten
<1>7. \A i \in 0..(x.cap - 1) : y.e[i] = IF i = j THEN s + 1 ELSE x.e[i]
  BY <1>1, <1>3, <1>4, <1>6
<1>8. s + 1 # 0 BY MapAssumption DEF Slot
<1>9. Filled(y) = Filled(x) \cup {j}
  BY <1>3, <1>4, <1>6, <1>7, <1>8 DEF Filled
<1>10. IsFiniteSet(Filled(x)) /\ Cardinality(Filled(x)) \in Nat BY FilledFinite
<1>11. Cardinality(Filled(y)) <= Cardinality(Filled(x)) + 1
  <2>1. Cardinality(Filled(x) \cup {j}) = IF j \in Filled(x) THEN Cardinality(Filled(x)) ELSE Cardinality(Filled(x)) + 1
    BY <1>10, FS_AddElement
  <2> QED BY <2>1, <1>9, <1>10
<1> QED BY <1>5, <1>6, <1>7, <1>11

\* An insertion for slot s hides no other key, and not its own.
LEMMA PutKeeps ==
  ASSUME NEW x, IsIndex(x), Cardinality(Filled(x)) < x.cap, NEW ks, NEW s \in Slot, NEW t \in Slot,
         ks[s] \in Key, ks[t] \in Key, t = s \/ ks[s] # ks[t],
         Reaches(x, ks, t)
  PROVE  Reaches(Put(x, ks[s], s), ks, t)
<1>1. x.cap \in Nat \ {0} /\ x.e \in [0..(x.cap - 1) -> Entry] BY IndexFields
<1>2. PICK p0 \in 0..(x.cap - 1) :
        /\ x.e[SlotAt(x, ks[s], p0)] \in {0, Tomb}
        /\ Rewritten(x, Put(x, ks[s], s), SlotAt(x, ks[s], p0), s + 1)
  BY PutTakes
<1>3. PICK j : j = SlotAt(x, ks[s], p0) OBVIOUS
<1>4. j \in 0..(x.cap - 1) BY <1>1, <1>3, SlotInIndex
<1>5. PICK y : y = Put(x, ks[s], s) OBVIOUS
<1>6. y.cap = x.cap /\ y.e = [x.e EXCEPT ![j] = s + 1]
  BY <1>2, <1>3, <1>5 DEF Rewritten
<1>7. \A i \in 0..(x.cap - 1) : y.e[i] = IF i = j THEN s + 1 ELSE x.e[i]
  BY <1>1, <1>4, <1>6
<1>8. PICK p \in 0..(x.cap - 1) : x.e[SlotAt(x, ks[t], p)] = t + 1 /\ Clear(x, ks, ks[t], t, p)
  BY DEF Reaches
<1>9. \A q \in 0..p : SlotAt(y, ks[t], q) = SlotAt(x, ks[t], q) /\ SlotAt(x, ks[t], q) \in 0..(x.cap - 1)
  <2>1. ASSUME NEW q \in 0..p PROVE SlotAt(x, ks[t], q) \in 0..(x.cap - 1)
    <3>1. q \in Nat BY <1>1
    <3> QED BY <3>1, <1>1, SlotInIndex
  <2> QED BY <2>1, <1>6 DEF SlotAt
<1>10. SlotAt(x, ks[t], p) # j
  BY <1>2, <1>3, <1>8, MapAssumption DEF Slot, Tomb
<1>11. y.e[SlotAt(y, ks[t], p)] = t + 1
  BY <1>7, <1>8, <1>9, <1>10
<1>12. Clear(y, ks, ks[t], t, p)
  <2> SUFFICES ASSUME NEW q \in 0..(p - 1)
               PROVE  /\ y.e[SlotAt(y, ks[t], q)] # 0
                      /\ Holds(ks, y.e[SlotAt(y, ks[t], q)], ks[t]) => y.e[SlotAt(y, ks[t], q)] = t + 1
    BY DEF Clear
  <2>1. SlotAt(y, ks[t], q) = SlotAt(x, ks[t], q) /\ SlotAt(x, ks[t], q) \in 0..(x.cap - 1)
    BY <1>9
  <2>2. CASE SlotAt(x, ks[t], q) = j
    <3>1. y.e[SlotAt(y, ks[t], q)] = s + 1 BY <2>1, <2>2, <1>7
    <3>2. s + 1 # 0 /\ (s + 1) - 1 = s BY MapAssumption DEF Slot
    <3>3. Holds(ks, s + 1, ks[t]) => ks[(s + 1) - 1] = ks[t] BY Zenon DEF Holds
    <3>4. ks[(s + 1) - 1] = ks[s] BY <3>2, Zenon
    <3>5. Holds(ks, s + 1, ks[t]) => s = t BY <3>3, <3>4
    <3> QED BY <3>1, <3>2, <3>5
  <2>3. CASE SlotAt(x, ks[t], q) # j
    BY <2>1, <2>3, <1>7, <1>8 DEF Clear
  <2> QED BY <2>2, <2>3
<1>13. Reaches(y, ks, t)
  BY <1>6, <1>11, <1>12 DEF Reaches
<1> QED BY <1>5, <1>13

\* An insertion for slot s makes its key found there when the way is open.
LEMMA PutReaches ==
  ASSUME NEW x, IsIndex(x), Cardinality(Filled(x)) < x.cap, NEW ks, NEW s \in Slot, ks[s] \in Key,
         Open(x, ks, s)
  PROVE  Reaches(Put(x, ks[s], s), ks, s)
<1>1. x.cap \in Nat \ {0} /\ x.e \in [0..(x.cap - 1) -> Entry] BY IndexFields
<1>2. PICK p \in 0..(x.cap - 1) :
        /\ x.e[SlotAt(x, ks[s], p)] \in {0, Tomb}
        /\ \A q \in 0..(p - 1) : x.e[SlotAt(x, ks[s], q)] \notin {0, Tomb}
        /\ Rewritten(x, Put(x, ks[s], s), SlotAt(x, ks[s], p), s + 1)
  BY PutTakes
<1>3. PICK j : j = SlotAt(x, ks[s], p) OBVIOUS
<1>4. j \in 0..(x.cap - 1) BY SMTT(40), <1>1, <1>3, SlotInIndex
<1>5. PICK y : y = Put(x, ks[s], s) OBVIOUS
<1>6. y.cap = x.cap /\ y.e = [x.e EXCEPT ![j] = s + 1]
  BY <1>2, <1>3, <1>5 DEF Rewritten
<1>7. \A i \in 0..(x.cap - 1) : y.e[i] = IF i = j THEN s + 1 ELSE x.e[i]
  BY <1>1, <1>4, <1>6
<1>8. PICK p0 \in 0..(x.cap - 1) :
        x.e[SlotAt(x, ks[s], p0)] \in {0, Tomb} /\ Clear(x, ks, ks[s], s, p0)
  BY DEF Open
<1>9. p <= p0
  <2>1. CASE p0 < p
    <3>1. p0 \in 0..(p - 1) BY <2>1
    <3> QED BY <3>1, <1>2, <1>8
  <2> QED BY <2>1
<1>10. \A q \in 0..p : SlotAt(y, ks[s], q) = SlotAt(x, ks[s], q) /\ SlotAt(x, ks[s], q) \in 0..(x.cap - 1)
  <2>1. ASSUME NEW q \in 0..p PROVE SlotAt(x, ks[s], q) \in 0..(x.cap - 1)
    <3>1. q \in Nat BY <1>1
    <3> QED BY <3>1, <1>1, SlotInIndex
  <2> QED BY <2>1, <1>6 DEF SlotAt
<1>11. y.e[SlotAt(y, ks[s], p)] = s + 1
  BY <1>3, <1>4, <1>7, <1>10
<1>12. Clear(y, ks, ks[s], s, p)
  <2> SUFFICES ASSUME NEW q \in 0..(p - 1)
               PROVE  /\ y.e[SlotAt(y, ks[s], q)] # 0
                      /\ Holds(ks, y.e[SlotAt(y, ks[s], q)], ks[s]) => y.e[SlotAt(y, ks[s], q)] = s + 1
    BY DEF Clear
  <2>1. SlotAt(x, ks[s], q) # j BY <1>2, <1>3
  <2>2. y.e[SlotAt(y, ks[s], q)] = x.e[SlotAt(x, ks[s], q)]
    BY <2>1, <1>7, <1>10
  <2>3. q \in 0..(p0 - 1) BY <1>9
  <2> QED BY <2>2, <2>3, <1>8 DEF Clear
<1>13. Reaches(y, ks, s)
  BY <1>6, <1>11, <1>12 DEF Reaches
<1> QED BY <1>5, <1>13

\* A removal turns one entry of the slot into Tomb, or nothing at all.
LEMMA DelTakes ==
  ASSUME NEW x, IsIndex(x), Cardinality(Filled(x)) < x.cap, NEW ks, NEW s \in Slot, ks[s] \in Key
  PROVE  \E p \in 0..(x.cap - 1) :
           /\ x.e[SlotAt(x, ks[s], p)] \in {0, s + 1}
           /\ \A q \in 0..(p - 1) : x.e[SlotAt(x, ks[s], q)] \notin {0, s + 1}
           /\ IF x.e[SlotAt(x, ks[s], p)] = 0 THEN IndexDel(x, ks, s) = x
              ELSE Rewritten(x, IndexDel(x, ks, s), SlotAt(x, ks[s], p), Tomb)
<1> DEFINE p == FirstOn(x, ks[s], {0, s + 1})
<1>1. x.cap \in Nat \ {0} BY IndexFields
<1>2. \E j \in 0..(x.cap - 1) : x.e[j] \in {0, s + 1}
  BY EmptyEntry
<1>3. /\ p \in 0..(x.cap - 1)
      /\ x.e[SlotAt(x, ks[s], p)] \in {0, s + 1}
      /\ \A q \in 0..(p - 1) : x.e[SlotAt(x, ks[s], q)] \notin {0, s + 1}
  BY <1>1, <1>2, Probe
<1>4. Tomb \in Entry BY DEF Entry
<1>5. SlotAt(x, ks[s], p) \in 0..(x.cap - 1) BY <1>1, <1>3, SlotInIndex
<1>6. Rewritten(x, [x EXCEPT !.e[SlotAt(x, ks[s], p)] = Tomb], SlotAt(x, ks[s], p), Tomb)
  BY <1>4, <1>5, Rewriting
<1>7. IndexDel(x, ks, s) = IF x.cap = 0 \/ x.e[SlotAt(x, ks[s], p)] = 0 THEN x
                           ELSE [x EXCEPT !.e[SlotAt(x, ks[s], p)] = Tomb]
  BY DEF IndexDel
<1> HIDE DEF p
<1>8. IF x.e[SlotAt(x, ks[s], p)] = 0 THEN IndexDel(x, ks, s) = x
      ELSE Rewritten(x, IndexDel(x, ks, s), SlotAt(x, ks[s], p), Tomb)
  BY <1>1, <1>6, <1>7
<1> QED BY <1>3, <1>8

\* A removal fills and empties nothing, and changes only entries of the slot.
LEMMA DelFields ==
  ASSUME NEW x, IsIndex(x), Cardinality(Filled(x)) < x.cap, NEW ks, NEW s \in Slot, ks[s] \in Key
  PROVE  /\ IsIndex(IndexDel(x, ks, s)) /\ IndexDel(x, ks, s).cap = x.cap
         /\ IndexDel(x, ks, s).budget = x.budget
         /\ Filled(IndexDel(x, ks, s)) = Filled(x)
         /\ \A j \in 0..(x.cap - 1) :
              \/ IndexDel(x, ks, s).e[j] = x.e[j]
              \/ x.e[j] = s + 1 /\ IndexDel(x, ks, s).e[j] = Tomb
<1>1. x.cap \in Nat \ {0} /\ x.e \in [0..(x.cap - 1) -> Entry] BY IndexFields
<1>2. PICK p \in 0..(x.cap - 1) :
        /\ x.e[SlotAt(x, ks[s], p)] \in {0, s + 1}
        /\ IF x.e[SlotAt(x, ks[s], p)] = 0 THEN IndexDel(x, ks, s) = x
           ELSE Rewritten(x, IndexDel(x, ks, s), SlotAt(x, ks[s], p), Tomb)
  BY DelTakes
<1>3. SlotAt(x, ks[s], p) \in 0..(x.cap - 1) BY SMTT(40), <1>1, SlotInIndex
<1>4. PICK j : j = SlotAt(x, ks[s], p) OBVIOUS
<1>5. PICK y : y = IndexDel(x, ks, s) OBVIOUS
<1>6. CASE x.e[j] = 0
  BY <1>2, <1>4, <1>6
<1>7. CASE x.e[j] # 0
  <2>1. x.e[j] = s + 1 BY <1>2, <1>4, <1>7
  <2>2. IsIndex(y) /\ y.cap = x.cap /\ y.budget = x.budget /\ y.e = [x.e EXCEPT ![j] = Tomb]
    BY <1>2, <1>4, <1>5, <1>7 DEF Rewritten
  <2>3. \A i \in 0..(x.cap - 1) : y.e[i] = IF i = j THEN Tomb ELSE x.e[i]
    BY <1>1, <1>3, <1>4, <2>2
  <2>4. Filled(y) = Filled(x)
    BY <1>3, <1>4, <1>7, <2>2, <2>3 DEF Filled, Tomb
  <2> QED BY <1>5, <2>1, <2>2, <2>3, <2>4
<1> QED BY <1>6, <1>7

\* A removal of slot s hides the key of no other slot.
LEMMA DelKeeps ==
  ASSUME NEW x, IsIndex(x), Cardinality(Filled(x)) < x.cap, NEW ks, NEW s \in Slot, NEW t \in Slot,
         ks[s] \in Key, ks[t] \in Key, t # s, Reaches(x, ks, t)
  PROVE  Reaches(IndexDel(x, ks, s), ks, t)
<1>1. x.cap \in Nat \ {0} /\ x.e \in [0..(x.cap - 1) -> Entry] BY IndexFields
<1>2. PICK y : y = IndexDel(x, ks, s) OBVIOUS
<1>3. /\ y.cap = x.cap
      /\ \A j \in 0..(x.cap - 1) : y.e[j] = x.e[j] \/ (x.e[j] = s + 1 /\ y.e[j] = Tomb)
  BY <1>2, DelFields
<1>4. PICK p \in 0..(x.cap - 1) : x.e[SlotAt(x, ks[t], p)] = t + 1 /\ Clear(x, ks, ks[t], t, p)
  BY DEF Reaches
<1>5. \A q \in 0..p : SlotAt(y, ks[t], q) = SlotAt(x, ks[t], q) /\ SlotAt(x, ks[t], q) \in 0..(x.cap - 1)
  <2>1. ASSUME NEW q \in 0..p PROVE SlotAt(x, ks[t], q) \in 0..(x.cap - 1)
    <3>1. q \in Nat BY <1>1
    <3> QED BY <3>1, <1>1, SlotInIndex
  <2> QED BY <2>1, <1>3 DEF SlotAt
<1>6. y.e[SlotAt(y, ks[t], p)] = t + 1
  <2>1. t + 1 # s + 1 BY MapAssumption DEF Slot
  <2> QED BY <2>1, <1>3, <1>4, <1>5
<1>7. Clear(y, ks, ks[t], t, p)
  <2> SUFFICES ASSUME NEW q \in 0..(p - 1)
               PROVE  /\ y.e[SlotAt(y, ks[t], q)] # 0
                      /\ Holds(ks, y.e[SlotAt(y, ks[t], q)], ks[t]) => y.e[SlotAt(y, ks[t], q)] = t + 1
    BY DEF Clear
  <2>1. PICK i : i = SlotAt(x, ks[t], q) OBVIOUS
  <2>2. i = SlotAt(y, ks[t], q) /\ i \in 0..(x.cap - 1) BY <2>1, <1>5
  <2>3. x.e[i] # 0 /\ (Holds(ks, x.e[i], ks[t]) => x.e[i] = t + 1)
    BY <2>1, <1>4 DEF Clear
  <2>4. Tomb # 0 /\ ~ Holds(ks, Tomb, ks[t])
    BY DEF Tomb, Holds, Slot
  <2> QED BY <2>2, <2>3, <2>4, <1>3
<1>8. Reaches(y, ks, t)
  BY <1>3, <1>6, <1>7 DEF Reaches
<1> QED BY <1>2, <1>8

\* After a removal a slot with the same key can be entered where the removed one was found.
LEMMA DelOpens ==
  ASSUME NEW x, IsIndex(x), Cardinality(Filled(x)) < x.cap, NEW ks, NEW s \in Slot, ks[s] \in Key,
         Reaches(x, ks, s)
  PROVE  \E p \in 0..(x.cap - 1) :
           /\ IndexDel(x, ks, s).e[SlotAt(x, ks[s], p)] = Tomb
           /\ \A q \in 0..(p - 1) :
                /\ IndexDel(x, ks, s).e[SlotAt(x, ks[s], q)] # 0
                /\ ~ Holds(ks, IndexDel(x, ks, s).e[SlotAt(x, ks[s], q)], ks[s])
<1>1. x.cap \in Nat \ {0} /\ x.e \in [0..(x.cap - 1) -> Entry] BY IndexFields
<1>2. PICK p \in 0..(x.cap - 1) :
        /\ x.e[SlotAt(x, ks[s], p)] \in {0, s + 1}
        /\ \A q \in 0..(p - 1) : x.e[SlotAt(x, ks[s], q)] \notin {0, s + 1}
        /\ IF x.e[SlotAt(x, ks[s], p)] = 0 THEN IndexDel(x, ks, s) = x
           ELSE Rewritten(x, IndexDel(x, ks, s), SlotAt(x, ks[s], p), Tomb)
  BY DelTakes
<1>3. PICK p0 \in 0..(x.cap - 1) : x.e[SlotAt(x, ks[s], p0)] = s + 1 /\ Clear(x, ks, ks[s], s, p0)
  BY DEF Reaches
<1>4. p <= p0
  <2>1. CASE p0 < p
    <3>1. p0 \in 0..(p - 1) BY <2>1
    <3> QED BY <3>1, <1>2, <1>3
  <2> QED BY <2>1
<1>5. \A q \in 0..(p - 1) : /\ x.e[SlotAt(x, ks[s], q)] # 0
                            /\ x.e[SlotAt(x, ks[s], q)] # s + 1
                            /\ ~ Holds(ks, x.e[SlotAt(x, ks[s], q)], ks[s])
  <2> SUFFICES ASSUME NEW q \in 0..(p - 1)
               PROVE  /\ x.e[SlotAt(x, ks[s], q)] # 0
                      /\ x.e[SlotAt(x, ks[s], q)] # s + 1
                      /\ ~ Holds(ks, x.e[SlotAt(x, ks[s], q)], ks[s])
    OBVIOUS
  <2>1. q \in 0..(p0 - 1) BY <1>4
  <2> QED BY <2>1, <1>2, <1>3 DEF Clear
<1>6. x.e[SlotAt(x, ks[s], p)] = s + 1 /\ s + 1 # 0
  <2>1. s + 1 # 0 BY MapAssumption DEF Slot
  <2>2. CASE p = p0 BY <2>1, <2>2, <1>3
  <2>3. CASE p # p0
    <3>1. p \in 0..(p0 - 1) BY <2>3, <1>4
    <3> QED BY <2>1, <3>1, <1>2, <1>3 DEF Clear
  <2> QED BY <2>2, <2>3
<1>7. PICK y : y = IndexDel(x, ks, s) OBVIOUS
<1>8. PICK j : j = SlotAt(x, ks[s], p) OBVIOUS
<1>9. j \in 0..(x.cap - 1) BY <1>1, <1>8, SlotInIndex
<1>10. y.e = [x.e EXCEPT ![j] = Tomb]
  BY <1>2, <1>6, <1>7, <1>8 DEF Rewritten
<1>11. \A i \in 0..(x.cap - 1) : y.e[i] = IF i = j THEN Tomb ELSE x.e[i]
  BY <1>1, <1>9, <1>10
<1>12. y.e[SlotAt(x, ks[s], p)] = Tomb
  BY <1>8, <1>9, <1>11
<1>13. ASSUME NEW q \in 0..(p - 1)
       PROVE  y.e[SlotAt(x, ks[s], q)] = x.e[SlotAt(x, ks[s], q)]
  <2>1. q \in Nat BY <1>1
  <2>2. SlotAt(x, ks[s], q) \in 0..(x.cap - 1) BY <2>1, <1>1, SlotInIndex
  <2>3. SlotAt(x, ks[s], q) # j BY <1>5, <1>6, <1>8
  <2> QED BY <2>2, <2>3, <1>11
<1> QED BY <1>5, <1>7, <1>12, <1>13

(***************************************************************************)
(* Building an index anew (Rebuild).                                       *)
(***************************************************************************)
Fresh(cap) == [e |-> [j \in 0..(cap - 1) |-> 0], cap |-> cap, budget |-> cap \div 2]

\* f[i] is the index with the first i slots entered.
PutAll(f, ks, n, cap) ==
  f = [i \in 0..n |-> IF i = 0 THEN Fresh(cap) ELSE Put(f[i - 1], ks[i - 1], i - 1)]

\* The slots can be entered one after the other.
LEMMA PutAllExists ==
  ASSUME NEW ks, NEW cap, NEW n \in Nat
  PROVE  \E f : PutAll(f, ks, n, cap)
<1> DEFINE T == {m \in Nat : ~ \E f : PutAll(f, ks, m, cap)}
<1>1. SUFFICES T = {} OBVIOUS
<1>2. SUFFICES ASSUME T # {} PROVE FALSE OBVIOUS
<1>3. T \subseteq Nat OBVIOUS
<1>4. PICK m \in T : \A y \in T : m <= y
  BY <1>2, <1>3, LeastElement
<1>5. m \in Nat /\ ~ \E f : PutAll(f, ks, m, cap)
  OBVIOUS
<1>6. CASE m = 0
  <2> DEFINE g == [i \in 0..0 |-> Fresh(cap)]
  <2>1. PutAll(g, ks, 0, cap)
    <3>1. \A i \in 0..0 : (IF i = 0 THEN Fresh(cap) ELSE Put(g[i - 1], ks[i - 1], i - 1)) = Fresh(cap)
      OBVIOUS
    <3> QED BY <3>1 DEF PutAll
  <2> QED BY <2>1, <1>5, <1>6
<1>7. CASE m # 0
  <2>1. m - 1 \in Nat /\ ~ (m <= m - 1) BY <1>5, <1>7
  <2>2. m - 1 \notin T BY <2>1, <1>4
  <2>3. PICK f : PutAll(f, ks, m - 1, cap) BY <2>1, <2>2
  <2> DEFINE g == [i \in 0..m |-> IF i = m THEN Put(f[m - 1], ks[m - 1], m - 1) ELSE f[i]]
  <2>4. \A i \in 0..(m - 1) : f[i] = IF i = 0 THEN Fresh(cap) ELSE Put(f[i - 1], ks[i - 1], i - 1)
    BY <2>3, Zenon DEF PutAll
  <2>5. \A i \in 0..m : g[i] = IF i = 0 THEN Fresh(cap) ELSE Put(g[i - 1], ks[i - 1], i - 1)
    <3> SUFFICES ASSUME NEW i \in 0..m
                 PROVE  g[i] = IF i = 0 THEN Fresh(cap) ELSE Put(g[i - 1], ks[i - 1], i - 1)
      OBVIOUS
    <3>1. CASE i = m
      <4>1. g[i] = Put(f[m - 1], ks[m - 1], m - 1) BY <3>1, <1>5
      <4>2. m - 1 \in 0..m /\ m - 1 # m BY <2>1, <1>5
      <4>3. g[m - 1] = f[m - 1] BY <4>2
      <4> QED BY <3>1, <4>1, <4>3, <1>7
    <3>2. CASE i # m
      <4>1. i \in 0..(m - 1) /\ g[i] = f[i] BY <3>2, <1>5
      <4>2. CASE i = 0 BY <4>1, <4>2, <2>4
      <4>3. CASE i # 0
        <5>1. i - 1 \in 0..m /\ i - 1 # m BY <4>1, <4>3, <1>5
        <5>2. g[i - 1] = f[i - 1] BY <5>1
        <5> HIDE DEF g
        <5> QED BY <4>1, <4>3, <5>2, <2>4
      <4> QED BY <4>2, <4>3
    <3> QED BY <3>1, <3>2
  <2>6. g = [i \in 0..m |-> g[i]] OBVIOUS
  <2> HIDE DEF g
  <2>7. PutAll(g, ks, m, cap)
    BY <2>5, <2>6, Zenon DEF PutAll
  <2> QED BY <2>7, <1>5
<1> QED BY <1>6, <1>7

\* Rebuild is the last of these indexes.
LEMMA RebuildIs ==
  ASSUME NEW ks, NEW cap, NEW n \in Nat
  PROVE  \E f : PutAll(f, ks, n, cap) /\ Rebuild(ks, n, cap) = f[n]
<1>1. PICK f0 : PutAll(f0, ks, n, cap) BY PutAllExists
<1> DEFINE put == CHOOSE f : PutAll(f, ks, n, cap)
<1>2. PutAll(put, ks, n, cap) BY <1>1
<1>3. Rebuild(ks, n, cap) = put[n]
  BY Zenon DEF Rebuild, PutAll, Fresh
<1> QED BY <1>2, <1>3

\* No slot before t holds its key.
FirstOfKey(ks, t) == \A r \in 0..(t - 1) : ks[r] # ks[t]

\* The index after the first m slots have been entered.
Stage(x, ks, m, cap) ==
  /\ IsIndex(x) /\ x.cap = cap /\ x.budget = cap \div 2
  /\ \A j \in 0..(cap - 1) : x.e[j] \in 0..m
  /\ Cardinality(Filled(x)) <= m
  /\ \A t \in 0..(m - 1) : FirstOfKey(ks, t) => Reaches(x, ks, t)

\* Where nothing has been removed, an insertion hides no key, whatever slot it is for.
LEMMA PutHidesNone ==
  ASSUME NEW x, IsIndex(x), Cardinality(Filled(x)) < x.cap, NEW ks, NEW s \in Slot, NEW t \in Slot,
         ks[s] \in Key, ks[t] \in Key, \A j \in 0..(x.cap - 1) : x.e[j] # Tomb,
         Reaches(x, ks, t)
  PROVE  Reaches(Put(x, ks[s], s), ks, t)
<1>1. x.cap \in Nat \ {0} /\ x.e \in [0..(x.cap - 1) -> Entry] BY IndexFields
<1>2. PICK p0 \in 0..(x.cap - 1) :
        /\ x.e[SlotAt(x, ks[s], p0)] \in {0, Tomb}
        /\ Rewritten(x, Put(x, ks[s], s), SlotAt(x, ks[s], p0), s + 1)
  BY PutTakes
<1>3. PICK j : j = SlotAt(x, ks[s], p0) OBVIOUS
<1>4. j \in 0..(x.cap - 1) BY <1>1, <1>3, SlotInIndex
<1>5. x.e[j] = 0 BY <1>2, <1>3, <1>4
<1>6. PICK y : y = Put(x, ks[s], s) OBVIOUS
<1>7. y.cap = x.cap /\ y.e = [x.e EXCEPT ![j] = s + 1]
  BY <1>2, <1>3, <1>6 DEF Rewritten
<1>8. \A i \in 0..(x.cap - 1) : i # j => y.e[i] = x.e[i]
  BY <1>1, <1>4, <1>7
<1>9. PICK p \in 0..(x.cap - 1) : x.e[SlotAt(x, ks[t], p)] = t + 1 /\ Clear(x, ks, ks[t], t, p)
  BY DEF Reaches
<1>10. \A q \in 0..p : x.e[SlotAt(x, ks[t], q)] # 0
  <2> SUFFICES ASSUME NEW q \in 0..p PROVE x.e[SlotAt(x, ks[t], q)] # 0
    OBVIOUS
  <2>1. CASE q = p
    <3>1. t + 1 # 0 BY MapAssumption DEF Slot
    <3> QED BY <2>1, <3>1, <1>9
  <2>2. CASE q # p
    <3>1. q \in 0..(p - 1) BY <2>2
    <3> QED BY <3>1, <1>9 DEF Clear
  <2> QED BY <2>1, <2>2
<1>11. \A q \in 0..p : SlotAt(y, ks[t], q) = SlotAt(x, ks[t], q)
                       /\ y.e[SlotAt(x, ks[t], q)] = x.e[SlotAt(x, ks[t], q)]
  <2> SUFFICES ASSUME NEW q \in 0..p
               PROVE  SlotAt(y, ks[t], q) = SlotAt(x, ks[t], q)
                      /\ y.e[SlotAt(x, ks[t], q)] = x.e[SlotAt(x, ks[t], q)]
    OBVIOUS
  <2>1. q \in Nat BY <1>1
  <2>2. SlotAt(x, ks[t], q) \in 0..(x.cap - 1) BY <2>1, <1>1, SlotInIndex
  <2>3. SlotAt(x, ks[t], q) # j BY <1>5, <1>10
  <2>4. SlotAt(y, ks[t], q) = SlotAt(x, ks[t], q) BY <1>7 DEF SlotAt
  <2> QED BY <2>2, <2>3, <2>4, <1>8
<1>12. y.e[SlotAt(y, ks[t], p)] = t + 1
  BY <1>9, <1>11
<1>13. Clear(y, ks, ks[t], t, p)
  BY <1>9, <1>11 DEF Clear
<1>14. Reaches(y, ks, t)
  BY <1>7, <1>12, <1>13 DEF Reaches
<1> QED BY <1>6, <1>14

\* A rebuild enters one slot after the other.
LEMMA EntersNext ==
  ASSUME NEW x, NEW ks, NEW cap \in Nat \ {0}, NEW m \in 0..(MaxLen - 1), m < cap,
         \A r \in 0..m : ks[r] \in Key, Stage(x, ks, m, cap)
  PROVE  Stage(Put(x, ks[m], m), ks, m + 1, cap)
<1>1. m \in Slot /\ ks[m] \in Key BY MapAssumption DEF Slot
<1>2. IsIndex(x) /\ x.cap = cap /\ x.budget = cap \div 2 /\ Cardinality(Filled(x)) <= m
  BY DEF Stage
<1>3. Cardinality(Filled(x)) \in Nat BY <1>2, FilledFinite
<1>4. Cardinality(Filled(x)) < x.cap BY <1>2, <1>3
<1>5. PICK y : y = Put(x, ks[m], m) OBVIOUS
<1>6. /\ IsIndex(y) /\ y.cap = cap /\ y.budget = cap \div 2
      /\ Cardinality(Filled(y)) <= Cardinality(Filled(x)) + 1
      /\ \A j \in 0..(cap - 1) : y.e[j] \in {x.e[j], m + 1}
  BY <1>1, <1>2, <1>4, <1>5, PutFills
<1>7. Cardinality(Filled(y)) \in Nat BY <1>6, FilledFinite
<1>8. Cardinality(Filled(y)) <= m + 1 BY <1>2, <1>3, <1>6, <1>7
<1>9. \A j \in 0..(cap - 1) : y.e[j] \in 0..(m + 1)
  BY <1>6 DEF Stage
<1>10. ASSUME NEW t \in 0..m, FirstOfKey(ks, t) PROVE Reaches(y, ks, t)
  <2>1. t \in Slot /\ ks[t] \in Key BY MapAssumption DEF Slot
  <2>2. CASE t # m
    <3>1. t \in 0..(m - 1) BY <2>2
    <3>2. Reaches(x, ks, t) BY <3>1, <1>10 DEF Stage
    <3>3. \A j \in 0..(x.cap - 1) : x.e[j] # Tomb
      BY <1>2 DEF Stage, Tomb
    <3> QED BY <3>2, <3>3, <2>1, <1>1, <1>2, <1>4, <1>5, PutHidesNone
  <2>3. CASE t = m
    <3>1. PICK p \in 0..(x.cap - 1) :
            /\ x.e[SlotAt(x, ks[m], p)] \in {0, Tomb}
            /\ \A q \in 0..(p - 1) : x.e[SlotAt(x, ks[m], q)] \notin {0, Tomb}
      BY <1>1, <1>2, <1>4, PutTakes
    <3>2. Clear(x, ks, ks[m], m, p)
      <4> SUFFICES ASSUME NEW q \in 0..(p - 1)
                   PROVE  /\ x.e[SlotAt(x, ks[m], q)] # 0
                          /\ ~ Holds(ks, x.e[SlotAt(x, ks[m], q)], ks[m])
        BY DEF Clear
      <4>1. q \in Nat BY <1>2
      <4>2. SlotAt(x, ks[m], q) \in 0..(cap - 1) BY <4>1, <1>1, <1>2, SlotInIndex
      <4>3. PICK v : v = x.e[SlotAt(x, ks[m], q)] OBVIOUS
      <4>4. v \in 0..m /\ v # 0 BY <4>2, <4>3, <3>1 DEF Stage
      <4>5. v - 1 \in 0..(m - 1) BY <4>4
      <4>6. ks[v - 1] # ks[m] BY <4>5, <2>3, <1>10 DEF FirstOfKey
      <4> QED BY <4>3, <4>4, <4>6 DEF Holds
    <3>3. Open(x, ks, m) BY <3>1, <3>2 DEF Open
    <3> QED BY <3>3, <2>3, <1>1, <1>2, <1>4, <1>5, PutReaches
  <2> QED BY <2>2, <2>3
<1>11. Stage(y, ks, m + 1, cap)
  <2>1. \A t \in 0..((m + 1) - 1) : t \in 0..m OBVIOUS
  <2> QED BY <2>1, <1>6, <1>8, <1>9, <1>10 DEF Stage
<1> QED BY <1>5, <1>11

\* A rebuilt index reaches every key at its first slot.
LEMMA Rebuilt ==
  ASSUME NEW ks, NEW n \in 0..MaxLen, NEW cap \in Nat \ {0}, n < cap,
         \A r \in 0..(n - 1) : ks[r] \in Key
  PROVE  Stage(Rebuild(ks, n, cap), ks, n, cap)
<1>0. n \in Nat BY MapAssumption
<1>1. PICK f : PutAll(f, ks, n, cap) /\ Rebuild(ks, n, cap) = f[n]
  BY <1>0, RebuildIs
<1>2. \A i \in 0..n : f[i] = IF i = 0 THEN Fresh(cap) ELSE Put(f[i - 1], ks[i - 1], i - 1)
  BY <1>1, Zenon DEF PutAll
<1> DEFINE T == {m \in 0..n : ~ Stage(f[m], ks, m, cap)}
<1>3. ASSUME T # {} PROVE FALSE
  <2>1. T \subseteq Nat BY <1>0
  <2>2. PICK m \in T : \A y \in T : m <= y
    BY <2>1, <1>3, LeastElement
  <2>3. m \in 0..n /\ ~ Stage(f[m], ks, m, cap) OBVIOUS
  <2>4. CASE m = 0
    <3>1. f[m] = Fresh(cap) BY <2>3, <2>4, <1>2
    <3>2. PICK x : x = Fresh(cap) OBVIOUS
    <3>3. x.cap = cap /\ x.budget = cap \div 2 /\ x.e = [j \in 0..(cap - 1) |-> 0]
      BY <3>2 DEF Fresh
    <3>4. \A j \in 0..(cap - 1) : x.e[j] = 0 BY <3>3
    <3>5. cap \div 2 \in Nat OBVIOUS
    <3>6. x.e \in [0..(cap - 1) -> Entry] BY <3>3, MapAssumption DEF Entry
    <3>7. x \in [e : [0..(cap - 1) -> Entry], cap : {cap}, budget : Nat]
      BY <3>2, <3>3, <3>5, <3>6 DEF Fresh
    <3>8. IsIndex(x) BY <3>3, <3>7 DEF IsIndex
    <3>9. Filled(x) = {} BY <3>3, <3>4 DEF Filled
    <3>10. Cardinality(Filled(x)) <= 0 BY <3>9, FS_EmptySet
    <3>11. Stage(x, ks, 0, cap) BY <3>3, <3>4, <3>8, <3>10 DEF Stage
    <3> QED BY <3>1, <3>2, <3>11, <2>3, <2>4
  <2>5. CASE m # 0
    <3>1. m - 1 \in 0..n /\ m - 1 \in 0..(MaxLen - 1) /\ m - 1 < cap /\ ~ (m <= m - 1)
      BY <2>3, <2>5, <1>0, MapAssumption
    <3>2. m - 1 \notin T BY <3>1, <2>2
    <3>3. Stage(f[m - 1], ks, m - 1, cap) BY <3>1, <3>2
    <3>4. f[m] = Put(f[m - 1], ks[m - 1], m - 1) BY <2>3, <2>5, <1>2
    <3>5. \A r \in 0..(m - 1) : ks[r] \in Key BY <2>3, <1>0
    <3>6. Stage(f[m], ks, (m - 1) + 1, cap)
      BY <3>1, <3>3, <3>4, <3>5, EntersNext
    <3>7. (m - 1) + 1 = m BY <2>3
    <3> QED BY <3>6, <3>7, <2>3
  <2> QED BY <2>4, <2>5
<1>4. n \in 0..n BY <1>0
<1>5. Stage(f[n], ks, n, cap) BY <1>3, <1>4
<1> QED BY <1>1, <1>5

(***************************************************************************)
(* Entering a slot of a map of n keys (IndexAdd).                          *)
(***************************************************************************)
\* Slot s of a map of n keys, whose first m slots are to be reached, can be entered.
Ready(x, ks, n, m, s) ==
  /\ IsIndex(x) /\ x.budget > 0
  /\ Cardinality(Filled(x)) + x.budget < x.cap
  /\ n + x.budget < x.cap
  /\ \A t \in 0..(m - 1) : t # s => Reaches(x, ks, t)
  /\ Open(x, ks, s) \/ Reaches(x, ks, s)

\* The budget has no part in what is found.
LEMMA SameEntries ==
  ASSUME NEW x, NEW y, y.cap = x.cap, y.e = x.e
  PROVE  /\ Filled(y) = Filled(x)
         /\ \A ks, t : Reaches(x, ks, t) => Reaches(y, ks, t)
<1>1. \A k, p : SlotAt(y, k, p) = SlotAt(x, k, p) BY DEF SlotAt
<1>2. \A ks, k, s, p : Clear(x, ks, k, s, p) => Clear(y, ks, k, s, p)
  BY <1>1 DEF Clear
<1>3. \A ks, t : Reaches(x, ks, t) => Reaches(y, ks, t)
  BY <1>1, <1>2 DEF Reaches
<1> QED BY <1>3 DEF Filled

\* Entering the slot uses up one of the budget.
LEMMA Enters ==
  ASSUME NEW x, NEW ks, NEW n \in Nat, NEW m \in 0..MaxLen, NEW s \in 0..(m - 1),
         Ready(x, ks, n, m, s),
         \A t \in 0..(m - 1) : ks[t] \in Key /\ (t # s => ks[s] # ks[t])
  PROVE  LET y == [Put(x, ks[s], s) EXCEPT !.budget = x.budget - 1]
         IN  /\ IsIndex(y) /\ Roomy(y, n)
             /\ \A t \in 0..(m - 1) : Reaches(y, ks, t)
<1>1. 0..(m - 1) \subseteq Slot BY MapAssumption DEF Slot
<1>2. s \in Slot /\ ks[s] \in Key BY <1>1
<1>3. IsIndex(x) /\ x.cap \in Nat \ {0} /\ x.budget \in Nat \ {0}
  BY IndexFields DEF Ready
<1>4. Cardinality(Filled(x)) \in Nat BY <1>3, FilledFinite
<1>5. Cardinality(Filled(x)) + x.budget < x.cap /\ n + x.budget < x.cap
  BY DEF Ready
<1>6. Cardinality(Filled(x)) < x.cap BY <1>3, <1>4, <1>5
<1>7. PICK z : z = Put(x, ks[s], s) OBVIOUS
<1>8. /\ IsIndex(z) /\ z.cap = x.cap /\ z.budget = x.budget
      /\ Cardinality(Filled(z)) <= Cardinality(Filled(x)) + 1
  BY <1>2, <1>3, <1>6, <1>7, PutFills
<1>9. ASSUME NEW t \in 0..(m - 1) PROVE Reaches(z, ks, t)
  <2>1. t \in Slot /\ ks[t] \in Key /\ (t = s \/ ks[s] # ks[t]) BY <1>1
  <2>2. CASE Reaches(x, ks, t)
    BY <2>1, <2>2, <1>2, <1>3, <1>6, <1>7, PutKeeps
  <2>3. CASE ~ Reaches(x, ks, t)
    <3>1. t = s /\ Open(x, ks, s) BY <2>3 DEF Ready
    <3> QED BY <3>1, <1>2, <1>3, <1>6, <1>7, PutReaches
  <2> QED BY <2>2, <2>3
<1>10. PICK y : y = [z EXCEPT !.budget = x.budget - 1] OBVIOUS
<1>11. z \in [e : [0..(z.cap - 1) -> Entry], cap : {z.cap}, budget : Nat] BY <1>8 DEF IsIndex
<1>12. y.cap = z.cap /\ y.e = z.e /\ y.budget = x.budget - 1
  BY <1>10, <1>11
<1>13. x.budget - 1 \in Nat BY <1>3
<1>14. y \in [e : [0..(z.cap - 1) -> Entry], cap : {z.cap}, budget : Nat]
  BY <1>10, <1>11, <1>13
<1>15. IsIndex(y) BY <1>3, <1>8, <1>12, <1>14 DEF IsIndex
<1>16. Filled(y) = Filled(z) BY <1>12, SameEntries
<1>17. Cardinality(Filled(z)) \in Nat BY <1>8, FilledFinite
<1>18. Roomy(y, n)
  <2>1. Cardinality(Filled(y)) + y.budget < y.cap
    BY <1>3, <1>4, <1>5, <1>8, <1>12, <1>16, <1>17
  <2>2. n + y.budget + 1 < y.cap
    BY <1>3, <1>5, <1>8, <1>12
  <2> QED BY <2>1, <2>2 DEF Roomy
<1>19. \A t \in 0..(m - 1) : Reaches(y, ks, t)
  BY <1>9, <1>12, SameEntries
<1> QED BY <1>7, <1>10, <1>15, <1>18, <1>19

\* A rebuilt index is ready for one more entry.
LEMMA RebuiltReady ==
  ASSUME NEW ks, NEW n \in 1..MaxLen, NEW m \in 1..n, NEW s \in 0..(m - 1), NEW cap \in Nat,
         n + (cap \div 2) < cap,
         \A r \in 0..(n - 1) : ks[r] \in Key,
         \A t \in 0..(m - 1) : FirstOfKey(ks, t)
  PROVE  Ready(Rebuild(ks, n, cap), ks, n, m, s) /\ Rebuild(ks, n, cap).budget > 0
<1>1. n \in 0..MaxLen /\ cap \in Nat \ {0} /\ n < cap /\ cap \div 2 \in Nat /\ cap \div 2 > 0
  BY MapAssumption
<1>2. PICK x : x = Rebuild(ks, n, cap) OBVIOUS
<1>3. Stage(x, ks, n, cap) BY <1>1, <1>2, Rebuilt
<1>4. IsIndex(x) /\ x.cap = cap /\ x.budget = cap \div 2 /\ Cardinality(Filled(x)) <= n
  BY <1>3 DEF Stage
<1>5. Cardinality(Filled(x)) \in Nat BY <1>4, FilledFinite
<1>6. \A t \in 0..(m - 1) : Reaches(x, ks, t)
  <2> SUFFICES ASSUME NEW t \in 0..(m - 1) PROVE Reaches(x, ks, t)
    OBVIOUS
  <2>1. t \in 0..(n - 1) OBVIOUS
  <2> QED BY <2>1, <1>3 DEF Stage
<1>7. x.budget > 0 /\ Cardinality(Filled(x)) + x.budget < x.cap /\ n + x.budget < x.cap
  BY <1>1, <1>4, <1>5
<1>8. Ready(x, ks, n, m, s) BY <1>4, <1>6, <1>7 DEF Ready
<1> QED BY <1>2, <1>7, <1>8

\* Entering slot s of a map of n keys, with or without building the index first: the keys of
\* the first m slots are found.
LEMMA IndexAdded ==
  ASSUME NEW x, NEW ks, NEW n \in 1..MaxLen, NEW m \in 1..n, NEW s \in 0..(m - 1),
         \A r \in 0..(n - 1) : ks[r] \in Key,
         \A t, u \in 0..(m - 1) : ks[t] = ks[u] => t = u,
         \/ /\ x = NoIndex /\ n >= MinIndex /\ n + (FirstICap \div 2) < FirstICap
         \/ /\ IsIndex(x)
            /\ Cardinality(Filled(x)) + x.budget < x.cap /\ n + x.budget < x.cap
            /\ \A t \in 0..(m - 1) : t # s => Reaches(x, ks, t)
            /\ Open(x, ks, s)
  PROVE  /\ IsIndex(IndexAdd(x, ks, n, s)) /\ Roomy(IndexAdd(x, ks, n, s), n)
         /\ \A t \in 0..(m - 1) : Reaches(IndexAdd(x, ks, n, s), ks, t)
<1>1. \A t \in 0..(m - 1) : FirstOfKey(ks, t)
  <2> SUFFICES ASSUME NEW t \in 0..(m - 1), NEW r \in 0..(t - 1) PROVE ks[r] # ks[t]
    BY DEF FirstOfKey
  <2>1. r \in 0..(m - 1) /\ r # t OBVIOUS
  <2> QED BY <2>1
<1> DEFINE x1 == IF x.cap > 0 THEN x ELSE Rebuild(ks, n, FirstICap)
           cap2 == IF 2 * n >= x1.cap THEN 2 * x1.cap ELSE x1.cap
           x2 == IF x1.budget > 0 THEN x1 ELSE Rebuild(ks, n, cap2)
<1>2. Ready(x2, ks, n, m, s) /\ ~ (x.cap = 0 /\ n < MinIndex)
  <2>1. CASE /\ x = NoIndex /\ n >= MinIndex /\ n + (FirstICap \div 2) < FirstICap
    <3>1. x.cap = 0 BY <2>1 DEF NoIndex
    <3>2. x1 = Rebuild(ks, n, FirstICap) BY <3>1
    <3> HIDE DEF x1
    <3>3. Ready(x1, ks, n, m, s) /\ x1.budget > 0
      <4>1. FirstICap \in Nat /\ n + (FirstICap \div 2) < FirstICap BY <2>1, MapAssumption
      <4>2. /\ Ready(Rebuild(ks, n, FirstICap), ks, n, m, s)
            /\ Rebuild(ks, n, FirstICap).budget > 0
        BY <4>1, <1>1, RebuiltReady
      <4> QED BY <3>2, <4>2
    <3>4. ~ (n < MinIndex) BY <2>1, MapAssumption
    <3> QED BY <3>3, <3>4
  <2>2. CASE /\ IsIndex(x)
             /\ Cardinality(Filled(x)) + x.budget < x.cap /\ n + x.budget < x.cap
             /\ \A t \in 0..(m - 1) : t # s => Reaches(x, ks, t)
             /\ Open(x, ks, s)
    <3>1. x.cap \in Nat \ {0} /\ x.budget \in Nat BY <2>2, IndexFields
    <3>2. x1 = x BY <3>1
    <3>3. ~ (x.cap = 0) BY <3>1
    <3> HIDE DEF x1
    <3>4. CASE x.budget > 0
      <4>1. x2 = x BY <3>2, <3>4
      <4>2. Ready(x, ks, n, m, s) BY <2>2, <3>4 DEF Ready
      <4> QED BY <3>3, <4>1, <4>2
    <3>5. CASE ~ (x.budget > 0)
      <4>1. x2 = Rebuild(ks, n, cap2) BY <3>2, <3>5
      <4>2. cap2 = IF 2 * n >= x.cap THEN 2 * x.cap ELSE x.cap BY <3>2
      <4>3. x.budget = 0 BY <3>1, <3>5
      <4>4. n < x.cap BY <2>2, <3>1, <4>3
      <4> HIDE DEF cap2
      <4>5. cap2 \in Nat /\ n + (cap2 \div 2) < cap2
        BY <3>1, <4>2, <4>4
      <4>6. Ready(Rebuild(ks, n, cap2), ks, n, m, s) BY <4>5, <1>1, RebuiltReady
      <4> QED BY <3>3, <4>1, <4>6
    <3> QED BY <3>4, <3>5
  <2> QED BY <2>1, <2>2
<1>3. IndexAdd(x, ks, n, s) = [Put(x2, ks[s], s) EXCEPT !.budget = x2.budget - 1]
  BY <1>2 DEF IndexAdd
<1> HIDE DEF x2
<1>4. m \in 0..MaxLen /\ n \in Nat BY MapAssumption
<1>5. \A t \in 0..(m - 1) : ks[t] \in Key /\ (t # s => ks[s] # ks[t])
  <2>1. \A t \in 0..(m - 1) : t \in 0..(n - 1) OBVIOUS
  <2> QED BY <2>1
<1>6. PICK y : y = [Put(x2, ks[s], s) EXCEPT !.budget = x2.budget - 1] OBVIOUS
<1>7. IsIndex(y) /\ Roomy(y, n) /\ \A t \in 0..(m - 1) : Reaches(y, ks, t)
  BY <1>2, <1>4, <1>5, <1>6, Enters
<1> QED BY <1>3, <1>6, <1>7

(***************************************************************************)
(* The inductive invariant.  Each key is below the next one to be pushed;  *)
(* an index reaches every key at its slot and has room for the insertions  *)
(* its budget allows; a map without one is small enough for the first.     *)
(***************************************************************************)
KeysOK(ks, n, next) ==
  /\ ks \in [Slot -> Key \cup {NoKeyYet}]
  /\ n \in 0..MaxLen
  /\ next \in 0..(MaxKey + 1)
  /\ \A s \in 0..(n - 1) : ks[s] \in Key /\ ks[s] < next
  /\ \A r, s \in 0..(n - 1) : ks[r] = ks[s] => r = s

Unindexed(x, n) == x = NoIndex /\ n + 1 + (FirstICap \div 2) < FirstICap

Indexes(x, ks, n) == IsIndex(x) /\ Roomy(x, n) /\ \A t \in 0..(n - 1) : Reaches(x, ks, t)

HashInv == KeysOK(keys, len, next_index) /\ (Unindexed(ix, len) \/ Indexes(ix, keys, len))

\* The entries of a key are those that hold it.
LEMMA EntriesHold ==
  ASSUME NEW k, NEW v \in Int
  PROVE  v \in EntriesOf(k) <=> Holds(keys, v, k)
<1>1. \A s \in Slot : s \in Int BY MapAssumption DEF Slot
<1>2. ASSUME Holds(keys, v, k) PROVE v \in EntriesOf(k)
  <2>1. v - 1 \in Slot /\ keys[v - 1] = k /\ v = (v - 1) + 1 BY <1>2 DEF Holds
  <2> QED BY <2>1 DEF EntriesOf
<1>3. ASSUME v \in EntriesOf(k) PROVE Holds(keys, v, k)
  <2>1. PICK s \in Slot : keys[s] = k /\ v = s + 1 BY <1>3 DEF EntriesOf
  <2>2. v - 1 = s BY <2>1, <1>1
  <2>3. keys[v - 1] = keys[s] BY <2>2
  <2> QED BY <2>1, <2>2, <2>3 DEF Holds
<1> QED BY <1>2, <1>3

\* Where the probe for a key stops.
LEMMA KeyProbe ==
  ASSUME Indexes(ix, keys, len), len \in Nat, NEW k \in Key
  PROVE  \E p \in 0..(ix.cap - 1) :
           LET v == ix.e[SlotAt(ix, k, p)]
           IN  /\ v = 0 \/ Holds(keys, v, k)
               /\ v \in Int
               /\ KeyIndex(k) = IF v = 0 THEN -1 ELSE v - 1
               /\ \A q \in 0..(p - 1) :
                    /\ ix.e[SlotAt(ix, k, q)] # 0
                    /\ ~ Holds(keys, ix.e[SlotAt(ix, k, q)], k)
<1> DEFINE p == FirstOn(ix, k, {0} \cup EntriesOf(k))
<1>1. IsIndex(ix) /\ ix.cap \in Nat \ {0} /\ ix.budget \in Nat
  BY IndexFields DEF Indexes
<1>2. Cardinality(Filled(ix)) < ix.cap
  <2>1. Cardinality(Filled(ix)) \in Nat BY <1>1, FilledFinite
  <2>2. Cardinality(Filled(ix)) + ix.budget < ix.cap BY DEF Indexes, Roomy
  <2> QED BY <1>1, <2>1, <2>2
<1>3. \E j \in 0..(ix.cap - 1) : ix.e[j] \in {0} \cup EntriesOf(k)
  BY <1>1, <1>2, EmptyEntry
<1>4. /\ p \in 0..(ix.cap - 1)
      /\ ix.e[SlotAt(ix, k, p)] \in {0} \cup EntriesOf(k)
      /\ \A q \in 0..(p - 1) : ix.e[SlotAt(ix, k, q)] \notin {0} \cup EntriesOf(k)
  BY <1>1, <1>3, Probe
<1>5. KeyIndex(k) = IF ix.e[SlotAt(ix, k, p)] = 0 THEN -1 ELSE ix.e[SlotAt(ix, k, p)] - 1
  BY <1>1 DEF KeyIndex, Indexed
<1> HIDE DEF p
<1>6. ASSUME NEW q \in 0..p PROVE ix.e[SlotAt(ix, k, q)] \in Int
  <2>1. q \in Nat BY <1>4
  <2>2. SlotAt(ix, k, q) \in 0..(ix.cap - 1) BY <2>1, <1>1, SlotInIndex
  <2> QED BY <2>2, <1>1, IndexFields
<1>7. p \in 0..p BY <1>4
<1>8. \A q \in 0..(p - 1) : /\ ix.e[SlotAt(ix, k, q)] # 0
                            /\ ~ Holds(keys, ix.e[SlotAt(ix, k, q)], k)
  <2> SUFFICES ASSUME NEW q \in 0..(p - 1)
               PROVE  ix.e[SlotAt(ix, k, q)] # 0 /\ ~ Holds(keys, ix.e[SlotAt(ix, k, q)], k)
    OBVIOUS
  <2>1. q \in 0..p BY <1>4
  <2>2. ix.e[SlotAt(ix, k, q)] \in Int BY <2>1, <1>6
  <2> QED BY <2>2, <1>4, EntriesHold
<1>9. ix.e[SlotAt(ix, k, p)] = 0 \/ Holds(keys, ix.e[SlotAt(ix, k, p)], k)
  <2>1. ix.e[SlotAt(ix, k, p)] \in Int BY <1>6, <1>7
  <2> QED BY <2>1, <1>4, EntriesHold
<1> QED BY <1>4, <1>5, <1>6, <1>7, <1>8, <1>9

\* A key the map holds is found at its slot.
LEMMA Found ==
  ASSUME HashInv, NEW t \in 0..(len - 1)
  PROVE  KeyIndex(keys[t]) = t
<1>1. len \in Nat /\ keys[t] \in Key /\ t \in Nat
  BY MapAssumption DEF HashInv, KeysOK
<1>2. CASE Indexes(ix, keys, len)
  <2>1. PICK p \in 0..(ix.cap - 1) :
          LET v == ix.e[SlotAt(ix, keys[t], p)]
          IN  /\ v = 0 \/ Holds(keys, v, keys[t])
              /\ v \in Int
              /\ KeyIndex(keys[t]) = IF v = 0 THEN -1 ELSE v - 1
              /\ \A q \in 0..(p - 1) :
                   /\ ix.e[SlotAt(ix, keys[t], q)] # 0
                   /\ ~ Holds(keys, ix.e[SlotAt(ix, keys[t], q)], keys[t])
    BY <1>1, <1>2, KeyProbe
  <2>2. PICK p0 \in 0..(ix.cap - 1) :
          ix.e[SlotAt(ix, keys[t], p0)] = t + 1 /\ Clear(ix, keys, keys[t], t, p0)
    BY <1>2 DEF Indexes, Reaches
  <2>3. Holds(keys, t + 1, keys[t])
    <3>1. (t + 1) - 1 = t BY <1>1
    <3>2. t \in Slot BY <1>1, MapAssumption DEF HashInv, KeysOK, Slot
    <3>3. keys[(t + 1) - 1] = keys[t] BY <3>1, Zenon
    <3> QED BY <3>1, <3>2, <3>3, Zenon DEF Holds
  <2>4. p <= p0
    <3>1. CASE p0 < p
      <4>1. p0 \in 0..(p - 1) BY <3>1
      <4> QED BY <4>1, <2>1, <2>2, <2>3
    <3> QED BY <3>1
  <2>5. ix.e[SlotAt(ix, keys[t], p)] = t + 1
    <3>1. CASE p # p0
      <4>1. p \in 0..(p0 - 1) BY <3>1, <2>4
      <4> QED BY <4>1, <2>1, <2>2 DEF Clear
    <3> QED BY <3>1, <2>2
  <2> QED BY <2>1, <2>5, <1>1
<1>3. CASE Unindexed(ix, len)
  <2>1. ~ Indexed BY <1>3 DEF Unindexed, NoIndex, Indexed
  <2>2. t \in Live BY DEF Live
  <2>3. \A r, s \in Live : keys[r] = keys[s] => r = s BY DEF HashInv, KeysOK, Live
  <2>4. \A r \in 0..(t - 1) : keys[r] # keys[t]
    <3> SUFFICES ASSUME NEW r \in 0..(t - 1) PROVE keys[r] # keys[t] OBVIOUS
    <3>1. r \in Live /\ r # t BY <1>1 DEF Live
    <3> QED BY <3>1, <2>2, <2>3
  <2>5. (CHOOSE s \in Live : keys[s] = keys[t] /\ \A r \in 0..(s - 1) : keys[r] # keys[t]) = t
    BY <2>2, <2>3, <2>4
  <2> QED BY <2>1, <2>2, <2>5 DEF KeyIndex
<1> QED BY <1>2, <1>3 DEF HashInv

\* What is found in use holds the key.
LEMMA FoundHolds ==
  ASSUME HashInv, NEW k \in Key, KeyIndex(k) \in 0..(len - 1)
  PROVE  keys[KeyIndex(k)] = k
<1>1. len \in Nat BY MapAssumption DEF HashInv, KeysOK
<1>2. CASE Indexes(ix, keys, len)
  <2>1. PICK p \in 0..(ix.cap - 1) :
          LET v == ix.e[SlotAt(ix, k, p)]
          IN  /\ v = 0 \/ Holds(keys, v, k)
              /\ KeyIndex(k) = IF v = 0 THEN -1 ELSE v - 1
    BY <1>1, <1>2, KeyProbe
  <2>2. PICK v : v = ix.e[SlotAt(ix, k, p)] OBVIOUS
  <2>3. v # 0 /\ KeyIndex(k) = v - 1 BY <2>1, <2>2, <1>1
  <2>4. Holds(keys, v, k) BY <2>1, <2>2, <2>3
  <2>5. keys[v - 1] = k BY <2>4 DEF Holds
  <2> QED BY <2>3, <2>5, Zenon
<1>3. CASE Unindexed(ix, len)
  <2>1. ~ Indexed BY <1>3 DEF Unindexed, NoIndex, Indexed
  <2>2. \E s \in Live : keys[s] = k
    BY <2>1, <1>1 DEF KeyIndex
  <2>3. PICK s \in Live : keys[s] = k BY <2>2
  <2>4. KeyIndex(keys[s]) = s BY <2>3, Found DEF Live
  <2> QED BY <2>3, <2>4
<1> QED BY <1>2, <1>3 DEF HashInv

(***************************************************************************)
(* The operations keep the invariant.                                      *)
(***************************************************************************)
\* A key that stays in its slot stays reached when no other slot comes to hold it.
LEMMA Moved ==
  ASSUME NEW x, NEW ks, NEW ks2, NEW t, ks2[t] = ks[t],
         \A v : Holds(ks2, v, ks[t]) => Holds(ks, v, ks[t]),
         Reaches(x, ks, t)
  PROVE  Reaches(x, ks2, t)
<1>1. \A p : Clear(x, ks, ks[t], t, p) => Clear(x, ks2, ks2[t], t, p)
  BY DEF Clear
<1> QED BY <1>1 DEF Reaches

\* A map without an index has none.
LEMMA NotIndexed ==
  ASSUME HashInv
  PROVE  /\ ~ Indexed => Unindexed(ix, len)
         /\ Unindexed(ix, len) => ~ Indexed /\ ix.cap = 0
         /\ Indexes(ix, keys, len) => Indexed /\ ix.cap # 0
<1>1. ASSUME Unindexed(ix, len) PROVE ~ Indexed /\ ix.cap = 0
  BY <1>1 DEF Unindexed, NoIndex, Indexed
<1>2. ASSUME Indexes(ix, keys, len) PROVE Indexed /\ ix.cap # 0
  <2>1. ix.cap \in Nat \ {0} BY <1>2, IndexFields DEF Indexes
  <2> QED BY <2>1 DEF Indexed
<1> QED BY <1>1, <1>2 DEF HashInv

\* hp_arr_set of a new key.
LEMMA SetKeepsInv ==
  ASSUME HashInv, NEW k \in Key, Set(k)
  PROVE  HashInv'
<1>1. /\ len < MaxLen /\ KeyIndex(k) = -1
      /\ keys' = [keys EXCEPT ![len] = k] /\ len' = len + 1
      /\ ix' = IndexAdd(ix, keys', len', len)
      /\ next_index' = IF k >= next_index THEN k + 1 ELSE next_index
  BY DEF Set
<1>2. KeysOK(keys, len, next_index) BY DEF HashInv
<1>3. len \in Nat /\ MaxLen \in Nat /\ MaxKey \in Nat /\ keys \in [Slot -> Key \cup {NoKeyYet}] /\ len \in Slot
  BY <1>1, <1>2, MapAssumption DEF KeysOK, Slot
<1>4. PICK ks : ks = keys' OBVIOUS
<1>5. PICK n : n = len + 1 OBVIOUS
<1>6. \A s \in Slot : ks[s] = IF s = len THEN k ELSE keys[s]
  BY <1>1, <1>3, <1>4
<1>7. \A s \in 0..(len - 1) : keys[s] # k
  <2> SUFFICES ASSUME NEW s \in 0..(len - 1), keys[s] = k PROVE FALSE
    OBVIOUS
  <2>1. KeyIndex(keys[s]) = s BY Found
  <2> QED BY <2>1, <1>1, <1>3
<1>8. n \in 1..MaxLen /\ n - 1 = len /\ 0..(n - 1) \subseteq Slot
  BY <1>1, <1>3, <1>5 DEF Slot
<1>9. \A r \in 0..(n - 1) : ks[r] \in Key /\ ks[r] < next_index'
  <2> SUFFICES ASSUME NEW r \in 0..(n - 1) PROVE ks[r] \in Key /\ ks[r] < next_index'
    OBVIOUS
  <2>1. CASE r = len
    <3>1. ks[r] = k BY <2>1, <1>6, <1>8
    <3>2. k < next_index' BY <1>1, <1>2 DEF KeysOK, Key
    <3> QED BY <3>1, <3>2
  <2>2. CASE r # len
    <3>1. r \in 0..(len - 1) /\ ks[r] = keys[r] BY <2>2, <1>6, <1>8
    <3>2. keys[r] \in Key /\ keys[r] < next_index BY <3>1, <1>2 DEF KeysOK
    <3>3. next_index <= next_index' BY <1>1, <1>2 DEF KeysOK, Key
    <3> QED BY <3>1, <3>2, <3>3, <1>1, <1>2 DEF KeysOK, Key
  <2> QED BY <2>1, <2>2
<1>10. \A t, u \in 0..(n - 1) : ks[t] = ks[u] => t = u
  <2> SUFFICES ASSUME NEW t \in 0..(n - 1), NEW u \in 0..(n - 1), ks[t] = ks[u] PROVE t = u
    OBVIOUS
  <2>1. t \in Slot /\ u \in Slot BY <1>8
  <2>2. t = len \/ t \in 0..(len - 1) BY <1>8
  <2>3. u = len \/ u \in 0..(len - 1) BY <1>8
  <2> QED BY <2>1, <2>2, <2>3, <1>2, <1>6, <1>7 DEF KeysOK
<1>11. KeysOK(keys', len', next_index')
  <2>1. ks \in [Slot -> Key \cup {NoKeyYet}] BY <1>1, <1>3, <1>4
  <2>2. next_index' \in 0..(MaxKey + 1) BY <1>1, <1>2, <1>3 DEF KeysOK, Key
  <2>3. n \in 0..MaxLen BY <1>8
  <2> QED BY <2>1, <2>2, <2>3, <1>1, <1>4, <1>5, <1>9, <1>10 DEF KeysOK
<1>12. ix' = IndexAdd(ix, ks, n, len) BY <1>1, <1>4, <1>5
<1>13. CASE Unindexed(ix, len)
  <2>1. ix = NoIndex /\ n + (FirstICap \div 2) < FirstICap /\ ix.cap = 0
    BY <1>5, <1>13, NotIndexed DEF Unindexed
  <2>2. CASE n < MinIndex
    <3>1. ix' = ix BY <2>1, <2>2, <1>12 DEF IndexAdd
    <3>2. n + 1 + (FirstICap \div 2) < FirstICap
      BY <2>2, <1>8, MapAssumption
    <3>3. Unindexed(ix', len') BY <2>1, <3>1, <3>2, <1>1, <1>5 DEF Unindexed
    <3> QED BY <3>3, <1>11 DEF HashInv
  <2>3. CASE ~ (n < MinIndex)
    <3>1. n >= MinIndex BY <2>3, <1>8, MapAssumption
    <3>2. n \in 1..n /\ len \in 0..(n - 1) BY <1>3, <1>8
    <3>3. /\ IsIndex(ix') /\ Roomy(ix', n)
          /\ \A t \in 0..(n - 1) : Reaches(ix', ks, t)
      BY <2>1, <3>1, <3>2, <1>8, <1>9, <1>10, <1>12, IndexAdded
    <3>4. Indexes(ix', keys', len') BY <3>3, <1>1, <1>4, <1>5 DEF Indexes
    <3> QED BY <3>4, <1>11 DEF HashInv
  <2> QED BY <2>2, <2>3
<1>14. CASE Indexes(ix, keys, len)
  <2>1. IsIndex(ix) /\ ix.cap \in Nat \ {0} /\ ix.budget \in Nat
    BY <1>14, IndexFields DEF Indexes
  <2>2. Cardinality(Filled(ix)) + ix.budget < ix.cap /\ n + ix.budget < ix.cap
    <3>1. len + ix.budget + 1 < ix.cap BY <1>14 DEF Indexes, Roomy
    <3> QED BY <2>1, <3>1, <1>3, <1>5, <1>14 DEF Indexes, Roomy
  <2>3. ASSUME NEW t \in 0..(n - 1), t # len PROVE Reaches(ix, ks, t)
    <3>1. t \in 0..(len - 1) /\ t \in Slot BY <2>3, <1>8
    <3>2. ks[t] = keys[t] /\ keys[t] # k BY <3>1, <1>6, <1>7, <2>3
    <3>3. \A v : Holds(ks, v, keys[t]) => Holds(keys, v, keys[t])
      BY <3>2, <1>6 DEF Holds
    <3>4. Reaches(ix, keys, t) BY <3>1, <1>14 DEF Indexes
    <3> QED BY <3>2, <3>3, <3>4, Moved
  <2>4. PICK p \in 0..(ix.cap - 1) :
          LET v == ix.e[SlotAt(ix, k, p)]
          IN  /\ v = 0 \/ Holds(keys, v, k)
              /\ v \in Int
              /\ KeyIndex(k) = IF v = 0 THEN -1 ELSE v - 1
              /\ \A q \in 0..(p - 1) :
                   /\ ix.e[SlotAt(ix, k, q)] # 0
                   /\ ~ Holds(keys, ix.e[SlotAt(ix, k, q)], k)
    BY <1>3, <1>14, KeyProbe
  <2>5. ix.e[SlotAt(ix, k, p)] = 0
    <3>1. PICK v : v = ix.e[SlotAt(ix, k, p)] OBVIOUS
    <3>2. v \in Int /\ (v = 0 \/ v - 1 = -1) BY <2>4, <3>1, <1>1
    <3> QED BY <3>1, <3>2
  <2>6. ks[len] = k BY <1>3, <1>6
  <2>7. Clear(ix, ks, k, len, p)
    <3> SUFFICES ASSUME NEW q \in 0..(p - 1)
                 PROVE  /\ ix.e[SlotAt(ix, k, q)] # 0
                        /\ Holds(ks, ix.e[SlotAt(ix, k, q)], k) => ix.e[SlotAt(ix, k, q)] = len + 1
      BY DEF Clear
    <3>1. PICK v : v = ix.e[SlotAt(ix, k, q)] OBVIOUS
    <3>2. v # 0 /\ ~ Holds(keys, v, k) BY <2>4, <3>1
    <3>3. v \in Int
      <4>1. q \in Nat BY <2>1
      <4>2. SlotAt(ix, k, q) \in 0..(ix.cap - 1) BY <4>1, <2>1, SlotInIndex
      <4> QED BY <4>2, <3>1, <2>1, IndexFields
    <3>4. ASSUME Holds(ks, v, k) PROVE v = len + 1
      <4>1. v - 1 \in Slot /\ ks[v - 1] = k BY <3>4 DEF Holds
      <4>2. v - 1 = len BY <4>1, <3>2, <1>6 DEF Holds
      <4> QED BY <4>2, <3>3
    <3> QED BY <3>1, <3>2, <3>4
  <2>8. Open(ix, ks, len) BY <2>5, <2>6, <2>7 DEF Open
  <2>9. n \in 1..n /\ len \in 0..(n - 1) BY <1>3, <1>8
  <2>10. /\ IsIndex(ix') /\ Roomy(ix', n)
         /\ \A t \in 0..(n - 1) : Reaches(ix', ks, t)
    BY <2>1, <2>2, <2>3, <2>8, <2>9, <1>8, <1>9, <1>10, <1>12, IndexAdded
  <2>11. Indexes(ix', keys', len') BY <2>10, <1>1, <1>4, <1>5 DEF Indexes
  <2> QED BY <2>11, <1>11 DEF HashInv
<1> QED BY <1>13, <1>14 DEF HashInv

\* hp_arr_unset of the last key.
LEMMA UnsetLastKeepsInv ==
  ASSUME HashInv, NEW i \in 0..(len - 1), i = len - 1,
         keys' = keys, len' = len - 1, next_index' = next_index, ix' = IndexDel(ix, keys, i)
  PROVE  HashInv'
<1>1. KeysOK(keys, len, next_index) BY DEF HashInv
<1>2. len \in Nat /\ i \in Slot /\ keys[i] \in Key /\ 0..(len - 1) \subseteq Slot
  BY <1>1, MapAssumption DEF KeysOK, Slot
<1>3. KeysOK(keys', len', next_index')
  <2>1. 0..(len' - 1) \subseteq 0..(len - 1) BY <1>2
  <2>2. len' \in 0..MaxLen BY <1>1, <1>2, MapAssumption DEF KeysOK
  <2> QED BY <2>1, <2>2, <1>1 DEF KeysOK
<1>4. CASE Unindexed(ix, len)
  <2>1. ix.cap = 0 BY <1>4, NotIndexed
  <2>2. ix' = ix BY <2>1 DEF IndexDel
  <2>3. Unindexed(ix', len')
    BY <2>2, <1>2, <1>4, MapAssumption DEF Unindexed
  <2> QED BY <2>3, <1>3 DEF HashInv
<1>5. CASE Indexes(ix, keys, len)
  <2>1. IsIndex(ix) /\ ix.cap \in Nat \ {0} /\ ix.budget \in Nat /\ Roomy(ix, len)
    BY <1>5, IndexFields DEF Indexes
  <2>2. Cardinality(Filled(ix)) \in Nat BY <2>1, FilledFinite
  <2>3. Cardinality(Filled(ix)) < ix.cap BY <2>1, <2>2 DEF Roomy
  <2>4. PICK y : y = IndexDel(ix, keys, i) OBVIOUS
  <2>5. IsIndex(y) /\ y.cap = ix.cap /\ y.budget = ix.budget /\ Filled(y) = Filled(ix)
    BY <2>1, <2>3, <2>4, <1>2, DelFields
  <2>6. Roomy(y, len - 1)
    BY <2>1, <2>5, <1>2 DEF Roomy
  <2>7. ASSUME NEW t \in 0..((len - 1) - 1) PROVE Reaches(y, keys, t)
    <3>1. t \in 0..(len - 1) /\ t # i BY <1>2
    <3>2. t \in Slot /\ keys[t] \in Key /\ Reaches(ix, keys, t)
      BY <3>1, <1>1, <1>2, <1>5 DEF KeysOK, Indexes
    <3> QED BY <3>1, <3>2, <2>1, <2>3, <2>4, <1>2, DelKeeps
  <2>8. Indexes(ix', keys', len') BY <2>4, <2>5, <2>6, <2>7 DEF Indexes
  <2> QED BY <2>8, <1>3 DEF HashInv
<1> QED BY <1>4, <1>5 DEF HashInv

\* hp_arr_unset of another key: the last one moves into its slot.
LEMMA UnsetMovesKeepsInv ==
  ASSUME HashInv, NEW i \in 0..(len - 1), NEW last, last = len - 1, i # last,
         keys' = [keys EXCEPT ![i] = keys[last]], len' = last, next_index' = next_index,
         ix' = IF Indexed
               THEN IndexAdd(IndexDel(IndexDel(ix, keys, i), keys, last), keys', len, i)
               ELSE ix
  PROVE  HashInv'
<1>1. KeysOK(keys, len, next_index) BY DEF HashInv
<1>2. len \in 1..MaxLen /\ i \in Slot /\ last \in Slot /\ keys[i] \in Key /\ keys[last] \in Key
  BY <1>1, MapAssumption DEF KeysOK, Slot
<1>3. last \in Nat /\ last \in 1..len /\ i \in 0..(last - 1) /\ 0..(len - 1) \subseteq Slot
      /\ last \in 0..(len - 1) /\ 0..(last - 1) \subseteq 0..(len - 1)
  BY <1>2, MapAssumption DEF Slot
<1>4. PICK ks : ks = keys' OBVIOUS
<1>5. ks \in [Slot -> Key \cup {NoKeyYet}] /\ \A s \in Slot : ks[s] = IF s = i THEN keys[last] ELSE keys[s]
  BY <1>1, <1>2, <1>4 DEF KeysOK
<1>6. \A r \in 0..(len - 1) : ks[r] \in Key /\ ks[r] < next_index
  BY <1>1, <1>3, <1>5 DEF KeysOK
<1>7. \A t, u \in 0..(last - 1) : ks[t] = ks[u] => t = u
  <2> SUFFICES ASSUME NEW t \in 0..(last - 1), NEW u \in 0..(last - 1), ks[t] = ks[u] PROVE t = u
    OBVIOUS
  <2>1. t \in 0..(len - 1) /\ u \in 0..(len - 1) /\ t # last /\ u # last BY <1>3
  <2>2. t \in Slot /\ u \in Slot BY <2>1, <1>3
  <2>3. \A r, s \in 0..(len - 1) : keys[r] = keys[s] => r = s BY <1>1 DEF KeysOK
  <2> QED BY <2>1, <2>2, <2>3, <1>3, <1>5
<1>8. KeysOK(keys', len', next_index')
  <2>1. last \in 0..MaxLen BY <1>2, <1>3, MapAssumption
  <2>2. \A r \in 0..(last - 1) : ks[r] \in Key /\ ks[r] < next_index
    BY <1>3, <1>6
  <2>3. next_index \in 0..(MaxKey + 1) BY <1>1 DEF KeysOK
  <2> QED BY <2>1, <2>2, <2>3, <1>4, <1>5, <1>7 DEF KeysOK
<1>9. CASE Unindexed(ix, len)
  <2>1. ix' = ix BY <1>9, NotIndexed
  <2>2. Unindexed(ix', len')
    BY <2>1, <1>2, <1>9, MapAssumption DEF Unindexed
  <2> QED BY <2>2, <1>8 DEF HashInv
<1>10. CASE Indexes(ix, keys, len)
  <2>1. IsIndex(ix) /\ ix.cap \in Nat \ {0} /\ ix.budget \in Nat /\ Roomy(ix, len)
    BY <1>10, IndexFields DEF Indexes
  <2>2. Cardinality(Filled(ix)) \in Nat BY <2>1, FilledFinite
  <2>3. Cardinality(Filled(ix)) < ix.cap BY <2>1, <2>2 DEF Roomy
  <2>4. PICK x1 : x1 = IndexDel(ix, keys, i) OBVIOUS
  <2>5. IsIndex(x1) /\ x1.cap = ix.cap /\ x1.budget = ix.budget /\ Filled(x1) = Filled(ix)
    BY <2>1, <2>3, <2>4, <1>2, DelFields
  <2>6. ASSUME NEW t \in 0..(len - 1), t # i PROVE Reaches(x1, keys, t)
    <3>1. t \in Slot /\ keys[t] \in Key /\ Reaches(ix, keys, t)
      BY <1>1, <1>3, <1>10 DEF KeysOK, Indexes
    <3> QED BY <3>1, <2>1, <2>3, <2>4, <2>6, <1>2, DelKeeps
  <2>7. Cardinality(Filled(x1)) < x1.cap BY <2>3, <2>5
  <2>8. PICK x2 : x2 = IndexDel(x1, keys, last) OBVIOUS
  <2>9. IsIndex(x2) /\ x2.cap = ix.cap /\ x2.budget = ix.budget /\ Filled(x2) = Filled(ix)
    BY <2>5, <2>7, <2>8, <1>2, DelFields
  <2>10. ASSUME NEW t \in 0..(last - 1), t # i PROVE Reaches(x2, ks, t)
    <3>1. t \in 0..(len - 1) /\ t # last BY <1>3
    <3>2. t \in Slot /\ keys[t] \in Key /\ Reaches(x1, keys, t)
      BY <3>1, <2>6, <2>10, <1>1, <1>3 DEF KeysOK
    <3>3. Reaches(x2, keys, t)
      BY <3>1, <3>2, <2>5, <2>7, <2>8, <1>2, DelKeeps
    <3>4. ks[t] = keys[t] /\ keys[t] # keys[last]
      BY <3>1, <3>2, <2>10, <1>1, <1>3, <1>5 DEF KeysOK
    <3>5. \A v : Holds(ks, v, keys[t]) => Holds(keys, v, keys[t])
      BY <3>4, <1>5 DEF Holds
    <3> QED BY <3>3, <3>4, <3>5, Moved
  <2>11. Reaches(x1, keys, last) BY <2>6, <1>3
  <2>12. PICK p \in 0..(x1.cap - 1) :
           /\ x2.e[SlotAt(x1, keys[last], p)] = Tomb
           /\ \A q \in 0..(p - 1) :
                /\ x2.e[SlotAt(x1, keys[last], q)] # 0
                /\ ~ Holds(keys, x2.e[SlotAt(x1, keys[last], q)], keys[last])
    BY <2>5, <2>7, <2>8, <2>11, <1>2, DelOpens
  <2>13. \A q : SlotAt(x2, keys[last], q) = SlotAt(x1, keys[last], q)
    BY <2>5, <2>9 DEF SlotAt
  <2>14. ks[i] = keys[last] BY <1>2, <1>5
  <2>15. Clear(x2, ks, ks[i], i, p)
    <3> SUFFICES ASSUME NEW q \in 0..(p - 1)
                 PROVE  /\ x2.e[SlotAt(x2, keys[last], q)] # 0
                        /\ Holds(ks, x2.e[SlotAt(x2, keys[last], q)], keys[last])
                             => x2.e[SlotAt(x2, keys[last], q)] = i + 1
      BY <2>14 DEF Clear
    <3>1. PICK v : v = x2.e[SlotAt(x2, keys[last], q)] OBVIOUS
    <3>2. v # 0 /\ ~ Holds(keys, v, keys[last]) BY <2>12, <2>13, <3>1
    <3>3. v \in Int
      <4>1. q \in Nat /\ x2.cap \in Nat \ {0} BY <2>1, <2>5, <2>9
      <4>2. SlotAt(x2, keys[last], q) \in 0..(x2.cap - 1) BY <4>1, <1>2, SlotInIndex
      <4> QED BY <4>2, <3>1, <2>9, IndexFields
    <3>4. ASSUME Holds(ks, v, keys[last]) PROVE v = i + 1
      <4>1. v - 1 \in Slot /\ ks[v - 1] = keys[last] BY <3>4 DEF Holds
      <4>2. v - 1 = i BY <4>1, <3>2, <1>5 DEF Holds
      <4> QED BY <4>2, <3>3
    <3> QED BY <3>1, <3>2, <3>4
  <2>16. Open(x2, ks, i)
    BY <2>5, <2>9, <2>12, <2>13, <2>14, <2>15 DEF Open
  <2>17. ix' = IndexAdd(x2, ks, len, i)
    <3>1. Indexed BY <1>10, NotIndexed
    <3> QED BY <3>1, <2>4, <2>8, <1>4
  <2>18. Cardinality(Filled(x2)) + x2.budget < x2.cap /\ len + x2.budget < x2.cap
    BY <2>1, <2>2, <2>9, <1>2 DEF Roomy
  <2>19. /\ IsIndex(ix') /\ Roomy(ix', len)
         /\ \A t \in 0..(last - 1) : Reaches(ix', ks, t)
    <3>1. \A r \in 0..(len - 1) : ks[r] \in Key BY <1>6
    <3>2. /\ IsIndex(IndexAdd(x2, ks, len, i)) /\ Roomy(IndexAdd(x2, ks, len, i), len)
          /\ \A t \in 0..(last - 1) : Reaches(IndexAdd(x2, ks, len, i), ks, t)
      BY <3>1, <2>9, <2>10, <2>16, <2>18, <1>2, <1>3, <1>7, IndexAdded
    <3> QED BY <3>2, <2>17, Zenon
  <2>20. Roomy(ix', last)
    <3>1. ix'.cap \in Nat /\ ix'.budget \in Nat BY <2>19, IndexFields
    <3> QED BY <3>1, <2>19, <1>2 DEF Roomy
  <2>21. Indexes(ix', keys', len') BY <2>19, <2>20, <1>4 DEF Indexes
  <2> QED BY <2>21, <1>8 DEF HashInv
<1> QED BY <1>9, <1>10 DEF HashInv

\* hp_arr_unset, by a program that removes keys it holds.
LEMMA UnsetKeepsInv ==
  ASSUME HashInv, Careful = TRUE, NEW k \in Key, Unset(k)
  PROVE  HashInv'
<1>1. PICK i : i = KeyIndex(k) OBVIOUS
<1>2. PICK last : last = len - 1 OBVIOUS
<1>3. /\ i >= 0 /\ i < len
      /\ IF i = last
         THEN ix' = IndexDel(ix, keys, i) /\ keys' = keys
         ELSE /\ keys' = [keys EXCEPT ![i] = keys[last]]
              /\ ix' = IF Indexed
                       THEN IndexAdd(IndexDel(IndexDel(ix, keys, i), keys, last), keys', len, i)
                       ELSE ix
      /\ len' = last /\ next_index' = next_index
  BY <1>1, <1>2 DEF Unset
<1>4. len \in Nat /\ KeyIndex(k) \in Int
  <2>1. len \in Nat BY MapAssumption DEF HashInv, KeysOK
  <2>2. CASE Indexes(ix, keys, len)
    <3>1. PICK p \in 0..(ix.cap - 1) :
            LET v == ix.e[SlotAt(ix, k, p)]
            IN  /\ v \in Int
                /\ KeyIndex(k) = IF v = 0 THEN -1 ELSE v - 1
      BY <2>1, <2>2, KeyProbe
    <3>2. PICK v : v = ix.e[SlotAt(ix, k, p)] OBVIOUS
    <3> QED BY <3>1, <3>2, <2>1
  <2>3. CASE Unindexed(ix, len)
    <3>1. ~ Indexed BY <2>3, NotIndexed
    <3>2. CASE \E s \in Live : keys[s] = k
      <4>1. PICK s \in Live : keys[s] = k BY <3>2
      <4>2. KeyIndex(k) = s BY <4>1, Found DEF Live
      <4> QED BY <4>2, <2>1 DEF Live
    <3>3. CASE ~ \E s \in Live : keys[s] = k
      <4>1. KeyIndex(k) = -1 BY <3>1, <3>3 DEF KeyIndex
      <4> QED BY <4>1, <2>1
    <3> QED BY <3>2, <3>3
  <2> QED BY <2>2, <2>3 DEF HashInv
<1>5. i \in 0..(len - 1) BY <1>1, <1>3, <1>4
<1>6. CASE i = last
  BY <1>2, <1>3, <1>5, <1>6, UnsetLastKeepsInv
<1>7. CASE i # last
  BY <1>2, <1>3, <1>5, <1>7, UnsetMovesKeepsInv
<1> QED BY <1>6, <1>7

\* A map without an index: its keys may move, as long as they stay apart and it stays small.
LEMMA MovesKeepInv ==
  ASSUME KeysOK(keys', len', next_index'), ix' = NoIndex,
         len' + 1 + (FirstICap \div 2) < FirstICap
  PROVE  HashInv'
BY DEF HashInv, Unindexed

\* hp_arr_push and hp_arr_unshift, hp_arr_pop and hp_arr_shift, of a map without an index.
LEMMA EndsKeepInv ==
  ASSUME HashInv, Careful = TRUE, Push \/ Unshift \/ Pop \/ Shift
  PROVE  HashInv'
<1>1. KeysOK(keys, len, next_index) BY DEF HashInv
<1>2. len \in Nat /\ MaxLen \in Nat /\ MaxKey \in Nat /\ next_index \in Nat /\ len <= MaxLen
      /\ keys \in [Slot -> Key \cup {NoKeyYet}]
  BY <1>1, MapAssumption DEF KeysOK
<1>3. ~ Indexed /\ ix' = ix
  BY DEF MayMoveSlots, Push, Unshift, Pop, Shift
<1>4. Unindexed(ix, len) BY <1>3, NotIndexed
<1>5. ix' = NoIndex /\ len + 1 + (FirstICap \div 2) < FirstICap
  BY <1>3, <1>4 DEF Unindexed
<1>6. FirstICap \in Nat BY MapAssumption
<1>7. CASE Push
  <2>1. /\ len < MaxLen /\ next_index <= MaxKey /\ FitsFirstIndex(len + 1)
        /\ keys' = [keys EXCEPT ![len] = next_index]
        /\ len' = len + 1 /\ next_index' = next_index + 1
    BY <1>7 DEF Push
  <2>2. len \in Slot /\ next_index \in Key /\ 0..((len + 1) - 1) \subseteq Slot
    BY <1>2, <2>1 DEF Slot, Key
  <2>3. keys' \in [Slot -> Key \cup {NoKeyYet}]
        /\ \A s \in Slot : keys'[s] = IF s = len THEN next_index ELSE keys[s]
    BY <1>2, <2>1, <2>2
  <2>4. ASSUME NEW s \in 0..((len + 1) - 1)
        PROVE  /\ keys'[s] \in Key /\ keys'[s] < next_index + 1
               /\ s # len => s \in 0..(len - 1) /\ keys'[s] = keys[s] /\ keys[s] < next_index
    <3>1. CASE s = len BY <3>1, <2>2, <2>3, <1>2
    <3>2. CASE s # len
      <4>1. s \in 0..(len - 1) BY <3>2, <1>2
      <4>2. keys[s] \in Key /\ keys[s] < next_index BY <4>1, <1>1 DEF KeysOK
      <4>3. keys'[s] = keys[s] BY <3>2, <2>2, <2>3
      <4> QED BY <4>1, <4>2, <4>3, <1>2 DEF Key
    <3> QED BY <3>1, <3>2
  <2>5. ASSUME NEW r \in 0..((len + 1) - 1), NEW s \in 0..((len + 1) - 1), keys'[r] = keys'[s]
        PROVE  r = s
    <3>1. r \in Slot /\ s \in Slot BY <2>2
    <3>2. \A a, b \in 0..(len - 1) : keys[a] = keys[b] => a = b BY <1>1 DEF KeysOK
    <3>3. ~ (next_index < next_index) BY <1>2
    <3> QED BY <2>3, <2>4, <2>5, <3>1, <3>2, <3>3
  <2>6. KeysOK(keys', len', next_index')
    <3>1. len + 1 \in 0..MaxLen /\ next_index + 1 \in 0..(MaxKey + 1) BY <1>2, <2>1
    <3> QED BY <2>1, <2>3, <2>4, <2>5, <3>1 DEF KeysOK
  <2>7. (len + 1) + 1 + (FirstICap \div 2) < FirstICap BY <2>1 DEF FitsFirstIndex
  <2> QED BY <2>1, <2>6, <2>7, <1>5, MovesKeepInv
<1>8. CASE Unshift
  <2>1. /\ len < MaxLen /\ next_index <= MaxKey /\ FitsFirstIndex(len + 1)
        /\ keys' = [s \in Slot |-> IF s = 0 THEN next_index
                                   ELSE IF s <= len THEN keys[s - 1] ELSE keys[s]]
        /\ len' = len + 1 /\ next_index' = next_index + 1
    BY <1>8 DEF Unshift
  <2>2. next_index \in Key /\ 0..((len + 1) - 1) \subseteq Slot
    BY <1>2, <2>1 DEF Slot, Key
  <2>3. \A s \in Slot : keys'[s] = IF s = 0 THEN next_index
                                   ELSE IF s <= len THEN keys[s - 1] ELSE keys[s]
    BY <2>1
  <2>4. keys' \in [Slot -> Key \cup {NoKeyYet}]
    <3>1. ASSUME NEW s \in Slot, s # 0 PROVE s - 1 \in Slot BY <3>1, <1>2 DEF Slot
    <3> QED BY <3>1, <1>2, <2>1, <2>2
  <2>5. ASSUME NEW s \in 0..((len + 1) - 1)
        PROVE  /\ keys'[s] \in Key /\ keys'[s] < next_index + 1
               /\ s # 0 => s - 1 \in 0..(len - 1) /\ keys'[s] = keys[s - 1] /\ keys[s - 1] < next_index
    <3>1. CASE s = 0 BY <3>1, <2>2, <2>3, <1>2
    <3>2. CASE s # 0
      <4>1. s - 1 \in 0..(len - 1) /\ s <= len BY <3>2, <1>2
      <4>2. keys[s - 1] \in Key /\ keys[s - 1] < next_index BY <4>1, <1>1 DEF KeysOK
      <4>3. keys'[s] = keys[s - 1] BY <3>2, <4>1, <2>2, <2>3
      <4> QED BY <4>1, <4>2, <4>3, <1>2 DEF Key
    <3> QED BY <3>1, <3>2
  <2>6. ASSUME NEW r \in 0..((len + 1) - 1), NEW s \in 0..((len + 1) - 1), keys'[r] = keys'[s]
        PROVE  r = s
    <3>1. \A a, b \in 0..(len - 1) : keys[a] = keys[b] => a = b BY <1>1 DEF KeysOK
    <3>2. r \in Slot /\ s \in Slot /\ ~ (next_index < next_index) BY <1>2, <2>2
    <3>3. CASE r = 0 \/ s = 0
      <4>1. \A u \in 0..((len + 1) - 1) : u = 0 => keys'[u] = next_index BY <2>2, <2>3
      <4> QED BY <2>5, <2>6, <3>2, <3>3, <4>1
    <3>4. CASE r # 0 /\ s # 0
      <4>1. keys[r - 1] = keys[s - 1] /\ r - 1 \in 0..(len - 1) /\ s - 1 \in 0..(len - 1)
        BY <2>5, <2>6, <3>4
      <4>2. r - 1 = s - 1 BY <3>1, <4>1
      <4> QED BY <4>2, <1>2
    <3> QED BY <3>3, <3>4
  <2>7. KeysOK(keys', len', next_index')
    <3>1. len + 1 \in 0..MaxLen /\ next_index + 1 \in 0..(MaxKey + 1) BY <1>2, <2>1
    <3> QED BY <2>1, <2>4, <2>5, <2>6, <3>1 DEF KeysOK
  <2>8. (len + 1) + 1 + (FirstICap \div 2) < FirstICap BY <2>1 DEF FitsFirstIndex
  <2> QED BY <2>1, <2>7, <2>8, <1>5, MovesKeepInv
<1>9. CASE Pop
  <2>1. len > 0 /\ len' = len - 1 /\ keys' = keys /\ next_index' = next_index
    BY <1>9 DEF Pop
  <2>2. len - 1 \in 0..MaxLen /\ 0..((len - 1) - 1) \subseteq 0..(len - 1) BY <1>2, <2>1
  <2>3. KeysOK(keys', len', next_index') BY <2>1, <2>2, <1>1 DEF KeysOK
  <2>4. (len - 1) + 1 + (FirstICap \div 2) < FirstICap BY <1>2, <1>5, <1>6
  <2> QED BY <2>1, <2>3, <2>4, <1>5, MovesKeepInv
<1>10. CASE Shift
  <2>1. /\ len > 0 /\ len' = len - 1 /\ next_index' = next_index
        /\ keys' = [s \in Slot |-> IF s < len - 1 THEN keys[s + 1] ELSE keys[s]]
    BY <1>10 DEF Shift
  <2>2. \A s \in 0..((len - 1) - 1) : s + 1 \in 0..(len - 1) /\ s \in Slot /\ s < len - 1
    BY <1>2, <2>1 DEF Slot
  <2>3. \A s \in 0..((len - 1) - 1) : keys'[s] = keys[s + 1]
    BY <2>1, <2>2
  <2>4. keys' \in [Slot -> Key \cup {NoKeyYet}]
    <3>1. ASSUME NEW s \in Slot, s < len - 1 PROVE s + 1 \in Slot BY <3>1, <1>2 DEF Slot
    <3> QED BY <3>1, <1>2, <2>1
  <2>5. ASSUME NEW r \in 0..((len - 1) - 1), NEW s \in 0..((len - 1) - 1), keys'[r] = keys'[s]
        PROVE  r = s
    <3>1. keys[r + 1] = keys[s + 1] /\ r + 1 \in 0..(len - 1) /\ s + 1 \in 0..(len - 1)
      BY <2>2, <2>3, <2>5
    <3>2. r + 1 = s + 1 BY <3>1, <1>1 DEF KeysOK
    <3> QED BY <3>2, <1>2
  <2>6. \A s \in 0..((len - 1) - 1) : keys'[s] \in Key /\ keys'[s] < next_index
    BY <2>2, <2>3, <1>1 DEF KeysOK
  <2>7. KeysOK(keys', len', next_index')
    <3>1. len - 1 \in 0..MaxLen /\ next_index \in 0..(MaxKey + 1) BY <1>1, <1>2, <2>1 DEF KeysOK
    <3> QED BY <2>1, <2>4, <2>5, <2>6, <3>1 DEF KeysOK
  <2>8. (len - 1) + 1 + (FirstICap \div 2) < FirstICap BY <1>2, <1>5, <1>6
  <2> QED BY <2>1, <2>7, <2>8, <1>5, MovesKeepInv
<1> QED BY <1>7, <1>8, <1>9, <1>10

\* hp_arr_clone of a map that the first index has room for.
LEMMA CloneKeepsInv ==
  ASSUME HashInv, Careful = TRUE, Clone
  PROVE  HashInv'
<1>1. KeysOK(keys, len, next_index) BY DEF HashInv
<1>2. /\ FitsFirstIndex(len) /\ ix' = NoIndex /\ len' = len /\ next_index' = next_index
      /\ keys' = [s \in Slot |-> IF s < len THEN keys[s] ELSE NoKeyYet]
  BY DEF Clone
<1>3. len \in Nat /\ \A s \in 0..(len - 1) : s \in Slot /\ s < len
  BY <1>1, MapAssumption DEF KeysOK, Slot
<1>4. \A s \in 0..(len - 1) : keys'[s] = keys[s] BY <1>2, <1>3
<1>5. keys' \in [Slot -> Key \cup {NoKeyYet}] BY <1>1, <1>2 DEF KeysOK
<1>6. KeysOK(keys', len', next_index') BY <1>1, <1>2, <1>4, <1>5 DEF KeysOK
<1>7. len + 1 + (FirstICap \div 2) < FirstICap BY <1>2 DEF FitsFirstIndex
<1> QED BY <1>2, <1>6, <1>7, MovesKeepInv

\* The invariant says that the index is right.
LEMMA InvIndexRight ==
  ASSUME HashInv
  PROVE  IndexRight
<1>1. KeysOK(keys, len, next_index) BY DEF HashInv
<1>2. HashTypeOK
  <2>1. CASE Unindexed(ix, len)
    BY <2>1, <1>1 DEF Unindexed, KeysOK, HashTypeOK
  <2>2. CASE Indexes(ix, keys, len)
    <3>1. ix.e \in [0..(ix.cap - 1) -> {Tomb} \cup 0..MaxLen]
      BY <2>2, IndexFields DEF Indexes, Entry
    <3> QED BY <3>1, <1>1 DEF KeysOK, HashTypeOK
  <2> QED BY <2>1, <2>2 DEF HashInv
<1>3. FindsLive BY Found DEF FindsLive, Live
<1>4. KeysDistinct BY <1>1 DEF KeysOK, KeysDistinct, Live
<1>5. ProbesEnd
  <2> SUFFICES ASSUME Indexed PROVE \E j \in 0..(ix.cap - 1) : ix.e[j] = 0
    BY DEF ProbesEnd
  <2>1. Indexes(ix, keys, len) BY NotIndexed DEF HashInv
  <2>2. IsIndex(ix) /\ ix.cap \in Nat \ {0} /\ ix.budget \in Nat
    BY <2>1, IndexFields DEF Indexes
  <2>3. Cardinality(Filled(ix)) \in Nat BY <2>2, FilledFinite
  <2>4. Cardinality(Filled(ix)) < ix.cap BY <2>1, <2>2, <2>3 DEF Indexes, Roomy
  <2> QED BY <2>2, <2>4, EmptyEntry
<1> QED BY <1>2, <1>3, <1>4, <1>5 DEF IndexRight

\* The index of a map is right whatever is inserted and removed, whatever the hash function
\* does and however often the index is rebuilt, in programs that push, unshift, pop and shift
\* only maps without an index and keep those small (hp_arr_set, hp_arr_unset, hp_idx_build).
THEOREM IndexStaysRight == HashSpec /\ Careful = TRUE => []IndexRight
<1> SUFFICES ASSUME Careful = TRUE PROVE HashSpec => []IndexRight
  OBVIOUS
<1>1. HashInit => HashInv
  <2> SUFFICES ASSUME HashInit PROVE HashInv
    OBVIOUS
  <2>1. KeysOK(keys, len, next_index)
    BY MapAssumption DEF HashInit, KeysOK
  <2>2. Unindexed(ix, len)
    BY MapAssumption DEF HashInit, Unindexed
  <2> QED BY <2>1, <2>2 DEF HashInv
<1>2. HashInv /\ [HashNext]_hashVars => HashInv'
  <2> SUFFICES ASSUME HashInv, [HashNext]_hashVars PROVE HashInv'
    OBVIOUS
  <2>1. ASSUME NEW k \in Key, Set(k) PROVE HashInv' BY <2>1, SetKeepsInv
  <2>2. ASSUME NEW k \in Key, Unset(k) PROVE HashInv' BY <2>2, UnsetKeepsInv
  <2>3. CASE Push \/ Unshift \/ Pop \/ Shift BY <2>3, EndsKeepInv
  <2>4. CASE Clone BY <2>4, CloneKeepsInv
  <2>5. CASE UNCHANGED hashVars
    BY <2>5 DEF hashVars, HashInv, KeysOK, Unindexed, Indexes
  <2> QED BY <2>1, <2>2, <2>3, <2>4, <2>5 DEF HashNext
<1>3. HashInv => IndexRight BY InvIndexRight
<1> QED BY <1>1, <1>2, <1>3, PTL DEF HashSpec
=============================================================================
