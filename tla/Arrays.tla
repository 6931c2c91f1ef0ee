------------------------------- MODULE Arrays ------------------------------
(***************************************************************************)
(* PHP arrays (harr) of hphp_rt.c and the array builtins of hphp_std.c, as *)
(* functions from arrays to arrays.  A list has values only; a map has a   *)
(* key beside every value.  next is next_index.  The hash index of long    *)
(* maps is module HashMap, what happens to an array two variables share is *)
(* module Store.  A callback is a function of its two arguments.           *)
(***************************************************************************)
EXTENDS Values
LOCAL INSTANCE SequencesExt

Empty == [id |-> 0, map |-> FALSE, next |-> 0, keys |-> <<>>, vals |-> <<>>]
EmptyMap == [Empty EXCEPT !.map = TRUE]
Size(a) == Len(a.vals)
IntKey(n) == <<"int", n>>

(* The key in memory nobody has written to. *)
Junk == <<"junk", 0>>

(* The keys foreach and the key builtins report. *)
KeyAt(a, i) == IF a.map THEN a.keys[i] ELSE IntKey(i - 1)

Least1(S) == CHOOSE i \in S : \A j \in S : i <= j

\* hp_key_eq: only int with int and string with string.
hp_key_eq(j, k) == j[1] \in {"int", "str"} /\ j = k

Inside(a, i) == IF i \in 0..(Size(a) - 1) THEN i ELSE -1

\* The position of a key, counted from 0, or -1.
hp_key_index(a, k) ==
  LET same == {i \in DOMAIN a.keys : hp_key_eq(a.keys[i], k)}
  IN  CASE a.map -> IF same = {} THEN -1 ELSE Least1(same) - 1
        [] k[1] = "str" -> -1
        [] OTHER -> Inside(a, hp_val_to_int(k))

hp_arr_has(a, k) == hp_key_index(a, k) >= 0
hp_arr_get(a, k) == LET i == hp_key_index(a, k) IN IF i < 0 THEN Null ELSE a.vals[i + 1]

\* Arrays in arrays are copied as well.
RECURSIVE hp_arr_clone(_)
hp_arr_clone(a) ==
  [a EXCEPT !.id = 0,
            !.vals = [i \in DOMAIN a.vals |->
                       IF a.vals[i][1] = "arr" THEN Arr(hp_arr_clone(a.vals[i][2])) ELSE a.vals[i]]]

(***************************************************************************)
(* Writes.                                                                 *)
(***************************************************************************)
hp_arr_push(a, v) ==
  [a EXCEPT !.vals = Append(@, v), !.next = @ + 1,
            !.keys = IF a.map THEN Append(@, IntKey(a.next)) ELSE @]

\* A list that gets a key it cannot express becomes a map; the keys of what it
\* already holds are never written.
hp_arr_set(a, k, v) ==
  LET i == hp_key_index(a, k)
      map == a.map \/ k[1] = "str" \/ (k[1] = "int" /\ k[2] # a.next)
      old == IF a.map THEN a.keys ELSE [j \in DOMAIN a.vals |-> Junk]
  IN  CASE k[1] = "null" -> hp_arr_push(a, v)
        [] i >= 0 -> [a EXCEPT !.vals[i + 1] = v]
        [] OTHER -> [a EXCEPT !.map = map, !.vals = Append(@, v),
                              !.keys = IF map THEN Append(old, k) ELSE <<>>,
                              !.next = IF k[1] = "int" /\ k[2] >= @ THEN k[2] + 1 ELSE @]

\* The last element takes the place of the one removed.
hp_arr_unset(a, k) ==
  LET i == hp_key_index(a, k)
      n == Size(a)
      Move(s) == SubSeq([s EXCEPT ![i + 1] = s[n]], 1, n - 1)
  IN  IF i < 0 THEN a
      ELSE [a EXCEPT !.vals = Move(@), !.keys = IF a.map THEN Move(@) ELSE @]

\* The four take and give back an array and its result; next is never taken back.
Popped(a) == IF Size(a) = 0 THEN a
             ELSE [a EXCEPT !.vals = Front(@), !.keys = IF a.map THEN Front(@) ELSE @]
hp_arr_pop(a) == IF Size(a) = 0 THEN Null ELSE Last(a.vals)
Shifted(a) == IF Size(a) = 0 THEN a
              ELSE [a EXCEPT !.vals = Tail(@), !.keys = IF a.map THEN Tail(@) ELSE @]
hp_arr_shift(a) == IF Size(a) = 0 THEN Null ELSE Head(a.vals)
hp_arr_unshift(a, v) ==
  [a EXCEPT !.vals = <<v>> \o @,
            !.keys = IF a.map THEN <<IntKey(a.next)>> \o @ ELSE @,
            !.next = IF a.map THEN @ + 1 ELSE @]

ListOf(vals) == [Empty EXCEPT !.vals = vals, !.next = Len(vals)]
hp_map_of(pairs) == FoldLeft(LAMBDA m, p : hp_arr_set(m, p[1], p[2]), EmptyMap, pairs)

(***************************************************************************)
(* New arrays from old.                                                    *)
(***************************************************************************)
Entries(a) == [i \in DOMAIN a.vals |-> <<KeyAt(a, i), a.vals[i]>>]

hp_arr_slice(a, start, end) ==
  LET e == IF end < 0 THEN end + Size(a) ELSE end
  IN  ListOf(Cut(a.vals, norm_index(start, Size(a)), IF e < 0 \/ e > Size(a) THEN Size(a) ELSE e))

hpbi_array_slice(a, off, len) ==
  LET o  == IF off < 0 THEN off + Size(a) ELSE off
      l0 == IF len[1] = "null" THEN Size(a) - o ELSE hp_val_to_int(len)
      l  == Most(IF l0 < 0 THEN Size(a) - o + l0 ELSE l0, 0)
  IN  hp_arr_slice(a, o, o + l)

hp_arr_keys(a) == ListOf([i \in DOMAIN a.vals |-> KeyAt(a, i)])
hp_arr_values(a) == ListOf(a.vals)
hp_arr_reverse(a) == ListOf(Reverse(a.vals))
hp_arr_in(a, v) == \E i \in DOMAIN a.vals : hp_val_eq(a.vals[i], v)
hp_arr_unique(a) ==
  FoldLeft(LAMBDA r, v : IF hp_arr_in(r, v) THEN r ELSE hp_arr_push(r, v), Empty, a.vals)
hp_range(lo, hi) ==
  ListOf(IF lo <= hi THEN [i \in 1..(hi - lo + 1) |-> IntKey(lo + i - 1)]
         ELSE [i \in 1..(lo - hi + 1) |-> IntKey(lo - i + 1)])

\* +: string keys of b overwrite, everything else of b is appended.
hp_arr_merge(a, b) ==
  FoldLeft(LAMBDA r, e : IF b.map /\ e[1][1] = "str" THEN hp_arr_set(r, e[1], e[2]) ELSE hp_arr_push(r, e[2]),
           hp_arr_clone(a), Entries(b))

\* array_merge: a map's keys are kept, integer keys included.
hpbi_array_merge(a, others) ==
  LET Join(r, b) ==
        IF b.map THEN FoldLeft(LAMBDA m, e : hp_arr_set(m, e[1], e[2]), r, Entries(b))
        ELSE FoldLeft(hp_arr_push, r, b.vals)
  IN  FoldLeft(Join, hp_arr_clone(a), others)

hpbi_array_replace(a, others) ==
  FoldLeft(LAMBDA r, b : FoldLeft(LAMBDA m, e : hp_arr_set(m, e[1], e[2]), r, Entries(b)), hp_arr_clone(a), others)

hp_arr_sum(a) ==
  IF \E i \in DOMAIN a.vals : a.vals[i][1] = "float"
  THEN Float(FoldLeft(LAMBDA s, v : QAdd(s, hp_val_to_float(v)), Real(0), a.vals))
  ELSE Integer(FoldLeft(LAMBDA s, v : s + hp_val_to_int(v), 0, a.vals))
hpbi_array_product(a) == Float(FoldLeft(LAMBDA p, v : QMul(p, hp_val_to_float(v)), Real(1), a.vals))

hpbi_array_search(v, a) ==
  LET hits == {i \in DOMAIN a.vals : hp_val_eq(a.vals[i], v)}
  IN  IF hits = {} THEN Truth(FALSE) ELSE KeyAt(a, Least1(hits))

hpbi_array_flip(a) == FoldLeft(LAMBDA m, e : hp_arr_set(m, e[2], e[1]), EmptyMap, Entries(a))
hpbi_array_fill(start, n, v) == FoldLeft(LAMBDA m, i : hp_arr_set(m, IntKey(start + i - 1), v), Empty, [i \in 1..n |-> i])
hpbi_array_combine(ks, vs) ==
  hp_map_of([i \in 1..Least(Size(ks), Size(vs)) |-> <<ks.vals[i], vs.vals[i]>>])
hpbi_array_fill_keys(ks, v) == hp_map_of([i \in DOMAIN ks.vals |-> <<ks.vals[i], v>>])

Kept(a, keep) == ListOf([j \in 1..Len(keep) |-> a.vals[keep[j]]])
Positions(a) == [i \in 1..Size(a) |-> i]
hpbi_array_diff(a, others) ==
  Kept(a, SelectSeq(Positions(a), LAMBDA i : \A j \in DOMAIN others : ~ hp_arr_in(others[j], a.vals[i])))
hpbi_array_intersect(a, others) ==
  Kept(a, SelectSeq(Positions(a), LAMBDA i : \A j \in DOMAIN others : hp_arr_in(others[j], a.vals[i])))

\* Returns what it should remove, and removes nothing.
hpbi_array_splice(a, off, len) == hp_arr_slice(a, off, off + len)

hpbi_array_column(rows, col, index) ==
  LET Step(r, row) ==
        LET v == hp_arr_get(row[2], col)
            m == IF r.map THEN r
                 ELSE [r EXCEPT !.map = TRUE, !.keys = [j \in DOMAIN r.vals |-> Junk]]
        IN  CASE row[1] # "arr" -> r
              [] OTHER -> IF index[1] # "null" /\ hp_arr_has(row[2], index)
                          THEN hp_arr_set(m, hp_arr_get(row[2], index), v) ELSE hp_arr_push(r, v)
  IN  FoldLeft(Step, Empty, rows.vals)

hpbi_array_chunk(a, size) ==
  LET k == Most(size, 1)
  IN  ListOf([i \in 1..((Size(a) + k - 1) \div k) |-> Arr(ListOf(Cut(a.vals, (i - 1) * k, Least(i * k, Size(a)))))])

hpbi_array_pad(a, size, v) ==
  LET fill == [i \in 1..Most(Magnitude(size) - Size(a), 0) |-> v]
  IN  ListOf(IF size >= 0 THEN a.vals \o fill ELSE fill \o a.vals)

hpbi_array_key_first(a) == IF Size(a) = 0 THEN Truth(FALSE) ELSE KeyAt(a, 1)
hpbi_array_key_last(a) == IF Size(a) = 0 THEN Truth(FALSE) ELSE KeyAt(a, Size(a))

(***************************************************************************)
(* Callbacks.  fn[<<x, y>>] is what the closure returns for x and y.       *)
(***************************************************************************)
hpbi_array_map(fn, a) == ListOf([i \in DOMAIN a.vals |-> fn[<<a.vals[i], KeyAt(a, i)>>]])
hpbi_array_filter(a, fn) ==
  Kept(a, SelectSeq(Positions(a), LAMBDA i : hp_val_to_bool(fn[<<a.vals[i], KeyAt(a, i)>>])))
hpbi_array_reduce(a, fn, init) == FoldLeft(LAMBDA acc, v : fn[<<acc, v>>], init, a.vals)

(***************************************************************************)
(* Sorts.  A list's keys stay where they are, a map's go with the values.  *)
(***************************************************************************)
Arranged(a, order) ==
  [a EXCEPT !.vals = [i \in DOMAIN order |-> a.vals[order[i]]],
            !.keys = IF a.map THEN [i \in DOMAIN order |-> a.keys[order[i]]] ELSE @]

\* i goes behind the last one that is not above it.
Inserted(order, i, Above(_, _)) ==
  LET stay == {j \in DOMAIN order : ~ Above(order[j], i)}
      n == IF stay = {} THEN 0 ELSE CHOOSE j \in stay : \A k \in stay : j >= k
  IN  SubSeq(order, 1, n) \o <<i>> \o SubSeq(order, n + 1, Len(order))

\* qsort, taken to be stable as glibc's is while memory lasts; by is "key" or "val".
SlipHp_sort_pairs(a, by, desc) ==
  LET Of(i) == IF by = "key" /\ a.map THEN a.keys[i] ELSE a.vals[i]
      Above(i, j) == IF desc THEN hp_val_cmp(Of(i), Of(j)) <= 0 ELSE hp_val_cmp(Of(i), Of(j)) >= 0
      order == FoldLeft(LAMBDA o, i : Inserted(o, i, Above), <<>>, Positions(a))
  IN  [Arranged(a, order) EXCEPT !.keys = a.keys]

hp_sort_pairs(a, by, desc) ==
  LET Of(i) == IF by = "key" /\ a.map THEN a.keys[i] ELSE a.vals[i]
      Above(i, j) == IF desc THEN hp_val_cmp(Of(i), Of(j)) < 0 ELSE hp_val_cmp(Of(i), Of(j)) > 0
      order == FoldLeft(LAMBDA o, i : Inserted(o, i, Above), <<>>, Positions(a))
  IN  Arranged(a, order)

\* Insertion from the right by the callback: stops at the first that is not above.
hp_sort_with_fn(a, by_key, fn) ==
  LET Of(i) == IF by_key THEN KeyAt(a, i) ELSE a.vals[i]
      Above(i, j) == hp_val_to_int(fn[<<Of(i), Of(j)>>]) > 0
      order == FoldLeft(LAMBDA o, i : Inserted(o, i, Above), <<>>, Positions(a))
  IN  Arranged(a, order)

\* rsort of the runtime: the reversed copy is made and thrown away.
hp_arr_sort(a) == [hp_sort_pairs(hp_arr_clone(a), "val", FALSE) EXCEPT !.keys = a.keys]
hp_arr_rsort(a) == hp_arr_sort(a)
hp_map_sort_by_key(a) == hp_sort_pairs(hp_arr_clone(a), "key", FALSE)
hpbi_usort(a, fn) == IF a.map THEN a ELSE hp_sort_with_fn(a, FALSE, fn)
hpbi_uasort(a, fn) == hp_sort_with_fn(a, FALSE, fn)
hpbi_uksort(a, fn) == hp_sort_with_fn(a, TRUE, fn)

(***************************************************************************)
(* Walking and identity.                                                   *)
(***************************************************************************)
hpbi_end(a) == IF Size(a) = 0 THEN Null ELSE Last(a.vals)
hpbi_reset(a) == IF Size(a) = 0 THEN Null ELSE Head(a.vals)

\* What a pass of foreach gets at position pos, nothing at the end: elements of an
\* array, single bytes of a text.
hp_foreach_next(v, pos) ==
  CASE v[1] = "arr" /\ pos < Size(v[2]) -> << [k |-> KeyAt(v[2], pos + 1), v |-> v[2].vals[pos + 1]] >>
    [] v[1] = "str" /\ pos < Len(v[2]) -> << [k |-> IntKey(pos), v |-> Str(<<v[2][pos + 1]>>)] >>
    [] OTHER -> <<>>

\* A foreach over a value: null has no elements, other scalars throw.
hp_val_iter(v) ==
  LET From[pos \in Nat] == LET now == hp_foreach_next(v, pos)
                           IN  IF now = <<>> THEN <<>> ELSE now \o From[pos + 1]
  IN  IF v[1] \in {"arr", "str", "null"} THEN From[0] ELSE Raised

\* ===: kind and content, arrays pair by pair in their order.
RECURSIVE hp_ident_eq(_, _)
hp_ident_eq(v, w) ==
  IF v[1] = "arr" /\ w[1] = "arr"
  THEN LET a == v[2]  b == w[2]
       IN  /\ Size(a) = Size(b) /\ a.map = b.map
           /\ \A i \in DOMAIN a.vals : hp_ident_eq(a.vals[i], b.vals[i])
           /\ a.map => \A i \in DOMAIN a.keys : hp_ident_eq(a.keys[i], b.keys[i])
  ELSE v[1] = w[1] /\ v[2] = w[2]

\* $x[] = v where the container is a dynamic value: null becomes an array.
hp_arr_push_vv(c, v) ==
  CASE c[1] = "arr" -> Arr(hp_arr_push(c[2], v))
    [] c[1] = "null" -> Arr(hp_arr_push(Empty, v))
    [] OTHER -> c
=============================================================================
