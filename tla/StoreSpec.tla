----------------------------- MODULE StoreSpec -----------------------------
(***************************************************************************)
(* What variables promise a program: each holds a value of its own.  A     *)
(* text is a sequence of letters; an array is the set of its pairs of a    *)
(* key and a value, no key twice.  A statement gives one variable a new    *)
(* value and leaves every other alone.                                     *)
(***************************************************************************)
EXTENDS Integers, Sequences

CONSTANTS Vars, Keys, Letters      \* the numbers used as keys, the texts a program writes

VARIABLE val

Nothing == <<"null", 0>>
Text(s) == <<"str", s>>
Number(n) == <<"int", n>>
Table(pairs) == <<"arr", pairs>>

KeysOf(pairs) == {p[1] : p \in pairs}
At(pairs, k) == IF k \in KeysOf(pairs) THEN (CHOOSE p \in pairs : p[1] = k)[2] ELSE Nothing
With(pairs, k, v) == {p \in pairs : p[1] # k} \cup {<<k, v>>}
Without(pairs, k) == {p \in pairs : p[1] # k}

Gets(v, x) == val' = [val EXCEPT ![v] = x]
IsText(v) == val[v][1] = "str"
IsTable(v) == val[v][1] = "arr"

Init == val = [v \in Vars |-> Nothing]

Write(v) == \E s \in Letters : Gets(v, Text(s))
New(v) == Gets(v, Table({}))
Copy(v, w) == Gets(v, val[w])
Concat(v, w, u) == IsText(w) /\ IsText(u) /\ Gets(v, Text(val[w][2] \o val[u][2]))
Put(v, k, w) == IsTable(v) /\ ~ IsTable(w) /\ Gets(v, Table(With(val[v][2], k, val[w])))
\* A new element gets a number no element has.
Push(v, w) == /\ IsTable(v) /\ ~ IsTable(w)
              /\ \E n \in 0..20 : /\ Number(n) \notin KeysOf(val[v][2])
                                  /\ Gets(v, Table(With(val[v][2], Number(n), val[w])))
Fetch(v, w, k) == IsTable(w) /\ Gets(v, At(val[w][2], k))
Unset(v, k) == IsTable(v) /\ Gets(v, Table(Without(val[v][2], k)))
\* One of the elements goes to w.
Pop(v, w) == /\ IsTable(v) /\ v # w
             /\ \E p \in val[v][2] :
                  val' = [val EXCEPT ![v] = Table(val[v][2] \ {p}), ![w] = p[2]]

Next == \E v, w \in Vars :
          \/ Write(v) \/ New(v) \/ Copy(v, w) \/ Push(v, w) \/ Pop(v, w)
          \/ \E u \in Vars : Concat(v, w, u)
          \/ \E k \in Keys \cup {val[u] : u \in {u \in Vars : IsText(u)}} : Put(v, k, w) \/ Fetch(v, w, k) \/ Unset(v, k)
Spec == Init /\ [][Next]_val
=============================================================================
