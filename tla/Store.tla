------------------------------- MODULE Store -------------------------------
(***************************************************************************)
(* Variables over the runtime's heap of strings and arrays: what the       *)
(* generated code does for assignments, concatenations and element         *)
(* accesses (hp_str_concat2, hp_val_clone_v, hp_arr_push, hp_arr_set,      *)
(* hp_arr_unset, hp_arr_pop, hp_closure_new).  A variable holds the        *)
(* address of its string or array; an assignment shares strings and clones *)
(* arrays; a closure shares both with the variable it captures.  Nothing   *)
(* is freed and no reference is counted: rc is 1 throughout.               *)
(*                                                                         *)
(* A variable should hold a value of its own (module StoreSpec).  Where    *)
(* the code departs from that is written down in Rough; with Smooth a      *)
(* statement that is rough is left out.                                    *)
(***************************************************************************)
EXTENDS Arrays, FiniteSets
LOCAL INSTANCE SequencesExt

CONSTANTS Vars, Smooth,
          MaxStrings, MaxLen, MaxSize, MaxNext  \* bounds: strings made, their length, elements of an array, next_index
ASSUME StoreAssumption == Smooth \in BOOLEAN /\ {MaxStrings, MaxLen, MaxSize, MaxNext} \subseteq Nat

VARIABLES
  str,      \* address -> [bytes, cap]; an address is a number from 1 on
  var,      \* variable -> null, <<"int", n>>, <<"str", address>> or <<"arr", array>>
  shares    \* pairs of variables that hold the same array: a closure's environment and what it captured
rtVars == <<str, var, shares>>

Letters == {<<>>, <<97>>}
NumKeys == {IntKey(0), IntKey(2)}

(***************************************************************************)
(* References.                                                             *)
(***************************************************************************)
IsStr(v) == var[v][1] = "str"
IsArr(v) == var[v][1] = "arr"
bytes(x) == IF x[1] = "str" THEN Str(str[x[2]].bytes) ELSE x

\* The addresses an array refers to, as values or keys.
Held(a) == {x[2] : x \in {y \in ToSet(a.vals) \cup ToSet(a.keys) : y[1] = "str"}}
RefersTo(v, s) == \/ var[v] = <<"str", s>>
                  \/ IsArr(v) /\ s \in Held(var[v][2])
\* Whether anything but the target's own cell still refers to string s.
Shared(s, target) == \E v \in Vars : RefersTo(v, s) /\ <<v, var[v]>> # <<target, <<"str", s>>>>

\* Two variables that share an array change together.
Twins(v) == {v} \cup {w \in Vars : {v, w} \in shares}
Assigned(v, x) == [var EXCEPT ![v] = x]
Mutated(v, a) == [w \in Vars |-> IF w \in Twins(v) THEN Arr(a) ELSE var[w]]
Unlinked(v) == {p \in shares : v \notin p}

\* Key k as the array spells it: the address of the equal key it has, if any.
Own(a, k) == LET same == {i \in DOMAIN a.keys : bytes(a.keys[i]) = bytes(k) /\ a.keys[i] # Junk}
             IN  IF a.map /\ same # {} THEN a.keys[Least1(same)] ELSE k

(***************************************************************************)
(* Strings.                                                                *)
(***************************************************************************)
hp_str_new(s) == [bytes |-> s, cap |-> Len(s) + 1]

\* hp_str_concat2: the left string grows in place when it has room.
InPlace(a, b) == /\ str[a].cap > Len(str[a].bytes)
                 /\ Len(str[a].bytes) + Len(str[b].bytes) < str[a].cap

hp_str_concat2(a, b) ==
  LET s == str[a].bytes \o str[b].bytes
  IN  IF InPlace(a, b) THEN [heap |-> [str EXCEPT ![a].bytes = s], at |-> a]
      ELSE [heap |-> Append(str, [bytes |-> s, cap |-> (2 * Len(s)) + 16]), at |-> Len(str) + 1]

(***************************************************************************)
(* The rough edges.                                                        *)
(***************************************************************************)
\* v = w . u where another reference sees the string of w grow.
RoughConcat(v, w, u) ==
  InPlace(var[w][2], var[u][2]) /\ str[var[u][2]].bytes # <<>> /\ Shared(var[w][2], v)
\* An element that turns a list with elements into a map leaves their keys unset; and
\* after a pop a list takes an element at next_index, which is not its length.
RoughPut(a, k) ==
  /\ ~ a.map /\ hp_key_index(a, k) < 0
  /\ IF k[1] = "int" /\ k[2] = a.next THEN a.next # Size(a) ELSE Size(a) > 0
\* unset on a list moves its last element.
RoughUnset(a, k) == ~ a.map /\ hp_key_index(a, k) \in 0..(Size(a) - 2)
\* A captured array is the variable's own.
RoughCapture(w) == IsArr(w)

May(rough) == Smooth => ~ rough

(***************************************************************************)
(* Statements.  Each assigns to v; a statement that writes through a       *)
(* variable a closure shares an array with changes both.                   *)
(***************************************************************************)
RtInit == /\ str = <<>> /\ var = [v \in Vars |-> Null] /\ shares = {}

Set(v, x) == var' = Assigned(v, x) /\ shares' = Unlinked(v)

WriteStr(v) == /\ Len(str) < MaxStrings
               /\ \E s \in Letters : str' = Append(str, hp_str_new(s))
               /\ Set(v, <<"str", Len(str) + 1>>)

NewArr(v) == Set(v, Arr(Empty)) /\ UNCHANGED str

\* hp_val_clone_v
SlipCopy(v, w) == /\ v # w /\ var[w] # Null
                  /\ var' = Assigned(v, var[w])
                  /\ shares' = Unlinked(v) \cup IF IsArr(w) THEN {{v, x} : x \in Twins(w) \ {v}} ELSE {}
                  /\ UNCHANGED str
Copy(v, w) == /\ v # w /\ var[w] # Null
              /\ Set(v, IF IsArr(w) THEN Arr(hp_arr_clone(var[w][2])) ELSE var[w])
              /\ UNCHANGED str

Concat(v, w, u) ==
  LET r == hp_str_concat2(var[w][2], var[u][2])
  IN  /\ IsStr(w) /\ IsStr(u) /\ May(RoughConcat(v, w, u))
      /\ Len(str[var[w][2]].bytes) + Len(str[var[u][2]].bytes) <= MaxLen
      /\ InPlace(var[w][2], var[u][2]) \/ Len(str) < MaxStrings
      /\ str' = r.heap
      /\ Set(v, <<"str", r.at>>)

Room(a) == Size(a) < MaxSize /\ a.next < MaxNext

Push(v, w) == /\ IsArr(v) /\ ~ IsArr(w) /\ Room(var[v][2])
              /\ var' = Mutated(v, hp_arr_push(var[v][2], var[w]))
              /\ UNCHANGED <<str, shares>>

KeysAtHand == NumKeys \cup {var[u] : u \in {u \in Vars : IsStr(u)}}

Put(v, k, w) ==
  /\ IsArr(v) /\ ~ IsArr(w) /\ Room(var[v][2]) /\ May(RoughPut(var[v][2], Own(var[v][2], k)))
  /\ var' = Mutated(v, hp_arr_set(var[v][2], Own(var[v][2], k), var[w]))
  /\ UNCHANGED <<str, shares>>

Fetch(v, w, k) == /\ IsArr(w)
                  /\ Set(v, hp_arr_get(var[w][2], Own(var[w][2], k)))
                  /\ UNCHANGED str

Unset(v, k) == /\ IsArr(v) /\ May(RoughUnset(var[v][2], Own(var[v][2], k)))
                /\ var' = Mutated(v, hp_arr_unset(var[v][2], Own(var[v][2], k)))
                /\ UNCHANGED <<str, shares>>

Pop(v, w) == /\ IsArr(v) /\ w \notin Twins(v) /\ Size(var[v][2]) > 0
             /\ var' = [Mutated(v, Popped(var[v][2])) EXCEPT ![w] = hp_arr_pop(var[v][2])]
             /\ shares' = Unlinked(w) /\ UNCHANGED str

\* use ($w): the environment's cell v gets what w holds, uncloned.
Capture(v, w) == /\ v # w /\ var[w] # Null /\ May(RoughCapture(w))
                 /\ var' = Assigned(v, var[w])
                 /\ shares' = Unlinked(v) \cup IF IsArr(w) THEN {{v, x} : x \in Twins(w) \ {v}} ELSE {}
                 /\ UNCHANGED str

RtNext == \E v, w \in Vars :
          \/ WriteStr(v) \/ NewArr(v) \/ Copy(v, w) \/ Capture(v, w) \/ Push(v, w) \/ Pop(v, w)
          \/ \E u \in Vars : Concat(v, w, u)
          \/ \E k \in KeysAtHand : Put(v, k, w) \/ Fetch(v, w, k) \/ Unset(v, k)
RtSpec == RtInit /\ [][RtNext]_rtVars

(***************************************************************************)
(* Properties.                                                             *)
(***************************************************************************)
\* What a variable holds, without addresses.
Seen(x) == IF x[1] = "arr"
           THEN <<"arr", {<<bytes(e[1]), bytes(e[2])>> : e \in ToSet(Entries(x[2]))}>> ELSE bytes(x)
ValueOf == [v \in Vars |-> Seen(var[v])]

Promised == INSTANCE StoreSpec WITH val <- ValueOf, Keys <- NumKeys

\* Outside the rough edges every statement is one of the promised statements on values:
\* sharing strings, appending in place and moving elements do not show.
KeepsPromise == Promised!Spec

\* A string that has grown in place has one variable that refers to it, the one assigned to:
\* the in-place append of hp_str_concat2 and the sharing of strings by hp_val_clone_v.
GrowsAlone ==
  [][\A a \in DOMAIN str : str'[a] # str[a] => \A v, w \in Vars : RefersTo(v, a)' /\ RefersTo(w, a)' => v = w]_rtVars
=============================================================================
