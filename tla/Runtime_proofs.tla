--------------------------- MODULE Runtime_proofs ---------------------------
(***************************************************************************)
(* Proofs about three parts of the runtime.  Unwind: for every set of      *)
(* exceptions and closures and every depth of the C stack.  Sockets: for   *)
(* every number of descriptors and every amount of data, for programs that *)
(* do not use a handle they have closed (StaleHandles = FALSE).  Mysql:    *)
(* for every set of texts of less than 251 bytes and any number of         *)
(* queries, rows and columns (of these less than 251).                     *)
(***************************************************************************)
EXTENDS Unwind, Sockets, Mysql, SequenceTheorems, WellFoundedInduction, TLAPS

(***************************************************************************)
(* The inductive invariant: the chain of frames is the increasing list of  *)
(* the places that guard.                                                  *)
(***************************************************************************)
Activation == [kind : {"body", "handler", "finally", "closure"}, value : Nat, env : Nat]

Guards(stack) == {i \in DOMAIN stack : stack[i].kind \in {"body", "handler"}}

Increasing(chain) == \A i, j \in DOMAIN chain : i < j => chain[i] < chain[j]

Matches(chain, stack) == chain \in Seq(Nat) /\ Increasing(chain) /\ Range(chain) = Guards(stack)

UnwindInv == cstack \in Seq(Activation) /\ curEnv \in Nat /\ Matches(tryChain, cstack)

(***************************************************************************)
(* Lemmas about chains.                                                    *)
(***************************************************************************)
\* The current frame is the highest of all.
LEMMA LastIsHighest ==
  ASSUME NEW chain \in Seq(Nat), Increasing(chain), chain # <<>>
  PROVE  Last(chain) \in Range(chain) /\ \A p \in Range(chain) : p <= Last(chain)
<1>1. Len(chain) \in Nat \ {0} /\ DOMAIN chain = 1..Len(chain) /\ \A k \in DOMAIN chain : chain[k] \in Nat
  OBVIOUS
<1>2. Len(chain) \in DOMAIN chain
  BY <1>1
<1>3. ASSUME NEW p \in Range(chain) PROVE p <= Last(chain)
  <2>1. PICK k \in DOMAIN chain : p = chain[k]
    BY DEF Range
  <2>2. k = Len(chain) \/ k < Len(chain)
    BY <1>1
  <2> QED BY <1>1, <1>2, <2>1, <2>2 DEF Last, Increasing
<1> QED BY <1>2, <1>3 DEF Last, Range

\* hp_try_pop of the current frame takes its place off the chain and no other.
LEMMA PopFacts ==
  ASSUME NEW chain \in Seq(Nat), Increasing(chain), chain # <<>>
  PROVE  /\ Front(chain) \in Seq(Nat) /\ Increasing(Front(chain))
         /\ Range(Front(chain)) = Range(chain) \ {Last(chain)}
         /\ hp_try_pop(chain, Last(chain)) = Front(chain)
<1>1. Len(chain) \in Nat \ {0} /\ DOMAIN chain = 1..Len(chain) /\ \A k \in DOMAIN chain : chain[k] \in Nat
  OBVIOUS
<1>2. /\ Front(chain) \in Seq(Nat) /\ DOMAIN Front(chain) = 1..(Len(chain) - 1)
      /\ \A k \in 1..(Len(chain) - 1) : Front(chain)[k] = chain[k]
  BY <1>1 DEF Front
<1>3. 1..(Len(chain) - 1) \subseteq DOMAIN chain /\ Len(chain) \in DOMAIN chain
  BY <1>1
<1>4. Increasing(Front(chain))
  <2> SUFFICES ASSUME NEW i \in DOMAIN Front(chain), NEW j \in DOMAIN Front(chain), i < j
               PROVE  Front(chain)[i] < Front(chain)[j]
    BY DEF Increasing
  <2>1. i \in DOMAIN chain /\ j \in DOMAIN chain /\ Front(chain)[i] = chain[i] /\ Front(chain)[j] = chain[j]
    BY <1>2, <1>3
  <2> QED BY <2>1 DEF Increasing
<1>5. ASSUME NEW p \in Range(Front(chain)) PROVE p \in Range(chain) /\ p # Last(chain)
  <2>1. PICK k \in 1..(Len(chain) - 1) : p = chain[k]
    BY <1>2 DEF Range
  <2>2. k < Len(chain) /\ k \in DOMAIN chain
    BY <1>1, <1>3
  <2>3. chain[k] < chain[Len(chain)]
    BY <1>3, <2>2 DEF Increasing
  <2>4. chain[k] # chain[Len(chain)]
    BY <1>1, <1>3, <2>2, <2>3
  <2> QED BY <2>1, <2>2, <2>4 DEF Range, Last
<1>6. ASSUME NEW p \in Range(chain), p # Last(chain) PROVE p \in Range(Front(chain))
  <2>1. PICK k \in DOMAIN chain : p = chain[k]
    BY DEF Range
  <2>2. k # Len(chain)
    BY <1>6, <2>1 DEF Last
  <2>3. k \in 1..(Len(chain) - 1)
    BY <1>1, <2>2
  <2> QED BY <1>2, <2>1, <2>3 DEF Range
<1> QED BY <1>2, <1>4, <1>5, <1>6 DEF hp_try_pop

\* hp_try_push of a place above all others adds it.
LEMMA PushFacts ==
  ASSUME NEW chain \in Seq(Nat), Increasing(chain), NEW place \in Nat, \A p \in Range(chain) : p < place
  PROVE  /\ hp_try_push(chain, place) \in Seq(Nat) /\ Increasing(hp_try_push(chain, place))
         /\ Range(hp_try_push(chain, place)) = Range(chain) \cup {place}
<1> DEFINE new == Append(chain, place)
<1>1. Len(chain) \in Nat /\ DOMAIN chain = 1..Len(chain) /\ \A k \in DOMAIN chain : chain[k] \in Range(chain)
  BY DEF Range
<1>2. /\ new \in Seq(Nat) /\ DOMAIN new = 1..(Len(chain) + 1) /\ new[Len(chain) + 1] = place
      /\ \A k \in DOMAIN chain : new[k] = chain[k]
  OBVIOUS
<1> HIDE DEF new
<1>3. DOMAIN new = DOMAIN chain \cup {Len(chain) + 1}
  BY <1>1, <1>2
<1>4. Increasing(new)
  <2> SUFFICES ASSUME NEW i \in DOMAIN new, NEW j \in DOMAIN new, i < j PROVE new[i] < new[j]
    BY DEF Increasing
  <2>1. i \in DOMAIN chain
    BY <1>1, <1>2
  <2>2. CASE j \in DOMAIN chain
    BY <1>2, <2>1, <2>2 DEF Increasing
  <2>3. CASE j = Len(chain) + 1
    BY <1>1, <1>2, <2>1, <2>3
  <2> QED BY <1>3, <2>2, <2>3
<1>5. Range(new) = Range(chain) \cup {place}
  BY SMTT(40), <1>2, <1>3 DEF Range
<1> QED BY <1>2, <1>4, <1>5 DEF new, hp_try_push

(***************************************************************************)
(* Lemmas about the stack.                                                 *)
(***************************************************************************)
\* Guards are places on the stack.
LEMMA GuardsBelow ==
  ASSUME NEW stack \in Seq(Activation), NEW p \in Guards(stack)
  PROVE  p \in 1..Len(stack)
BY DEF Guards

\* A new activation guards if it is a body.
LEMMA GuardsAppend ==
  ASSUME NEW stack \in Seq(Activation), NEW a \in Activation
  PROVE  /\ Append(stack, a) \in Seq(Activation)
         /\ Guards(Append(stack, a)) =
              Guards(stack) \cup IF a.kind \in {"body", "handler"} THEN {Len(stack) + 1} ELSE {}
<1> DEFINE new == Append(stack, a)
<1>1. /\ new \in Seq(Activation) /\ DOMAIN new = 1..(Len(stack) + 1) /\ new[Len(stack) + 1] = a
      /\ DOMAIN stack = 1..Len(stack) /\ Len(stack) \in Nat
      /\ \A k \in DOMAIN stack : new[k] = stack[k]
  OBVIOUS
<1> HIDE DEF new
<1>2. DOMAIN new = DOMAIN stack \cup {Len(stack) + 1}
  BY <1>1
<1>3. Guards(new) = Guards(stack) \cup IF a.kind \in {"body", "handler"} THEN {Len(stack) + 1} ELSE {}
  BY <1>1, <1>2 DEF Guards
<1> QED BY <1>1, <1>3 DEF new

\* The activations up to a place keep guarding.
LEMMA GuardsCut ==
  ASSUME NEW stack \in Seq(Activation), NEW place \in 0..Len(stack)
  PROVE  /\ SubSeq(stack, 1, place) \in Seq(Activation) /\ Len(SubSeq(stack, 1, place)) = place
         /\ \A k \in 1..place : SubSeq(stack, 1, place)[k] = stack[k]
         /\ Guards(SubSeq(stack, 1, place)) = Guards(stack) \cap (1..place)
<1> DEFINE new == SubSeq(stack, 1, place)
<1>1. Len(stack) \in Nat /\ DOMAIN stack = 1..Len(stack) /\ place \in Nat /\ 1..place \subseteq DOMAIN stack
  OBVIOUS
<1>2. new \in Seq(Activation) /\ Len(new) = place /\ DOMAIN new = 1..place /\ \A k \in 1..place : new[k] = stack[k]
  BY <1>1
<1> HIDE DEF new
<1>3. Guards(new) = Guards(stack) \cap (1..place)
  BY <1>1, <1>2 DEF Guards
<1> QED BY <1>2, <1>3 DEF new

\* The innermost activation is replaced by another.
LEMMA GuardsReplace ==
  ASSUME NEW stack \in Seq(Activation), stack # <<>>, NEW a \in Activation
  PROVE  /\ [stack EXCEPT ![Len(stack)] = a] \in Seq(Activation)
         /\ Guards([stack EXCEPT ![Len(stack)] = a]) =
              (Guards(stack) \ {Len(stack)}) \cup IF a.kind \in {"body", "handler"} THEN {Len(stack)} ELSE {}
<1> DEFINE new == [stack EXCEPT ![Len(stack)] = a]
<1>1. Len(stack) \in Nat \ {0} /\ DOMAIN stack = 1..Len(stack) /\ Len(stack) \in DOMAIN stack
  OBVIOUS
<1>2. new \in Seq(Activation) /\ DOMAIN new = DOMAIN stack /\ new[Len(stack)] = a
      /\ \A k \in DOMAIN stack : k # Len(stack) => new[k] = stack[k]
  BY <1>1
<1> HIDE DEF new
<1>3. Guards(new) = (Guards(stack) \ {Len(stack)}) \cup IF a.kind \in {"body", "handler"} THEN {Len(stack)} ELSE {}
  BY <1>1, <1>2 DEF Guards
<1> QED BY <1>2, <1>3 DEF new

\* hp_try_run returns to its finally block, which guards nothing.
LEMMA ReturnedFacts ==
  ASSUME NEW stack \in Seq(Activation), stack # <<>>, NEW v \in Nat
  PROVE  /\ Returned(stack, v) \in Seq(Activation)
         /\ Guards(Returned(stack, v)) = Guards(stack) \ {Len(stack)}
<1>1. stack[Len(stack)] \in Activation
  OBVIOUS
<1> DEFINE a == [stack[Len(stack)] EXCEPT !.kind = "finally", !.value = v]
<1>2. a \in Activation /\ a.kind = "finally"
  BY <1>1 DEF Activation
<1>3. Returned(stack, v) = [stack EXCEPT ![Len(stack)] = a]
  BY DEF Returned
<1> HIDE DEF a
<1> QED BY <1>2, <1>3, GuardsReplace

(***************************************************************************)
(* The steps.                                                              *)
(***************************************************************************)
\* The innermost call of hp_try_run that guards has the current frame.
LEMMA CurrentIsInner ==
  ASSUME UnwindInv, cstack # <<>>, Len(cstack) \in Guards(cstack)
  PROVE  tryChain # <<>> /\ Last(tryChain) = Len(cstack)
<1>1. tryChain # <<>>
  BY DEF UnwindInv, Matches, Range
<1>2. Last(tryChain) \in Guards(cstack) /\ Len(cstack) <= Last(tryChain)
  BY <1>1, LastIsHighest DEF UnwindInv, Matches
<1>3. Last(tryChain) \in 1..Len(cstack)
  BY <1>2, GuardsBelow DEF UnwindInv
<1>4. Len(cstack) \in Nat
  BY DEF UnwindInv
<1> QED BY <1>1, <1>2, <1>3, <1>4

\* The body or the handler returns and its frame is taken off.
LEMMA EndsKeep ==
  ASSUME UnwindInv, cstack # <<>>, Len(cstack) \in Guards(cstack), NEW v \in Nat,
         cstack' = Returned(cstack, v), tryChain' = hp_try_pop(tryChain, Len(cstack)), curEnv' = curEnv
  PROVE  UnwindInv'
<1>1. tryChain # <<>> /\ Last(tryChain) = Len(cstack)
  BY CurrentIsInner
<1>2. tryChain' \in Seq(Nat) /\ Increasing(tryChain') /\ Range(tryChain') = Range(tryChain) \ {Len(cstack)}
  BY <1>1, PopFacts DEF UnwindInv, Matches
<1>3. cstack' \in Seq(Activation) /\ Guards(cstack') = Guards(cstack) \ {Len(cstack)}
  BY ReturnedFacts DEF UnwindInv
<1> QED BY <1>2, <1>3 DEF UnwindInv, Matches

\* A throw unwinds to the current frame, whose call of hp_try_run is still active.
LEMMA CaughtKeeps ==
  ASSUME UnwindInv, tryChain # <<>>, NEW v \in Nat, Caught(v), curEnv' = curEnv
  PROVE  UnwindInv'
<1> DEFINE place == Last(tryChain)
           below == SubSeq(cstack, 1, place)
<1>1. cstack \in Seq(Activation) /\ Len(cstack) \in Nat /\ tryChain \in Seq(Nat) /\ Increasing(tryChain)
      /\ Range(tryChain) = Guards(cstack)
  BY DEF UnwindInv, Matches
<1>2. place \in Guards(cstack) /\ \A p \in Guards(cstack) : p <= place
  BY <1>1, LastIsHighest
<1>3. place \in 1..Len(cstack) /\ place \in Nat \ {0}
  BY <1>1, <1>2, GuardsBelow
<1>4. Guards(cstack) \subseteq 1..place
  BY <1>1, <1>2, <1>3, GuardsBelow
<1>5. /\ below \in Seq(Activation) /\ Len(below) = place /\ below # <<>>
      /\ Guards(below) = Guards(cstack)
  <2>1. place \in 0..Len(cstack)
    BY <1>1, <1>3
  <2>2. below \in Seq(Activation) /\ Len(below) = place /\ Guards(below) = Guards(cstack) \cap (1..place)
    BY <1>1, <2>1, GuardsCut
  <2> HIDE DEF below, place
  <2> QED BY <1>3, <1>4, <2>2
<1>6. /\ hp_try_pop(tryChain, place) \in Seq(Nat) /\ Increasing(hp_try_pop(tryChain, place))
      /\ Range(hp_try_pop(tryChain, place)) = Guards(cstack) \ {place}
  BY <1>1, PopFacts
<1>7. CASE Last(below).kind = "body"
  <2> DEFINE h == [Trying("handler") EXCEPT !.value = v]
  <2>1. h \in Activation /\ h.kind = "handler"
    BY DEF Activation, Trying, NoValue
  <2>2. cstack' = [below EXCEPT ![place] = h] /\ tryChain' = hp_try_push(hp_try_pop(tryChain, place), place)
    BY <1>7 DEF Caught
  <2> HIDE DEF h, below
  <2>3. cstack' \in Seq(Activation) /\ Guards(cstack') = (Guards(cstack) \ {place}) \cup {place}
    BY <1>5, <2>1, <2>2, GuardsReplace
  <2>4. \A p \in Guards(cstack) \ {place} : p < place
    BY <1>2, <1>3, <1>4
  <2>5. tryChain' \in Seq(Nat) /\ Increasing(tryChain') /\ Range(tryChain') = (Guards(cstack) \ {place}) \cup {place}
    BY <1>3, <1>6, <2>2, <2>4, PushFacts
  <2> QED BY <2>3, <2>5 DEF UnwindInv, Matches
<1>8. CASE Last(below).kind # "body"
  <2>1. cstack' = Returned(below, v) /\ tryChain' = hp_try_pop(tryChain, place)
    BY <1>8 DEF Caught
  <2> HIDE DEF below
  <2>2. cstack' \in Seq(Activation) /\ Guards(cstack') = Guards(cstack) \ {place}
    BY <1>5, <2>1, ReturnedFacts
  <2> QED BY <1>6, <2>1, <2>2 DEF UnwindInv, Matches
<1> QED BY <1>7, <1>8

\* hp_throw, caught or not.
LEMMA ThrowKeeps ==
  ASSUME UnwindInv, NEW v \in Nat, hp_throw(v)
  PROVE  UnwindInv'
<1>1. CASE tryChain = <<>>
  BY <1>1 DEF hp_throw, UnwindInv, Matches
<1>2. CASE tryChain # <<>>
  BY <1>2, CaughtKeeps DEF hp_throw
<1> QED BY <1>1, <1>2

\* An activation that guards nothing returns.
LEMMA PopsKeep ==
  ASSUME UnwindInv, cstack # <<>>, Len(cstack) \notin Guards(cstack), cstack' = Front(cstack),
         tryChain' = tryChain, curEnv' \in Nat
  PROVE  UnwindInv'
<1>1. cstack \in Seq(Activation) /\ Len(cstack) \in Nat \ {0}
  BY DEF UnwindInv
<1>2. Len(cstack) - 1 \in 0..Len(cstack)
  BY <1>1
<1>3. cstack' \in Seq(Activation) /\ Guards(cstack') = Guards(cstack) \cap (1..(Len(cstack) - 1))
  BY <1>1, <1>2, GuardsCut DEF Front
<1>4. \A p \in Guards(cstack) : p \in 1..(Len(cstack) - 1)
  <2> SUFFICES ASSUME NEW p \in Guards(cstack) PROVE p \in 1..(Len(cstack) - 1)
    OBVIOUS
  <2>1. p \in 1..Len(cstack) /\ p # Len(cstack)
    BY <1>1, GuardsBelow
  <2> QED BY <1>1, <2>1
<1> QED BY <1>3, <1>4 DEF UnwindInv, Matches

\* A new activation is entered; a body gets a frame of its own.
LEMMA DeeperKeeps ==
  ASSUME UnwindInv, NEW a \in Activation, cstack' = Append(cstack, a), curEnv' \in Nat,
         \/ a.kind = "closure" /\ tryChain' = tryChain
         \/ a.kind = "body" /\ tryChain' = hp_try_push(tryChain, Len(cstack) + 1)
  PROVE  UnwindInv'
<1>1. cstack \in Seq(Activation) /\ Len(cstack) \in Nat
  BY DEF UnwindInv
<1>2. cstack' \in Seq(Activation)
      /\ Guards(cstack') = Guards(cstack) \cup IF a.kind \in {"body", "handler"} THEN {Len(cstack) + 1} ELSE {}
  BY <1>1, GuardsAppend
<1>3. CASE a.kind = "closure" /\ tryChain' = tryChain
  BY <1>2, <1>3 DEF UnwindInv, Matches
<1>4. CASE a.kind = "body" /\ tryChain' = hp_try_push(tryChain, Len(cstack) + 1)
  <2>1. \A p \in Range(tryChain) : p < Len(cstack) + 1
    BY <1>1, GuardsBelow DEF UnwindInv, Matches
  <2>2. /\ tryChain' \in Seq(Nat) /\ Increasing(tryChain')
        /\ Range(tryChain') = Range(tryChain) \cup {Len(cstack) + 1}
    BY <1>1, <1>4, <2>1, PushFacts DEF UnwindInv, Matches
  <2> QED BY <1>2, <1>4, <2>2 DEF UnwindInv, Matches
<1> QED BY <1>3, <1>4

\* The innermost activation, and what it says of the places that guard.
LEMMA InnerFacts ==
  ASSUME UnwindInv, cstack # <<>>
  PROVE  /\ Inner \in Activation /\ Inner.value \in Nat /\ Inner.env \in Nat
         /\ Inner.kind \in {"body", "handler"} <=> Len(cstack) \in Guards(cstack)
<1>1. cstack \in Seq(Activation) /\ Len(cstack) \in DOMAIN cstack
  BY DEF UnwindInv
<1>2. Inner = cstack[Len(cstack)] /\ Inner \in Activation
  BY <1>1 DEF Inner, Last
<1> QED BY <1>1, <1>2 DEF Activation, Guards

\* Every step keeps the invariant.
LEMMA UnwindStep == ASSUME UnwindInv, UnwindNext PROVE UnwindInv'
<1> USE UnwindAssumption DEF NoValue
<1>1. CASE EnterTry
  <2>1. Trying("body") \in Activation /\ Trying("body").kind = "body"
    BY DEF Activation, Trying
  <2> QED BY <1>1, <2>1, DeeperKeeps DEF EnterTry, Deeper, UnwindInv
<1>2. CASE BodyEnds
  BY <1>2, EndsKeep, InnerFacts DEF BodyEnds, In
<1>3. CASE HandlerEnds
  <2>1. PICK v \in {NoValue, Inner.value} : cstack' = Returned(cstack, v)
    BY <1>3 DEF HandlerEnds
  <2>2. v \in Nat
    BY <1>3, InnerFacts DEF HandlerEnds, In
  <2> QED BY <1>3, <2>1, <2>2, EndsKeep, InnerFacts DEF HandlerEnds, In
<1>4. CASE Throw
  BY <1>4, ThrowKeeps DEF Throw
<1>5. CASE FinallyEnds
  <2>1. Inner.value \in Nat /\ Len(cstack) \notin Guards(cstack) /\ cstack # <<>>
    BY <1>5, InnerFacts DEF FinallyEnds, In
  <2>2. CASE Inner.value # NoValue
    BY <1>5, <2>1, <2>2, ThrowKeeps DEF FinallyEnds
  <2>3. CASE Inner.value = NoValue
    BY <1>5, <2>1, <2>3, PopsKeep DEF FinallyEnds, UnwindInv
  <2> QED BY <2>2, <2>3
<1>6. CASE hp_closure_call_arr
  <2>1. PICK c \in Closures : Deeper(Call(c, curEnv)) /\ curEnv' = c /\ tryChain' = tryChain
    BY <1>6 DEF hp_closure_call_arr
  <2>2. Call(c, curEnv) \in Activation /\ Call(c, curEnv).kind = "closure" /\ c \in Nat
    BY DEF Activation, Call, UnwindInv
  <2> QED BY <2>1, <2>2, DeeperKeeps DEF Deeper
<1>7. CASE ClosureReturns
  BY <1>7, InnerFacts, PopsKeep DEF ClosureReturns, In
<1> QED BY <1>1, <1>2, <1>3, <1>4, <1>5, <1>6, <1>7 DEF UnwindNext

(***************************************************************************)
(* The theorem.                                                            *)
(***************************************************************************)
\* Through every mixture of nested try statements, handlers that throw, finally blocks that
\* rethrow and closures that are left by longjmp, the chain from hp_cur_try is the list of
\* the active calls of hp_try_run, the innermost first: a longjmp never goes to a frame of a
\* call that has returned (hp_try_push, hp_try_pop, hp_try_run, hphp_rt.c:1201).
THEOREM TryChainMatches == UnwindSpec => []ChainMatches
<1>1. UnwindInit => UnwindInv
  BY DEF UnwindInit, UnwindInv, Matches, Guards, Increasing, Range
<1>2. UnwindInv /\ [UnwindNext]_unwindVars => UnwindInv'
  <2>1. ASSUME UnwindInv, UNCHANGED unwindVars PROVE UnwindInv'
    BY <2>1 DEF unwindVars, UnwindInv, Matches, Guards, Increasing, Range
  <2> QED BY <2>1, UnwindStep
<1>3. UnwindInv => ChainMatches
  BY DEF UnwindInv, Matches, Increasing, Guards, Guarding, ChainMatches
<1> QED BY <1>1, <1>2, <1>3, PTL DEF UnwindSpec

(***************************************************************************)
(* Sockets.                                                                *)
(***************************************************************************)

(***************************************************************************)
(* The table as a set of connections, some of which are at their end.      *)
(***************************************************************************)
Record == [h : Fds, eof : BOOLEAN]
Connection == [open : BOOLEAN, peer : BOOLEAN, waiting : Nat, refused : BOOLEAN]

OneEach(t) == \A i, j \in DOMAIN t : t[i].h = t[j].h => i = j
Numbers(t) == {t[i].h : i \in DOMAIN t}
AtEnd(t) == {h \in Fds : \E i \in DOMAIN t : t[i].h = h /\ t[i].eof}

Over(c) == (~ c.peer /\ c.waiting = 0) \/ c.refused

\* The inductive invariant: the program's handles, the open descriptors and the records
\* are the same connections, and those marked are over or have failed to send.
SockInv ==
  /\ kernel \in [Fds -> Connection] /\ sockTable \in Seq(Record) /\ OneEach(sockTable)
  /\ Numbers(sockTable) = {fd \in Fds : kernel[fd].open} /\ handles = {fd \in Fds : kernel[fd].open}
  /\ \A h \in AtEnd(sockTable) : Over(kernel[h])

(***************************************************************************)
(* Lemmas about the table.                                                 *)
(***************************************************************************)
\* A number of the table has exactly one record, which Find finds.
LEMMA FindFacts ==
  ASSUME NEW t \in Seq(Record), OneEach(t), NEW h \in Numbers(t)
  PROVE  /\ Find(t, h) \in DOMAIN t /\ t[Find(t, h)].h = h /\ Slots(t, h) # {}
         /\ \A i \in DOMAIN t : t[i].h = h <=> i = Find(t, h)
<1>1. PICK k \in DOMAIN t : t[k].h = h
  BY DEF Numbers
<1>2. k \in Slots(t, h) /\ \A j \in Slots(t, h) : j = k
  BY <1>1 DEF Slots, OneEach
<1>3. k \in Nat
  OBVIOUS
<1>4. \E i \in Slots(t, h) : \A j \in Slots(t, h) : i <= j
  BY <1>2, <1>3
<1>5. Find(t, h) \in Slots(t, h)
  BY <1>4 DEF Find
<1> QED BY <1>2, <1>5 DEF Slots, OneEach

\* hp_sockrec of a number that has a record changes nothing.
LEMMA SockrecKnown ==
  ASSUME NEW t \in Seq(Record), OneEach(t), NEW h \in Numbers(t)
  PROVE  sockrec(t, h) = t
BY FindFacts DEF sockrec

\* hp_sockrec of another number adds a record that is not at its end.
LEMMA SockrecNew ==
  ASSUME NEW t \in Seq(Record), OneEach(t), NEW h \in Fds, h \notin Numbers(t)
  PROVE  /\ sockrec(t, h) \in Seq(Record) /\ OneEach(sockrec(t, h))
         /\ Numbers(sockrec(t, h)) = Numbers(t) \cup {h} /\ AtEnd(sockrec(t, h)) = AtEnd(t)
<1> DEFINE e == [h |-> h, eof |-> FALSE]
           u == Append(t, e)
<1>1. Slots(t, h) = {}
  BY DEF Slots, Numbers
<1>2. sockrec(t, h) = u
  BY <1>1 DEF sockrec
<1>3. e \in Record /\ e.h = h /\ ~ e.eof
  BY DEF Record
<1> HIDE DEF e
<1>4. /\ u \in Seq(Record) /\ DOMAIN u = 1..(Len(t) + 1) /\ u[Len(t) + 1] = e
      /\ DOMAIN t = 1..Len(t) /\ Len(t) \in Nat /\ \A i \in DOMAIN t : u[i] = t[i]
  BY <1>3
<1> HIDE DEF u
<1>5. DOMAIN u = DOMAIN t \cup {Len(t) + 1} /\ Len(t) + 1 \notin DOMAIN t
  BY <1>4
<1>6. \A i \in DOMAIN t : t[i].h # h
  BY DEF Numbers
<1>7. OneEach(u)
  BY <1>3, <1>4, <1>5, <1>6 DEF OneEach
<1>8. Numbers(u) = Numbers(t) \cup {h}
  BY <1>3, <1>4, <1>5 DEF Numbers
<1>9. AtEnd(u) = AtEnd(t)
  BY <1>3, <1>4, <1>5 DEF AtEnd
<1> QED BY <1>2, <1>4, <1>7, <1>8, <1>9

\* Marking a record leaves the others.
LEMMA EndedFacts ==
  ASSUME NEW t \in Seq(Record), OneEach(t), NEW h \in Numbers(t)
  PROVE  /\ Ended(t, h) \in Seq(Record) /\ OneEach(Ended(t, h))
         /\ Numbers(Ended(t, h)) = Numbers(t) /\ AtEnd(Ended(t, h)) \subseteq AtEnd(t) \cup {h}
<1> DEFINE k == Find(t, h)
           u == [t EXCEPT ![k].eof = TRUE]
           e == [t[k] EXCEPT !.eof = TRUE]
<1>1. Ended(t, h) = u
  BY SockrecKnown DEF Ended
<1>2. k \in DOMAIN t /\ t[k].h = h /\ DOMAIN t = 1..Len(t) /\ Len(t) \in Nat
  BY FindFacts
<1>3. t[k] \in Record
  BY <1>2
<1>4. e \in Record /\ e.h = h
  BY <1>2, <1>3 DEF Record
<1>5. u = [t EXCEPT ![k] = e]
  OBVIOUS
<1> HIDE DEF u, e, k
<1>6. /\ u \in Seq(Record) /\ DOMAIN u = DOMAIN t /\ u[k] = e
      /\ \A i \in DOMAIN t : i # k => u[i] = t[i]
  BY <1>2, <1>4, <1>5
<1>7. \A i \in DOMAIN t : u[i].h = t[i].h
  BY <1>2, <1>4, <1>6
<1>8. OneEach(u) /\ Numbers(u) = Numbers(t)
  BY <1>6, <1>7 DEF OneEach, Numbers
<1>9. AtEnd(u) \subseteq AtEnd(t) \cup {h}
  BY <1>4, <1>6 DEF AtEnd
<1> QED BY <1>1, <1>6, <1>8, <1>9

\* sock_forget takes the record of one number out and keeps all others, although it moves
\* the last one.
LEMMA ForgetFacts ==
  ASSUME NEW t \in Seq(Record), OneEach(t), NEW h \in Numbers(t)
  PROVE  /\ sock_forget(t, h) \in Seq(Record) /\ OneEach(sock_forget(t, h))
         /\ Numbers(sock_forget(t, h)) = Numbers(t) \ {h} /\ AtEnd(sock_forget(t, h)) = AtEnd(t) \ {h}
<1> DEFINE k == Find(t, h)
           l == Len(t)
           r == [t EXCEPT ![k] = t[l]]
           u == Front(r)
<1>1. sock_forget(t, h) = u
  BY FindFacts DEF sock_forget, Last
<1>2. /\ k \in DOMAIN t /\ t[k].h = h /\ DOMAIN t = 1..l /\ l \in Nat
      /\ \A i \in DOMAIN t : t[i].h = h => i = k
  BY FindFacts
<1>3. k \in 1..l /\ l \in 1..l /\ t[l] \in Record
  BY <1>2
<1> HIDE DEF k
<1>4. r \in Seq(Record) /\ Len(r) = l /\ \A i \in 1..l : r[i] = IF i = k THEN t[l] ELSE t[i]
  BY <1>2, <1>3
<1> HIDE DEF r
<1>5. /\ u \in Seq(Record) /\ DOMAIN u = 1..(l - 1)
      /\ \A i \in 1..(l - 1) : u[i] = r[i]
  BY <1>2, <1>3, <1>4 DEF Front
<1>6. \A i \in 1..(l - 1) : i \in 1..l /\ i # l /\ u[i] = IF i = k THEN t[l] ELSE t[i]
  <2> HIDE DEF u, l
  <2> SUFFICES ASSUME NEW i \in 1..(l - 1)
               PROVE  i \in 1..l /\ i # l /\ u[i] = IF i = k THEN t[l] ELSE t[i]
    OBVIOUS
  <2>1. i \in 1..l /\ i # l
    BY <1>2
  <2> QED BY <1>4, <1>5, <2>1
<1> HIDE DEF u, l
<1>7. \A i \in 1..l : i # k => \E j \in 1..(l - 1) : u[j] = t[i]
  <2> SUFFICES ASSUME NEW i \in 1..l, i # k PROVE \E j \in 1..(l - 1) : u[j] = t[i]
    OBVIOUS
  <2>1. CASE i = l
    <3>1. k \in 1..(l - 1)
      BY <1>2, <1>3, <2>1
    <3> QED BY <1>6, <2>1, <3>1
  <2>2. CASE i # l
    <3>1. i \in 1..(l - 1)
      BY <1>2, <2>2
    <3> QED BY <1>6, <3>1
  <2> QED BY <2>1, <2>2
<1>8. \A j \in 1..(l - 1) : \E i \in 1..l : i # k /\ u[j] = t[i]
  BY <1>3, <1>6
<1>9. OneEach(u)
  <2> SUFFICES ASSUME NEW i \in 1..(l - 1), NEW j \in 1..(l - 1), u[i].h = u[j].h PROVE i = j
    BY <1>5 DEF OneEach
  <2>1. i \in 1..l /\ j \in 1..l /\ i # l /\ j # l
    BY <1>6
  <2>2. u[i] = (IF i = k THEN t[l] ELSE t[i]) /\ u[j] = (IF j = k THEN t[l] ELSE t[j])
    BY <1>6
  <2> QED BY <1>2, <1>3, <2>1, <2>2 DEF OneEach
<1>10. \A i \in 1..l : i # k <=> t[i].h # h
  BY <1>2
<1>11. Numbers(u) = Numbers(t) \ {h}
  <2>1. \A g \in Numbers(u) : g \in Numbers(t) /\ g # h
    BY <1>2, <1>5, <1>8, <1>10 DEF Numbers
  <2>2. ASSUME NEW g \in Numbers(t) \ {h} PROVE g \in Numbers(u)
    <3>1. PICK i \in 1..l : t[i].h = g
      BY <1>2 DEF Numbers
    <3>2. PICK j \in 1..(l - 1) : u[j] = t[i]
      BY <1>7, <1>10, <3>1
    <3> QED BY <1>5, <3>1, <3>2 DEF Numbers
  <2> QED BY <2>1, <2>2
<1>12. AtEnd(u) = AtEnd(t) \ {h}
  <2>1. \A g \in AtEnd(u) : g \in AtEnd(t) /\ g # h
    BY <1>2, <1>5, <1>8, <1>10 DEF AtEnd
  <2>2. ASSUME NEW g \in AtEnd(t) \ {h} PROVE g \in AtEnd(u)
    <3>1. PICK i \in 1..l : t[i].h = g /\ t[i].eof /\ g \in Fds
      BY <1>2 DEF AtEnd
    <3>2. PICK j \in 1..(l - 1) : u[j] = t[i]
      BY <1>7, <1>10, <3>1
    <3> QED BY <1>5, <3>1, <3>2 DEF AtEnd
  <2>3. \A g : g \in AtEnd(u) <=> g \in AtEnd(t) \ {h} BY <2>1, <2>2, Zenon
  <2> QED BY <2>3, Zenon
<1> QED BY <1>1, <1>5, <1>9, <1>11, <1>12

(***************************************************************************)
(* The steps.                                                              *)
(***************************************************************************)
\* What the kernel knows of one connection changes, but not that it is open.
LEMMA KernelKeeps ==
  ASSUME SockInv, NEW h \in Fds, NEW c \in Connection, kernel' = [kernel EXCEPT ![h] = c],
         c.open = kernel[h].open, sockTable' = sockTable, handles' = handles,
         h \in AtEnd(sockTable) => Over(c)
  PROVE  SockInv'
<1>1. kernel' \in [Fds -> Connection] /\ kernel'[h] = c /\ \A g \in Fds : g # h => kernel'[g] = kernel[g]
  BY DEF SockInv
<1>2. \A g \in Fds : kernel'[g].open = kernel[g].open
  BY <1>1
<1>3. \A g \in AtEnd(sockTable) : Over(kernel'[g])
  BY <1>1 DEF SockInv, AtEnd
<1> QED BY <1>1, <1>2, <1>3 DEF SockInv

\* A connection that is over is marked.
LEMMA MarksKeep ==
  ASSUME SockInv, NEW h \in handles, NEW c \in Connection, kernel' = [kernel EXCEPT ![h] = c],
         c.open, Over(c), sockTable' = Ended(sockTable, h), handles' = handles
  PROVE  SockInv'
<1>1. h \in Fds /\ h \in Numbers(sockTable) /\ kernel[h].open
  BY DEF SockInv
<1>2. /\ sockTable' \in Seq(Record) /\ OneEach(sockTable') /\ Numbers(sockTable') = Numbers(sockTable)
      /\ AtEnd(sockTable') \subseteq AtEnd(sockTable) \cup {h}
  BY <1>1, EndedFacts DEF SockInv
<1>3. kernel' \in [Fds -> Connection] /\ kernel'[h] = c /\ \A g \in Fds : g # h => kernel'[g] = kernel[g]
  BY <1>1 DEF SockInv
<1>4. {fd \in Fds : kernel'[fd].open} = {fd \in Fds : kernel[fd].open}
  BY <1>1, <1>3
<1>5. \A g \in AtEnd(sockTable') : Over(kernel'[g])
  BY <1>2, <1>3 DEF SockInv, AtEnd
<1> QED BY <1>2, <1>3, <1>4, <1>5 DEF SockInv

\* A connection gets a descriptor that is free and a record of its own.
LEMMA OpenedKeeps == ASSUME SockInv, Opened PROVE SockInv'
<1>1. PICK fd \in Fds : /\ ~ kernel[fd].open /\ kernel' = [kernel EXCEPT ![fd] = Connected]
                        /\ sockTable' = sockrec(sockTable, fd) /\ handles' = handles \cup {fd}
  BY DEF Opened, Lowest
<1>2. fd \notin Numbers(sockTable)
  BY <1>1 DEF SockInv
<1>3. /\ sockTable' \in Seq(Record) /\ OneEach(sockTable') /\ Numbers(sockTable') = Numbers(sockTable) \cup {fd}
      /\ AtEnd(sockTable') = AtEnd(sockTable)
  BY <1>1, <1>2, SockrecNew DEF SockInv
<1>4. Connected \in Connection /\ Connected.open
  BY DEF Connected, Connection
<1>5. kernel' \in [Fds -> Connection] /\ kernel'[fd].open /\ \A g \in Fds : g # fd => kernel'[g] = kernel[g]
  BY <1>1, <1>4 DEF SockInv
<1>6. {g \in Fds : kernel'[g].open} = {g \in Fds : kernel[g].open} \cup {fd}
  BY <1>5
<1>7. AtEnd(sockTable) \subseteq Numbers(sockTable)
  BY DEF AtEnd, Numbers
<1>8. \A g \in AtEnd(sockTable') : Over(kernel'[g])
  BY <1>2, <1>3, <1>5, <1>7 DEF SockInv, AtEnd
<1> QED BY <1>1, <1>3, <1>5, <1>6, <1>8 DEF SockInv

\* stream_recv takes data, or marks a connection that is over.
LEMMA RecvKeeps == ASSUME SockInv, NEW h \in handles, stream_recv(h) PROVE SockInv'
<1>1. h \in Fds /\ kernel[h] \in Connection /\ kernel[h].open
  BY DEF SockInv
<1>2. kernel[h].waiting \in Nat /\ kernel[h].peer \in BOOLEAN /\ handles' = handles
  BY <1>1 DEF Connection, stream_recv
<1>3. CASE kernel[h].waiting > 0
  <2> DEFINE w == kernel[h].waiting - 1
             c == [kernel[h] EXCEPT !.waiting = w]
  <2>1. kernel' = [kernel EXCEPT ![h] = c] /\ sockTable' = sockTable
    BY <1>2, <1>3 DEF stream_recv
  <2>5. w \in Nat
    BY <1>2, <1>3
  <2> HIDE DEF w
  <2>2. c \in Connection /\ c.open = kernel[h].open
    BY <1>1, <2>5 DEF Connection
  <2>3. c.peer = kernel[h].peer /\ c.refused = kernel[h].refused
    BY <1>1 DEF Connection
  <2>4. Over(kernel[h]) => Over(c)
    BY <1>2, <1>3, <2>3 DEF Over
  <2> HIDE DEF c
  <2> QED BY <1>1, <1>2, <2>1, <2>2, <2>4, KernelKeeps DEF SockInv
<1>4. CASE kernel[h].waiting = 0 /\ kernel[h].peer
  <2>1. kernel' = kernel /\ sockTable' = sockTable
    BY <1>2, <1>4 DEF stream_recv
  <2> QED BY <1>2, <2>1 DEF SockInv
<1>5. CASE kernel[h].waiting = 0 /\ ~ kernel[h].peer
  <2>1. kernel' = kernel /\ sockTable' = Ended(sockTable, h)
    BY <1>2, <1>5 DEF stream_recv
  <2>2. kernel' = [kernel EXCEPT ![h] = kernel[h]]
    BY <1>1, <2>1 DEF SockInv
  <2>3. Over(kernel[h])
    BY <1>5 DEF Over
  <2> QED BY <1>1, <1>2, <2>1, <2>2, <2>3, MarksKeep
<1> QED BY <1>2, <1>3, <1>4, <1>5

\* stream_send marks a connection it fails on.
LEMMA SendKeeps == ASSUME SockInv, NEW h \in handles, stream_send(h) PROVE SockInv'
<1>1. h \in Fds /\ kernel[h] \in Connection /\ kernel[h].open /\ handles' = handles
  BY DEF SockInv, stream_send
<1>2. CASE kernel' = kernel /\ sockTable' = sockTable
  BY <1>1, <1>2 DEF SockInv
<1>3. CASE sockTable' = Ended(sockTable, h) /\ kernel' = [kernel EXCEPT ![h].refused = kernel[h].open]
  <2> DEFINE c == [kernel[h] EXCEPT !.refused = kernel[h].open]
  <2>1. kernel' = [kernel EXCEPT ![h] = c]
    BY <1>3
  <2>2. c \in Connection /\ c.open /\ Over(c)
    BY <1>1 DEF Connection, Over
  <2> HIDE DEF c
  <2> QED BY <1>1, <1>3, <2>1, <2>2, MarksKeep
<1> QED BY <1>2, <1>3 DEF stream_send

\* stream_close frees the descriptor and forgets the record.
LEMMA CloseKeeps == ASSUME SockInv, NEW h \in handles, stream_close(h) PROVE SockInv'
<1>1. h \in Fds /\ h \in Numbers(sockTable)
  BY DEF SockInv
<1>2. /\ kernel' = [kernel EXCEPT ![h] = Free] /\ sockTable' = sock_forget(sockTable, h)
      /\ handles' = handles \ {h}
  BY DEF stream_close
<1>3. /\ sockTable' \in Seq(Record) /\ OneEach(sockTable') /\ Numbers(sockTable') = Numbers(sockTable) \ {h}
      /\ AtEnd(sockTable') = AtEnd(sockTable) \ {h}
  BY <1>1, <1>2, ForgetFacts DEF SockInv
<1>4. Free \in Connection /\ ~ Free.open
  BY DEF Free, Connection
<1>5. kernel' \in [Fds -> Connection] /\ ~ kernel'[h].open /\ \A g \in Fds : g # h => kernel'[g] = kernel[g]
  BY <1>1, <1>2, <1>4 DEF SockInv
<1>6. {g \in Fds : kernel'[g].open} = {g \in Fds : kernel[g].open} \ {h}
  BY <1>5
<1>7. \A g \in AtEnd(sockTable') : Over(kernel'[g])
  BY <1>3, <1>5 DEF SockInv, AtEnd
<1> QED BY <1>2, <1>3, <1>5, <1>6, <1>7 DEF SockInv

\* The other ends send and close.
LEMMA PeersKeep == ASSUME SockInv, NEW h \in Fds, PeerSends(h) \/ PeerCloses(h) PROVE SockInv'
<1>1. kernel[h] \in Connection /\ kernel[h].peer /\ handles' = handles /\ sockTable' = sockTable
  BY DEF SockInv, PeerSends, PeerCloses
<1>2. h \in AtEnd(sockTable) => kernel[h].refused
  BY <1>1 DEF SockInv, Over
<1>3. CASE PeerSends(h)
  <2> DEFINE c == [kernel[h] EXCEPT !.waiting = @ + 1]
  <2>1. kernel' = [kernel EXCEPT ![h] = c]
    BY <1>3 DEF PeerSends
  <2>2. c \in Connection /\ c.open = kernel[h].open /\ c.refused = kernel[h].refused
    BY <1>1 DEF Connection
  <2>3. kernel[h].refused => Over(c)
    BY <2>2 DEF Over
  <2> HIDE DEF c
  <2> QED BY <1>1, <1>2, <2>1, <2>2, <2>3, KernelKeeps
<1>4. CASE PeerCloses(h)
  <2> DEFINE c == [kernel[h] EXCEPT !.peer = FALSE]
  <2>1. kernel' = [kernel EXCEPT ![h] = c]
    BY <1>4 DEF PeerCloses
  <2>2. c \in Connection /\ c.open = kernel[h].open /\ c.refused = kernel[h].refused
    BY <1>1 DEF Connection
  <2>3. kernel[h].refused => Over(c)
    BY <2>2 DEF Over
  <2> HIDE DEF c
  <2> QED BY <1>1, <1>2, <2>1, <2>2, <2>3, KernelKeeps
<1> QED BY <1>3, <1>4

\* Every step keeps the invariant.
LEMMA SockStep == ASSUME SockInv, StaleHandles = FALSE, SockNext PROVE SockInv'
<1>1. CASE stream_socket_client \/ stream_socket_accept
  BY <1>1, OpenedKeeps DEF stream_socket_client, stream_socket_accept
<1>2. CASE Arrives \/ stream_ready
  BY <1>2 DEF Arrives, stream_ready, sockVars, SockInv
<1>3. ASSUME NEW h \in Usable, stream_recv(h) \/ stream_send(h) \/ stream_close(h) PROVE SockInv'
  <2>1. h \in handles
    BY DEF Usable
  <2> QED BY <1>3, <2>1, RecvKeeps, SendKeeps, CloseKeeps
<1>4. ASSUME NEW h \in Fds, PeerSends(h) \/ PeerCloses(h) PROVE SockInv'
  BY <1>4, PeersKeep
<1> QED BY <1>1, <1>2, <1>3, <1>4 DEF SockNext

(***************************************************************************)
(* The theorem.                                                            *)
(***************************************************************************)
\* In a state of the invariant end of file is reported only of connections that are over.
LEMMA SockInvFacts == SockInv => EofRight
<1> SUFFICES ASSUME SockInv PROVE EofRight
  OBVIOUS
<1>1. RecordsMatch
  BY DEF SockInv, RecordsMatch, Numbers, OneEach
<1>2. ASSUME NEW h \in handles, stream_eof(h)
      PROVE  (~ kernel[h].peer /\ kernel[h].waiting = 0) \/ kernel[h].refused
  <2>1. h \in Numbers(sockTable) /\ h \in Fds
    BY DEF SockInv
  <2>2. h \in AtEnd(sockTable)
    BY <1>2, <2>1, FindFacts DEF SockInv, stream_eof, AtEnd
  <2> QED BY <2>2 DEF SockInv, Over
<1> QED BY <1>1, <1>2 DEF EofMeansOver, EofRight

\* A program that does not use closed handles is told of the end of file only of connections
\* that are over or that one of its own sends failed on, whatever had the descriptor before:
\* g_sock has one record for each open connection, and closing one moves the last record
\* without losing it (hp_sockrec, hp_sock_forget).  A stale handle can mark the record of a
\* connection it does not own, so the hypothesis is needed.
THEOREM EndOfFileIsTrue == SockSpec /\ StaleHandles = FALSE => []EofRight
<1> SUFFICES ASSUME StaleHandles = FALSE PROVE SockSpec => []EofRight
  OBVIOUS
<1>1. SockInit => SockInv
  BY DEF SockInit, SockInv, Free, Connection, OneEach, Numbers, AtEnd
<1>2. SockInv /\ [SockNext]_sockVars => SockInv'
  <2>1. ASSUME SockInv, UNCHANGED sockVars PROVE SockInv'
    BY <2>1 DEF sockVars, SockInv
  <2> QED BY <2>1, SockStep
<1>3. SockInv => EofRight
  BY SockInvFacts
<1> QED BY <1>1, <1>2, <1>3, PTL DEF SockSpec

(***************************************************************************)
(* Texts, cells and rows.                                                  *)
(***************************************************************************)
\* A set of numbers has a least element.
LEMMA LeastElement ==
  ASSUME NEW T, T \subseteq Nat, T # {}
  PROVE  \E x \in T : \A y \in T : x <= y
<1> DEFINE R == {ss \in Nat \X Nat : ss[1] < ss[2]}
<1>1. IsWellFoundedOn(R, Nat) BY NatLessThanWellFounded DEF OpToRel
<1> HIDE DEF R
<1>2. PICK x \in T : \A y \in T : ~ (<<y, x>> \in R)
  BY <1>1, WFMin
<1>3. ASSUME NEW y \in T PROVE x <= y
  <2>1. ~ (y < x)
    BY <1>2 DEF R
  <2> QED BY <2>1
<1> QED BY <1>3

\* A text is not NULL.
LEMMA TextFacts ==
  ASSUME NEW v \in Texts
  PROVE  v # Null /\ v \in Seq(Int) /\ Len(v) \in 0..250 /\ (v # <<>> => Len(v) # 0)
<1> DEFINE Byte == 0..255
<1>1. v \in Seq(Byte) /\ Len(v) \in 0..250 BY MysqlAssumption
<1>2. PICK n \in 0..250 : n = Len(v) BY <1>1
<1>3. Byte \subseteq Int OBVIOUS
<1>4. -1 \notin Byte OBVIOUS
<1> HIDE DEF Byte
<1>5. n \in Nat /\ v \in [1..n -> Byte] BY <1>1, <1>2, LenProperties
<1>6. v \in Seq(Int)
  <2>1. v \in [1..n -> Int] BY <1>3, <1>5
  <2> QED BY <1>5, <2>1
<1>7. v # Null
  <2>1. Len(Null) = 1 /\ Null[1] = -1 BY DEF Null
  <2>2. n = 1 => v[1] \in Byte BY <1>5
  <2> QED BY <1>2, <1>4, <2>1, <2>2
<1>8. v # <<>> => Len(v) # 0
  <2>1. \A seq \in Seq(Byte) : seq # <<>> => Len(seq) \in Nat \ {0} BY EmptySeq
  <2>2. v # <<>> => Len(v) \in Nat \ {0} BY <1>1, <2>1, Zenon
  <2>3. 0 \notin Nat \ {0} OBVIOUS
  <2> QED BY <2>2, <2>3, Zenon
<1> QED BY <1>1, <1>6, <1>7, <1>8

\* A length before a text.
LEMMA Prefixed ==
  ASSUME NEW n \in Int, NEW v \in Seq(Int)
  PROVE  /\ <<n>> \o v \in Seq(Int) /\ Len(<<n>> \o v) = 1 + Len(v)
         /\ (<<n>> \o v)[1] = n
         /\ \A i \in 1..Len(v) : (<<n>> \o v)[1 + i] = v[i]
<1>1. <<n>> \in Seq(Int) /\ Len(<<n>>) = 1 /\ <<n>>[1] = n OBVIOUS
<1>2. PICK k \in Nat : k = Len(v) BY LenProperties
<1>3. PICK s : s = <<n>> \o v OBVIOUS
<1>4. /\ s \in Seq(Int) /\ Len(s) = 1 + k
      /\ \A i \in 1..(1 + k) : s[i] = IF i <= 1 THEN <<n>>[i] ELSE v[i - 1]
  BY <1>1, <1>2, <1>3, ConcatProperties
<1>5. s[1] = n
  <2>1. 1 \in 1..(1 + k) OBVIOUS
  <2> QED BY <1>1, <1>4, <2>1
<1>6. ASSUME NEW i \in 1..k PROVE s[1 + i] = v[i]
  <2>1. 1 + i \in 1..(1 + k) /\ ~ (1 + i <= 1) /\ (1 + i) - 1 = i OBVIOUS
  <2> QED BY <1>4, <2>1
<1> QED BY <1>2, <1>3, <1>4, <1>5, <1>6, Zenon

\* What stands on the wire for a value begins with its length or with the mark of NULL.
LEMMA CellFacts ==
  ASSUME NEW v \in Values
  PROVE  /\ Cell(v) \in Seq(Int) /\ Len(Cell(v)) >= 1
         /\ v = Null => Cell(v)[1] = 251
         /\ v # Null => Cell(v) = <<Len(v)>> \o v /\ Cell(v)[1] = Len(v)
<1>1. CASE v = Null
  <2>1. Cell(v) = <<251>> BY <1>1 DEF Cell
  <2>2. <<251>> \in Seq(Int) /\ Len(<<251>>) = 1 /\ <<251>>[1] = 251 OBVIOUS
  <2> QED BY <1>1, <2>1, <2>2
<1>2. CASE v # Null
  <2>1. v \in Texts BY <1>2 DEF Values
  <2>2. v \in Seq(Int) /\ Len(v) \in 0..250 BY <2>1, TextFacts
  <2>3. my_lenc_put(Len(v)) = <<Len(v)>>
    <3>1. \A n \in 0..250 : my_lenc_put(n) = <<n>> BY DEF my_lenc_put
    <3> QED BY <2>2, <3>1
  <2>4. Cell(v) = <<Len(v)>> \o v BY <1>2, <2>3 DEF Cell, my_lenc_str
  <2>5. Cell(v) \in Seq(Int) /\ Len(Cell(v)) = 1 + Len(v) /\ Cell(v)[1] = Len(v)
    <3>1. PICK n \in Int : n = Len(v) BY <2>2
    <3>2. v \in Seq(Int) BY <2>2
    <3>3. PICK s : s = <<n>> \o v OBVIOUS
    <3>4. s \in Seq(Int) /\ Len(s) = 1 + Len(v) /\ s[1] = n BY <3>2, <3>3, Prefixed, Zenon
    <3> QED BY <2>4, <3>1, <3>3, <3>4, Zenon
  <2>6. Len(Cell(v)) >= 1 BY <2>2, <2>5
  <2> QED BY <1>2, <2>4, <2>5, <2>6
<1> QED BY <1>1, <1>2

\* A part of a sequence, position by position.
LEMMA PartIs ==
  ASSUME NEW r \in Seq(Int), NEW x \in Seq(Int), NEW k \in Nat, k + Len(x) <= Len(r),
         \A i \in 1..Len(x) : r[k + i] = x[i]
  PROVE  SubSeq(r, k + 1, k + Len(x)) = x
<1>1. PICK n \in Nat : n = Len(x) BY LenProperties
<1>2. Len(r) \in Nat /\ \A i \in 1..Len(r) : r[i] \in Int BY LenProperties
<1>3. \A i \in (k + 1)..(k + n) : r[i] \in Int BY <1>1, <1>2
<1>4. PICK y : y = SubSeq(r, k + 1, k + n) OBVIOUS
<1>5. /\ y \in Seq(Int) /\ Len(y) = (IF k + 1 <= k + n THEN (k + n) - (k + 1) + 1 ELSE 0)
      /\ \A i \in 1..((k + n) - (k + 1) + 1) : y[i] = r[(k + 1) + i - 1]
  <2>1. k + 1 \in Int /\ k + n \in Int BY <1>1
  <2> QED BY <1>3, <1>4, <2>1, SubSeqProperties
<1>6. Len(y) = n /\ (k + n) - (k + 1) + 1 = n BY <1>1, <1>5
<1>7. ASSUME NEW i \in 1..n PROVE y[i] = x[i]
  <2>1. (k + 1) + i - 1 = k + i BY <1>1
  <2> QED BY <2>1, <1>1, <1>5, <1>6
<1> QED BY <1>1, <1>4, <1>5, <1>6, <1>7, SeqEqual

\* The client cuts off a text that is not empty, and nothing else.
LEMMA CutsOff ==
  ASSUME NEW v \in Texts, v # <<>>, NEW bytes \in Seq(Int), NEW columns
  PROVE  NextColumn([columns |-> columns, rest |-> Cell(v) \o bytes])
         = [columns |-> Append(columns, v), rest |-> bytes]
<1>1. v \in Seq(Int) /\ Len(v) \in 1..250 /\ v # Null /\ v \in Values
  BY TextFacts DEF Values
<1>2. PICK n \in 1..250 : n = Len(v) BY <1>1
<1>3. PICK m \in Nat : m = Len(bytes) BY LenProperties
<1>4. PICK r : r = v \o bytes OBVIOUS
<1>5. /\ r \in Seq(Int) /\ Len(r) = n + m
      /\ \A i \in 1..(n + m) : r[i] = IF i <= n THEN v[i] ELSE bytes[i - n]
  BY <1>1, <1>2, <1>3, <1>4, ConcatProperties
<1>6. PICK s : s = Cell(v) \o bytes OBVIOUS
<1>7. s = <<n>> \o r
  <2>1. PICK one \in Seq(Int) : one = <<n>>
    <3>1. <<n>> \in Seq(Int) OBVIOUS
    <3> QED BY <3>1
  <2>2. Cell(v) = one \o v BY <1>1, <1>2, <2>1, CellFacts
  <2>3. v \in Seq(Int) BY <1>1
  <2>4. (one \o v) \o bytes = one \o (v \o bytes)
    <3>1. ASSUME NEW x \in Seq(Int), NEW y \in Seq(Int), NEW z \in Seq(Int)
          PROVE  (x \o y) \o z = x \o (y \o z)
      BY ONLY ConcatAssociative, SMTT(30)
    <3> QED BY <2>1, <2>3, <3>1, Zenon
  <2> QED BY <1>4, <1>6, <2>1, <2>2, <2>4, Zenon
<1>8. /\ s \in Seq(Int) /\ Len(s) = 1 + (n + m) /\ s[1] = n
      /\ \A i \in 1..(n + m) : s[1 + i] = r[i]
  BY <1>5, <1>7, Prefixed
<1>9. s # <<>>
  <2>1. Len(s) # 0 BY <1>8
  <2>2. Len(<<>>) = 0 OBVIOUS
  <2> QED BY <2>1, <2>2
<1>10. Head(s) = n BY <1>8, <1>9
<1>11. SubSeq(s, 2, Len(s)) = r
  <2>1. 1 + Len(r) <= Len(s) /\ 1 + 1 = 2 /\ 1 + Len(r) = Len(s) BY <1>5, <1>8
  <2>2. \A i \in 1..Len(r) : s[1 + i] = r[i] BY <1>5, <1>8
  <2>3. SubSeq(s, 1 + 1, 1 + Len(r)) = r BY <1>5, <1>8, <2>1, <2>2, PartIs
  <2> QED BY <2>1, <2>3
<1>12. SubSeq(r, 1, n) = v
  <2>1. \A i \in 1..n : r[0 + i] = v[i] BY <1>5
  <2>2. 0 + Len(v) <= Len(r)
    <3>1. 0 + n <= n + m OBVIOUS
    <3> QED BY <1>2, <1>5, <3>1, Zenon
  <2>3. SubSeq(r, 0 + 1, 0 + Len(v)) = v BY <1>1, <1>2, <1>5, <2>1, <2>2, PartIs
  <2>4. 0 + 1 = 1 /\ 0 + Len(v) = n BY <1>2
  <2> QED BY <2>3, <2>4, Zenon
<1>13. SubSeq(r, n + 1, Len(r)) = bytes
  <2>1. \A i \in 1..m : r[n + i] = bytes[i]
    <3> SUFFICES ASSUME NEW i \in 1..m PROVE r[n + i] = bytes[i]
      OBVIOUS
    <3>1. n + i \in 1..(n + m) /\ ~ (n + i <= n) /\ (n + i) - n = i OBVIOUS
    <3> QED BY <1>5, <3>1
  <2>2. n + Len(bytes) <= Len(r) /\ n \in Nat BY <1>3, <1>5
  <2>3. SubSeq(r, n + 1, n + Len(bytes)) = bytes BY <1>3, <1>5, <2>1, <2>2, PartIs
  <2> QED BY <1>3, <1>5, <2>3
<1>14. my_lenc_int(s) = [value |-> n, rest |-> r]
  <2>1. n # 252 /\ n # 253 /\ n # 254 /\ n < 251 OBVIOUS
  <2>2. (CASE n = 252 -> 2 [] n = 253 -> 3 [] n = 254 -> 8 [] OTHER -> 0) = 0 BY <2>1
  <2>3. my_lenc_int(s) = [value |-> n, rest |-> SubSeq(s, 2 + 0, Len(s))]
    BY <1>10, <2>1, <2>2, Zenon DEF my_lenc_int
  <2>4. 2 + 0 = 2 OBVIOUS
  <2> QED BY <1>11, <2>3, <2>4, Zenon
<1>15. PICK c : c = [columns |-> columns, rest |-> s] OBVIOUS
<1>16. c.rest = s /\ c.columns = columns BY <1>15
<1>17. PICK l : l = my_lenc_int(s) OBVIOUS
<1>18. l.value = n /\ l.rest = r BY <1>14, <1>17
<1>19. NextColumn(c) = [columns |-> Append(columns, SubSeq(r, 1, n)),
                        rest |-> SubSeq(r, n + 1, Len(r))]
  BY <1>9, <1>16, <1>17, <1>18 DEF NextColumn
<1> QED BY <1>6, <1>12, <1>13, <1>15, <1>19

(***************************************************************************)
(* Rows on the wire, and taken apart again.                                *)
(***************************************************************************)
Row(w) == [1..w -> Values]

\* f[k] is what stands on the wire for the last k columns, k up to m.
Ends(f, row, m) ==
  f = [k \in 0..m |-> IF k = 0 THEN <<>> ELSE Cell(row[Len(row) + 1 - k]) \o f[k - 1]]

\* There is such a function.
LEMMA EndsExist ==
  ASSUME NEW row, NEW n \in Nat
  PROVE  \E f : Ends(f, row, n)
<1> DEFINE T == {m \in Nat : ~ \E f : Ends(f, row, m)}
<1>1. SUFFICES ASSUME T # {} PROVE FALSE OBVIOUS
<1>2. PICK m \in T : \A y \in T : m <= y
  <2>1. T \subseteq Nat OBVIOUS
  <2> QED BY <1>1, <2>1, LeastElement
<1>3. m \in Nat /\ ~ \E f : Ends(f, row, m) OBVIOUS
<1>4. CASE m = 0
  <2> DEFINE g == [k \in 0..0 |-> <<>>]
  <2>1. \A k \in 0..0 : (IF k = 0 THEN <<>> ELSE Cell(row[Len(row) + 1 - k]) \o g[k - 1]) = <<>>
    OBVIOUS
  <2>2. Ends(g, row, 0) BY <2>1 DEF Ends
  <2> QED BY <2>2, <1>3, <1>4
<1>5. CASE m # 0
  <2>1. m - 1 \in Nat /\ ~ (m <= m - 1) BY <1>3, <1>5
  <2>2. m - 1 \notin T BY <2>1, <1>2
  <2>3. PICK f : Ends(f, row, m - 1) BY <2>1, <2>2
  <2> DEFINE F(h, k) == IF k = 0 THEN <<>> ELSE Cell(row[Len(row) + 1 - k]) \o h[k - 1]
  <2> DEFINE g == [k \in 0..m |-> IF k = m THEN F(f, m) ELSE f[k]]
  <2>4. \A k \in 0..(m - 1) : f[k] = F(f, k)
    BY <2>3, Zenon DEF Ends
  <2>5. \A k \in 0..m : g[k] = F(g, k)
    <3> SUFFICES ASSUME NEW k \in 0..m PROVE g[k] = F(g, k)
      OBVIOUS
    <3>1. CASE k = m
      <4>1. g[k] = F(f, m) BY <3>1, <1>3
      <4>2. m - 1 \in 0..m /\ m - 1 # m BY <2>1, <1>3
      <4>3. g[m - 1] = f[m - 1] BY <4>2
      <4> QED BY <3>1, <4>1, <4>3, <1>5
    <3>2. CASE k # m
      <4>1. k \in 0..(m - 1) /\ g[k] = f[k] BY <3>2, <1>3
      <4>2. CASE k = 0 BY <4>1, <4>2, <2>4
      <4>3. CASE k # 0
        <5>1. k - 1 \in 0..m /\ k - 1 # m BY <4>1, <4>3, <1>3
        <5>2. g[k - 1] = f[k - 1] BY <5>1
        <5> HIDE DEF g
        <5> QED BY <4>1, <4>3, <5>2, <2>4
      <4> QED BY <4>2, <4>3
    <3> QED BY <3>1, <3>2
  <2>6. g = [k \in 0..m |-> g[k]] OBVIOUS
  <2> HIDE DEF g
  <2>7. Ends(g, row, m)
    BY <2>5, <2>6, Zenon DEF Ends
  <2> QED BY <2>7, <1>3
<1> QED BY <1>4, <1>5

\* Encoded is the last of these.
LEMMA EncodedIs ==
  ASSUME NEW row, Len(row) \in Nat
  PROVE  \E f : Ends(f, row, Len(row)) /\ Encoded(row) = f[Len(row)]
<1>1. PICK f0 : Ends(f0, row, Len(row)) BY EndsExist
<1> DEFINE f == CHOOSE g : Ends(g, row, Len(row))
<1>2. Ends(f, row, Len(row)) BY <1>1
<1>3. Encoded(row) = f[Len(row)]
  BY Zenon DEF Encoded, Ends
<1> QED BY <1>2, <1>3

\* What stands on the wire for the last columns are bytes, with the first of them in front.
LEMMA EndsFacts ==
  ASSUME NEW w \in Nat, NEW row \in Row(w), NEW f, Ends(f, row, w)
  PROVE  /\ Len(row) = w /\ f[0] = <<>>
         /\ \A k \in 0..w : f[k] \in Seq(Int)
         /\ \A k \in 1..w : f[k] = Cell(row[w + 1 - k]) \o f[k - 1] /\ row[w + 1 - k] \in Values
<1>1. Len(row) = w BY DEF Row
<1>2. \A k \in 0..w : f[k] = IF k = 0 THEN <<>> ELSE Cell(row[w + 1 - k]) \o f[k - 1]
  BY <1>1, Zenon DEF Ends
<1>3. f[0] = <<>> BY <1>2
<1>4. ASSUME NEW k \in 1..w
      PROVE  f[k] = Cell(row[w + 1 - k]) \o f[k - 1] /\ row[w + 1 - k] \in Values
  <2>1. k \in 0..w /\ k # 0 /\ w + 1 - k \in 1..w OBVIOUS
  <2> QED BY <1>2, <2>1 DEF Row
<1>5. \A k \in 0..w : f[k] \in Seq(Int)
  <2> DEFINE T == {k \in 0..w : f[k] \notin Seq(Int)}
  <2>1. SUFFICES ASSUME T # {} PROVE FALSE OBVIOUS
  <2>2. PICK k \in T : \A y \in T : k <= y
    <3>1. T \subseteq Nat OBVIOUS
    <3> QED BY <2>1, <3>1, LeastElement
  <2>3. k \in 0..w /\ f[k] \notin Seq(Int) OBVIOUS
  <2>4. k # 0
    <3>1. <<>> \in Seq(Int) OBVIOUS
    <3> QED BY <3>1, <2>3, <1>3
  <2>5. k - 1 \in 0..w /\ ~ (k <= k - 1) /\ k \in 1..w BY <2>3, <2>4
  <2>6. f[k - 1] \in Seq(Int)
    <3>1. k - 1 \notin T BY <2>2, <2>5
    <3> QED BY <3>1, <2>5
  <2>7. Cell(row[w + 1 - k]) \in Seq(Int)
    <3>1. PICK v \in Values : v = row[w + 1 - k] BY <1>4, <2>5
    <3>2. Cell(v) \in Seq(Int) BY CellFacts
    <3> QED BY <3>1, <3>2
  <2>8. Cell(row[w + 1 - k]) \o f[k - 1] \in Seq(Int) BY <2>6, <2>7, ConcatProperties
  <2> QED BY <2>3, <2>5, <2>8, <1>4
<1> QED BY <1>1, <1>3, <1>4, <1>5

\* The first byte of a row's packet, by which the client tells it from the end of the rows.
LEMMA FirstByte ==
  ASSUME NEW w \in Nat \ {0}, NEW row \in Row(w)
  PROVE  Head(Encoded(row)) = IF row[1] = Null THEN 251 ELSE Len(row[1])
<1>1. Len(row) = w BY DEF Row
<1>2. PICK f : Ends(f, row, w) /\ Encoded(row) = f[w] BY <1>1, EncodedIs
<1>3. w \in 1..w /\ w - 1 \in 0..w /\ w + 1 - w = 1 OBVIOUS
<1>4. PICK c : c = Cell(row[1]) OBVIOUS
<1>5. PICK rest : rest = f[w - 1] OBVIOUS
<1>6. Encoded(row) = c \o rest /\ rest \in Seq(Int) /\ row[1] \in Values
  <2>1. \A k \in 0..w : f[k] \in Seq(Int) BY <1>2, EndsFacts
  <2>2. \A k \in 1..w : f[k] = Cell(row[w + 1 - k]) \o f[k - 1] /\ row[w + 1 - k] \in Values
    BY <1>2, EndsFacts
  <2>3. f[w] = Cell(row[w + 1 - w]) \o f[w - 1] /\ row[w + 1 - w] \in Values BY <1>3, <2>2
  <2> QED BY <1>2, <1>3, <1>4, <1>5, <2>1, <2>3
<1>7. c \in Seq(Int) /\ Len(c) >= 1 BY <1>4, <1>6, CellFacts
<1>8. PICK m \in Nat : m = Len(c) BY <1>7, LenProperties
<1>9. PICK n \in Nat : n = Len(rest) BY <1>6, LenProperties
<1>10. m >= 1 BY <1>7, <1>8
<1>11. PICK s : s = c \o rest OBVIOUS
<1>12. s \in Seq(Int) /\ Len(s) = m + n /\ \A i \in 1..(m + n) : s[i] = IF i <= m THEN c[i] ELSE rest[i - m]
  BY <1>6, <1>7, <1>8, <1>9, <1>11, ConcatProperties
<1>13. s[1] = c[1] BY <1>10, <1>12
<1>14. Head(s) = s[1] BY <1>12
<1>15. c[1] = IF row[1] = Null THEN 251 ELSE Len(row[1])
  BY <1>4, <1>6, CellFacts
<1> QED BY <1>6, <1>11, <1>13, <1>14, <1>15

\* What the client has taken after k columns of a row.
TakenAll(f, bytes, n) ==
  f = [k \in 0..n |-> IF k = 0 THEN [columns |-> <<>>, rest |-> bytes] ELSE NextColumn(f[k - 1])]

\* A row whose columns are neither NULL nor empty.
PlainRow(row) == \A c \in DOMAIN row : row[c] \notin {Null, <<>>}

\* From the packet of a plain row the client takes its columns, one after another.
LEMMA TakesNext ==
  ASSUME NEW w \in Nat, NEW row \in Row(w), PlainRow(row), NEW f, Ends(f, row, w), NEW k \in 1..w
  PROVE  NextColumn([columns |-> SubSeq(row, 1, k - 1), rest |-> f[w - (k - 1)]])
         = [columns |-> SubSeq(row, 1, k), rest |-> f[w - k]]
<1>1. w - (k - 1) \in 1..w /\ w + 1 - (w - (k - 1)) = k /\ (w - (k - 1)) - 1 = w - k /\ w - k \in 0..w
  OBVIOUS
<1>2. \A i \in 0..w : f[i] \in Seq(Int) BY EndsFacts
<1>3. \A i \in 1..w : f[i] = Cell(row[w + 1 - i]) \o f[i - 1] BY EndsFacts
<1>4. PICK v : v = row[k] OBVIOUS
<1>5. PICK rest \in Seq(Int) : rest = f[w - k] BY <1>1, <1>2
<1>6. f[w - (k - 1)] = Cell(v) \o rest BY <1>1, <1>3, <1>4, <1>5
<1>7. v \in Texts /\ v # <<>>
  <2>1. v \in Values /\ k \in DOMAIN row BY <1>4 DEF Row
  <2>2. v # Null /\ v # <<>> BY <1>4, <2>1 DEF PlainRow
  <2> QED BY <2>1, <2>2 DEF Values
<1>8. PICK c : c = SubSeq(row, 1, k - 1) OBVIOUS
<1>9. NextColumn([columns |-> c, rest |-> Cell(v) \o rest]) = [columns |-> Append(c, v), rest |-> rest]
  BY <1>7, CutsOff
<1>10. Append(c, v) = SubSeq(row, 1, k)
  <2>1. row \in Seq(Values) /\ Len(row) = w BY DEF Row
  <2>2. v \in Values /\ 1 \in 1..w /\ k \in 1..w BY <1>7 DEF Values
  <2>3. SubSeq(row, 1, k) = SubSeq(row, 1, k - 1) \o <<row[k]>>
    BY <2>1, <2>2, SubSeqRecursiveSecond
  <2>4. c \in Seq(Values)
    <3>1. \A i \in 1..(k - 1) : row[i] \in Values BY <2>2 DEF Row
    <3>2. k - 1 \in Int OBVIOUS
    <3> QED BY <1>8, <3>1, <3>2, SubSeqProperties
  <2>5. Append(c, v) = c \o <<v>> BY <2>2, <2>4, AppendIsConcat
  <2> QED BY <1>4, <1>8, <2>3, <2>5
<1> QED BY <1>5, <1>6, <1>8, <1>9, <1>10

\* A plain row comes back as it was sent.
LEMMA RowComesBack ==
  ASSUME NEW w \in Nat, NEW row \in Row(w), PlainRow(row)
  PROVE  Columns(Encoded(row), w) = row
<1>1. Len(row) = w /\ row \in Seq(Values) BY DEF Row
<1>2. PICK f : Ends(f, row, w) /\ Encoded(row) = f[w] BY <1>1, EncodedIs
<1> DEFINE S(k) == [columns |-> SubSeq(row, 1, k), rest |-> f[w - k]]
<1> DEFINE g == [k \in 0..w |-> S(k)]
<1>3. S(0) = [columns |-> <<>>, rest |-> Encoded(row)]
  <2>1. SubSeq(row, 1, 0) = <<>> BY SubSeqEmpty
  <2>2. w - 0 = w OBVIOUS
  <2> QED BY <1>2, <2>1, <2>2
<1>4. \A k \in 1..w : NextColumn(S(k - 1)) = S(k)
  BY <1>2, TakesNext
<1> HIDE DEF S
<1>5. TakenAll(g, Encoded(row), w)
  <2>1. ASSUME NEW k \in 0..w
        PROVE  S(k) = IF k = 0 THEN [columns |-> <<>>, rest |-> Encoded(row)] ELSE NextColumn(g[k - 1])
    <3>1. CASE k = 0 BY <3>1, <1>3
    <3>2. CASE k # 0
      <4>1. k \in 1..w /\ k - 1 \in 0..w BY <3>2
      <4>2. g[k - 1] = S(k - 1) BY <4>1
      <4> HIDE DEF g
      <4> QED BY <3>2, <4>1, <4>2, <1>4
    <3> QED BY <3>1, <3>2
  <2> DEFINE e(k) == IF k = 0 THEN [columns |-> <<>>, rest |-> Encoded(row)] ELSE NextColumn(g[k - 1])
  <2>2. g = [k \in 0..w |-> e(k)]
    BY <2>1
  <2> HIDE DEF g
  <2> QED BY <2>2, Zenon DEF TakenAll
<1> DEFINE h == CHOOSE x : TakenAll(x, Encoded(row), w)
<1>6. TakenAll(h, Encoded(row), w) BY <1>5
<1>7. Columns(Encoded(row), w) = h[w].columns
  BY Zenon DEF Columns, TakenAll
<1> HIDE DEF h
<1>8. \A k \in 0..w : h[k] = IF k = 0 THEN [columns |-> <<>>, rest |-> Encoded(row)] ELSE NextColumn(h[k - 1])
  BY <1>6, Zenon DEF TakenAll
<1>9. \A k \in 0..w : h[k] = S(k)
  <2> DEFINE T == {k \in 0..w : h[k] # S(k)}
  <2>1. SUFFICES ASSUME T # {} PROVE FALSE OBVIOUS
  <2>2. PICK k \in T : \A y \in T : k <= y
    <3>1. T \subseteq Nat OBVIOUS
    <3> QED BY <2>1, <3>1, LeastElement
  <2>3. k \in 0..w /\ h[k] # S(k) OBVIOUS
  <2>4. k # 0 BY <1>3, <1>8, <2>3
  <2>5. k - 1 \in 0..w /\ ~ (k <= k - 1) /\ k \in 1..w BY <2>3, <2>4
  <2>6. h[k - 1] = S(k - 1)
    <3>1. k - 1 \notin T BY <2>2, <2>5
    <3> QED BY <3>1, <2>5
  <2> QED BY <1>4, <1>8, <2>3, <2>4, <2>5, <2>6
<1>10. h[w].columns = SubSeq(row, 1, w)
  <2>1. w \in 0..w OBVIOUS
  <2>2. h[w] = S(w) BY <1>9, <2>1
  <2>3. S(w).columns = SubSeq(row, 1, w) BY DEF S
  <2> QED BY <2>2, <2>3
<1>11. SubSeq(row, 1, w) = row BY <1>1, SubSeqFull
<1> QED BY <1>7, <1>10, <1>11

(***************************************************************************)
(* Answers of the server.                                                  *)
(***************************************************************************)
\* The rows of an answer have the width its first packet says, which is no code of a packet
\* of another kind.
LEMMA RowsFacts ==
  ASSUME NEW rows \in Rows
  PROVE  /\ Len(rows) \in Nat /\ DOMAIN rows = 1..Len(rows) /\ Width(rows) \in 1..250
         /\ \A i \in 1..Len(rows) : rows[i] \in Row(Width(rows))
<1>0. PICK w \in 1..MaxColumns : \E n \in 0..(MaxCells \div w) : rows \in [1..n -> [1..w -> Values]]
  BY DEF Rows
<1>1. PICK n \in 0..(MaxCells \div w) : rows \in [1..n -> [1..w -> Values]]
  BY <1>0
<1>2. w \in 1..250 BY MysqlAssumption
<1>3. n \in Nat OBVIOUS
<1>4. Len(rows) = n /\ DOMAIN rows = 1..n BY <1>1, <1>3
<1>5. CASE n = 0
  <2>1. rows = <<>> BY <1>1, <1>5
  <2>2. Width(rows) = 1 BY <2>1 DEF Width
  <2> QED BY <1>3, <1>4, <1>5, <2>2
<1>6. CASE n # 0
  <2>1. 1 \in 1..n BY <1>3, <1>6
  <2>2. rows[1] \in [1..w -> Values] BY <1>1, <2>1
  <2>3. Len(rows[1]) = w BY <1>2, <2>2
  <2>4. rows # <<>> BY <1>4, <2>1
  <2>5. Width(rows) = w BY <2>3, <2>4 DEF Width
  <2> QED BY <1>1, <1>2, <1>3, <1>4, <2>5 DEF Row
<1> QED BY <1>5, <1>6

Packets == [query : Nat, first : Int, body : Seq(Int)]

\* The packets of an answer with rows, one by one.
IsResultSet(s, q, rows) ==
  LET w == Width(rows)
      n == Len(rows)
  IN  /\ Len(s) = w + n + 3
      /\ s[1] = Packet(q, w, <<>>)
      /\ \A i \in 1..w : s[1 + i] = Packet(q, 3, <<>>)
      /\ s[w + 2] = Packet(q, Eof, <<>>)
      /\ \A i \in 1..n : s[w + 2 + i] = Packet(q, Head(Encoded(rows[i])), Encoded(rows[i]))
      /\ s[w + n + 3] = Packet(q, Eof, <<>>)

\* Packets behind packets, position by position.
Joins(s, a, b) ==
  /\ s \in Seq(Packets) /\ Len(s) = Len(a) + Len(b)
  /\ \A i \in 1..Len(a) : s[i] = a[i]
  /\ \A i \in 1..Len(b) : s[Len(a) + i] = b[i]

\* Sequences of packets one behind the other.
LEMMA Behind ==
  ASSUME NEW a \in Seq(Packets), NEW b \in Seq(Packets)
  PROVE  Joins(a \o b, a, b)
<1>0. PICK m \in Nat, n \in Nat : m = Len(a) /\ n = Len(b) BY LenProperties
<1>1. /\ a \o b \in Seq(Packets) /\ Len(a \o b) = m + n
      /\ \A i \in 1..(m + n) : (a \o b)[i] = IF i <= m THEN a[i] ELSE b[i - m]
  BY <1>0, ConcatProperties
<1>2. ASSUME NEW i \in 1..m PROVE (a \o b)[i] = a[i]
  <2>1. i \in 1..(m + n) /\ i <= m OBVIOUS
  <2> QED BY <1>1, <2>1
<1>3. ASSUME NEW i \in 1..n PROVE (a \o b)[m + i] = b[i]
  <2>1. m + i \in 1..(m + n) /\ ~ (m + i <= m) /\ (m + i) - m = i OBVIOUS
  <2> QED BY <1>1, <2>1
<1> QED BY <1>0, <1>1, <1>2, <1>3 DEF Joins

\* What a row is on the wire.
LEMMA RowPacket ==
  ASSUME NEW w \in Nat \ {0}, NEW row \in Row(w), NEW q \in Nat
  PROVE  Packet(q, Head(Encoded(row)), Encoded(row)) \in Packets
<1>1. Len(row) = w BY DEF Row
<1>2. PICK f : Ends(f, row, w) /\ Encoded(row) = f[w] BY <1>1, EncodedIs
<1>3. Encoded(row) \in Seq(Int)
  <2>1. \A k \in 0..w : f[k] \in Seq(Int) BY <1>2, EndsFacts
  <2>2. w \in 0..w OBVIOUS
  <2> QED BY <1>2, <2>1, <2>2
<1>4. Head(Encoded(row)) \in Int
  <2>1. row[1] \in Values BY DEF Row
  <2>2. row[1] # Null => row[1] \in Texts BY <2>1 DEF Values
  <2>3. row[1] # Null => Len(row[1]) \in 0..250 BY <2>2, TextFacts
  <2>4. 0..250 \subseteq Int /\ 251 \in Int OBVIOUS
  <2>5. row[1] # Null => Len(row[1]) \in Int BY <2>3, <2>4, Zenon
  <2> QED BY <2>4, <2>5, FirstByte
<1> QED BY <1>3, <1>4 DEF Packet, Packets

\* The packets of an answer, in their order.
LEMMA ResultSetIs ==
  ASSUME NEW q \in Nat, NEW rows \in Rows
  PROVE  ResultSet(q, rows) \in Seq(Packets) /\ IsResultSet(ResultSet(q, rows), q, rows)
<1>1. PICK w \in 1..250 : w = Width(rows) BY RowsFacts
<1>2. PICK n \in Nat : n = Len(rows) BY RowsFacts
<1>3. DOMAIN rows = 1..n /\ \A i \in 1..n : rows[i] \in Row(w) BY <1>1, <1>2, RowsFacts
<1>4. w \in Nat \ {0} /\ w \in Nat OBVIOUS
<1>5. PICK head : head = <<Packet(q, w, <<>>)>> OBVIOUS
<1>6. PICK defs : defs = [i \in 1..w |-> Packet(q, 3, <<>>)] OBVIOUS
<1>7. PICK end : end = <<Packet(q, Eof, <<>>)>> OBVIOUS
<1>8. PICK body : body = [i \in 1..n |-> Packet(q, Head(Encoded(rows[i])), Encoded(rows[i]))] OBVIOUS
<1>9. ResultSet(q, rows) = (((head \o defs) \o end) \o body) \o end
  BY <1>1, <1>3, <1>5, <1>6, <1>7, <1>8, Zenon DEF ResultSet
<1>10. <<>> \in Seq(Int) OBVIOUS
<1>11. head \in Seq(Packets) /\ Len(head) = 1 /\ head[1] = Packet(q, w, <<>>)
  <2>1. Packet(q, w, <<>>) \in Packets BY <1>10 DEF Packet, Packets
  <2> QED BY <1>5, <2>1
<1>12. end \in Seq(Packets) /\ Len(end) = 1 /\ end[1] = Packet(q, Eof, <<>>)
  <2>1. Packet(q, Eof, <<>>) \in Packets BY <1>10 DEF Packet, Packets, Eof
  <2> QED BY <1>7, <2>1
<1>13. defs \in Seq(Packets) /\ Len(defs) = w /\ \A i \in 1..w : defs[i] = Packet(q, 3, <<>>)
  <2>1. Packet(q, 3, <<>>) \in Packets BY <1>10 DEF Packet, Packets
  <2> QED BY <1>4, <1>6, <2>1
<1>14. /\ body \in Seq(Packets) /\ Len(body) = n
       /\ \A i \in 1..n : body[i] = Packet(q, Head(Encoded(rows[i])), Encoded(rows[i]))
  <2>1. \A i \in 1..n : Packet(q, Head(Encoded(rows[i])), Encoded(rows[i])) \in Packets
    BY <1>3, <1>4, RowPacket
  <2>2. body \in [1..n -> Packets] BY <1>8, <2>1
  <2> QED BY <1>8, <2>2
<1>30. PICK k1 \in Nat, k2 \in Nat, k3 \in Nat, one \in Nat :
         one = 1 /\ k1 = 1 + w /\ k2 = 1 + w + 1 /\ k3 = 1 + w + 1 + n
  <2>1. 1 + w \in Nat /\ 1 + w + 1 \in Nat /\ 1 + w + 1 + n \in Nat OBVIOUS
  <2> QED BY <2>1
<1>31. one = Len(head) /\ one = Len(end) /\ w = Len(defs) /\ n = Len(body)
  BY <1>11, <1>12, <1>13, <1>14, <1>30
<1>15. PICK b : b = head \o defs OBVIOUS
<1>16. /\ b \in Seq(Packets) /\ Len(b) = k1
       /\ \A i \in 1..one : b[i] = head[i]
       /\ \A i \in 1..w : b[one + i] = defs[i]
  <2>1. Joins(b, head, defs) BY <1>11, <1>13, <1>15, Behind, Zenon
  <2> QED BY <1>30, <1>31, <2>1 DEF Joins
<1>17. PICK c : c = b \o end OBVIOUS
<1>18. /\ c \in Seq(Packets) /\ Len(c) = k2
       /\ \A i \in 1..k1 : c[i] = b[i]
       /\ \A i \in 1..one : c[k1 + i] = end[i]
  <2>1. Joins(c, b, end) BY <1>16, <1>12, <1>17, Behind, Zenon
  <2> QED BY <1>16, <1>30, <1>31, <2>1 DEF Joins
<1>19. PICK d : d = c \o body OBVIOUS
<1>20. /\ d \in Seq(Packets) /\ Len(d) = k3
       /\ \A i \in 1..k2 : d[i] = c[i]
       /\ \A i \in 1..n : d[k2 + i] = body[i]
  <2>1. Joins(d, c, body) BY <1>18, <1>14, <1>19, Behind, Zenon
  <2> QED BY <1>18, <1>30, <1>31, <2>1 DEF Joins
<1>21. PICK s : s = d \o end OBVIOUS
<1>22. /\ s \in Seq(Packets) /\ Len(s) = k3 + 1
       /\ \A i \in 1..k3 : s[i] = d[i]
       /\ \A i \in 1..one : s[k3 + i] = end[i]
  <2>1. Joins(s, d, end) BY <1>20, <1>12, <1>21, Behind, Zenon
  <2> QED BY <1>20, <1>30, <1>31, <2>1 DEF Joins
<1>23. Len(s) = w + n + 3 BY <1>22, <1>30
<1>24. s[1] = Packet(q, w, <<>>)
  <2>1. 1 \in 1..k1 /\ 1 \in 1..k2 /\ 1 \in 1..k3 /\ 1 \in 1..one BY <1>30
  <2>2. s[1] = d[1] /\ d[1] = c[1] /\ c[1] = b[1] /\ b[1] = head[1] BY <1>16, <1>18, <1>20, <1>22, <2>1
  <2> QED BY <2>2, <1>11
<1>25. ASSUME NEW i \in 1..w PROVE s[1 + i] = Packet(q, 3, <<>>)
  <2>1. 1 + i \in 1..k1 /\ 1 + i \in 1..k2 /\ 1 + i \in 1..k3 BY <1>30
  <2>2. s[1 + i] = d[1 + i] /\ d[1 + i] = c[1 + i] /\ c[1 + i] = b[1 + i]
    BY <1>18, <1>20, <1>22, <2>1
  <2>3. b[1 + i] = defs[i] BY <1>16, <1>30
  <2> QED BY <2>2, <2>3, <1>13
<1>26. s[w + 2] = Packet(q, Eof, <<>>)
  <2>1. w + 2 \in 1..k3 /\ w + 2 \in 1..k2 /\ w + 2 = k1 + 1 /\ 1 \in 1..one BY <1>30
  <2>2. s[w + 2] = d[w + 2] /\ d[w + 2] = c[w + 2] BY <1>20, <1>22, <2>1
  <2>3. c[w + 2] = end[1] BY <1>18, <2>1
  <2> QED BY <2>2, <2>3, <1>12
<1>27. ASSUME NEW i \in 1..n PROVE s[w + 2 + i] = Packet(q, Head(Encoded(rows[i])), Encoded(rows[i]))
  <2>1. w + 2 + i \in 1..k3 /\ w + 2 + i = k2 + i BY <1>30
  <2>2. s[w + 2 + i] = d[w + 2 + i] BY <1>22, <2>1
  <2>3. d[w + 2 + i] = body[i] BY <1>20, <2>1
  <2> QED BY <2>2, <2>3, <1>14
<1>28. s[w + n + 3] = Packet(q, Eof, <<>>)
  <2>1. w + n + 3 = k3 + 1 /\ 1 \in 1..one BY <1>30
  <2>2. s[w + n + 3] = end[1] BY <1>22, <2>1
  <2> QED BY <2>2, <1>12
<1>29. s = ResultSet(q, rows) BY <1>9, <1>15, <1>17, <1>19, <1>21
<1> QED BY <1>1, <1>2, <1>22, <1>23, <1>24, <1>25, <1>26, <1>27, <1>28, <1>29, Zenon DEF IsResultSet

(***************************************************************************)
(* The inductive invariant.  What the client has not read is the rest of   *)
(* the answer to its last query, or the beginning of that when the server  *)
(* has gone.                                                               *)
(***************************************************************************)
\* b is what is left of conv behind its first p packets.
Remains(conv, p, b, gone) ==
  \E m \in p..Len(conv) : b = SubSeq(conv, p + 1, m) /\ (gone \/ m = Len(conv))

Kinds == {"false", "count", "rows"}
IsResult(r) ==
  r \in [query : Nat, kind : Kinds, rows : {r.rows}, from : SUBSET Nat, left : Int, width : Int]

PlainRows(rows) == \A i \in DOMAIN rows : PlainRow(rows[i])
Unskewed(rows) == \A i \in DOMAIN rows : Head(rows[i]) # <<>>
Lasts(rows, k) == [i \in 1..k |-> <<Last(rows[i])>>]

\* The answer to query q is over.
Settled(gone, r, q, rows) ==
  r.kind # "false" =>
    /\ r.from = {q}
    /\ r.kind = "rows" /\ ~ gone /\ PlainRows(rows) => r.rows = Lasts(rows, Len(rows))

\* The client reads the first packet of the answer, or the packets of a set of rows.
AtFirst(b, gone, r, q, rows) ==
  /\ r.from = {} /\ r.rows = <<>>
  /\ \E conv \in Seq(Packets) :
       /\ Remains(conv, 0, b, gone)
       /\ IsResultSet(conv, q, rows) \/ \E code \in {Ok, Err} : conv = <<Packet(q, code, <<>>)>>
InDefs(conv, b, gone, r, rows) ==
  /\ r.left \in 1..Width(rows) /\ r.rows = <<>>
  /\ Remains(conv, 1 + Width(rows) - r.left, b, gone)
BeforeRows(conv, b, gone, r, rows) == r.rows = <<>> /\ Remains(conv, Width(rows) + 1, b, gone)
InRows(conv, b, gone, r, rows) ==
  \E k \in 0..Len(rows) :
    /\ Remains(conv, Width(rows) + 2 + k, b, gone)
    /\ PlainRows(rows) => r.rows = Lasts(rows, k)
AtRows(st, b, gone, r, q, rows) ==
  /\ r.from = {q} /\ r.width = Width(rows)
  /\ \E conv \in Seq(Packets) :
       /\ IsResultSet(conv, q, rows)
       /\ \/ st = "defs" /\ InDefs(conv, b, gone, r, rows)
          \/ st = "eof"  /\ BeforeRows(conv, b, gone, r, rows)
          \/ st = "rows" /\ InRows(conv, b, gone, r, rows)

Opening == {"none", "greeting", "login"}
Reading == {"first", "defs", "eof", "rows"}
InOrder(st, b, gone, r, q, rows) ==
  /\ st \in Opening \cup Reading \cup {"ready", "closed"}
  /\ b \in Seq(Packets) /\ gone \in BOOLEAN /\ IsResult(r) /\ q \in Nat /\ r.query = q
  /\ st \in Opening \cup Reading => r.kind = "false"
  /\ st \in {"greeting", "login"} => Len(b) \in {0, 1}
  /\ st = "ready" => b = <<>> /\ Settled(gone, r, q, rows)
  /\ st \in Reading => rows \in Rows /\ Unskewed(rows)
  /\ st = "first" => AtFirst(b, gone, r, q, rows)
  /\ st \in Reading \ {"first"} => AtRows(st, b, gone, r, q, rows)

SentOK == asked \in Nat /\ sent \in Seq(Rows) /\ Len(sent) = asked

MysqlInv == SentOK /\ (Skewed \/ InOrder(stage, inbox, lost, result, asked, sent[asked]))

(***************************************************************************)
(* What is left of an answer.                                              *)
(***************************************************************************)
\* Reading the next packet.
LEMMA ReadsNext ==
  ASSUME NEW conv \in Seq(Packets), NEW p \in Nat, NEW b, NEW gone, Remains(conv, p, b, gone), b # <<>>
  PROVE  /\ p + 1 \in 1..Len(conv) /\ Head(b) = conv[p + 1]
         /\ Tail(b) \in Seq(Packets) /\ Remains(conv, p + 1, Tail(b), gone)
<1>1. PICK n \in Nat : n = Len(conv) BY LenProperties
<1>2. PICK m \in p..n : b = SubSeq(conv, p + 1, m) /\ (gone \/ m = n)
  BY <1>1 DEF Remains
<1>3. m \in (p + 1)..n
  <2>1. m # p
    <3>1. SUFFICES ASSUME m = p PROVE FALSE OBVIOUS
    <3>2. p + 1 \in Int /\ m \in Int /\ m < p + 1 BY <3>1
    <3>3. SubSeq(conv, p + 1, m) = <<>> BY <3>2, SubSeqEmpty
    <3> QED BY <3>3, <1>2
  <2> QED BY <2>1, <1>1
<1>4. p + 1 \in 1..Len(conv) /\ m \in (p + 1)..Len(conv) BY <1>1, <1>3
<1>5. Head(b) = conv[p + 1] /\ Tail(b) = SubSeq(conv, (p + 1) + 1, m)
  BY <1>2, <1>4, HeadTailOfSubSeq
<1>6. Remains(conv, p + 1, Tail(b), gone)
  BY <1>1, <1>2, <1>4, <1>5 DEF Remains
<1>7. Tail(b) \in Seq(Packets)
  <2>1. \A i \in ((p + 1) + 1)..m : conv[i] \in Packets
    <3> SUFFICES ASSUME NEW i \in ((p + 1) + 1)..m PROVE conv[i] \in Packets
      OBVIOUS
    <3>1. i \in 1..n BY <1>1, <1>3
    <3> QED BY <3>1, <1>1, LenProperties
  <2>2. (p + 1) + 1 \in Int /\ m \in Int BY <1>1
  <2> QED BY <1>5, <2>1, <2>2, SubSeqProperties
<1> QED BY <1>4, <1>5, <1>6, <1>7

\* The server goes, and what it has not sent is lost.
LEMMA CutShort ==
  ASSUME NEW conv \in Seq(Packets), NEW p \in Nat, NEW b \in Seq(Packets), NEW gone,
         Remains(conv, p, b, gone), NEW n \in 0..Len(b)
  PROVE  Remains(conv, p, SubSeq(b, 1, n), TRUE)
<1>1. PICK l \in Nat : l = Len(conv) BY LenProperties
<1>2. PICK m \in p..l : b = SubSeq(conv, p + 1, m)
  BY <1>1 DEF Remains
<1>3. PICK k \in Nat : k = Len(b) BY LenProperties
<1>4. n \in 0..k BY <1>3
<1>5. k = m - p
  <2>1. \A i \in (p + 1)..m : conv[i] \in Packets
    <3> SUFFICES ASSUME NEW i \in (p + 1)..m PROVE conv[i] \in Packets
      OBVIOUS
    <3>1. i \in 1..l BY <1>1
    <3> QED BY <3>1, <1>1, LenProperties
  <2>2. p + 1 \in Int /\ m \in Int BY <1>1
  <2>3. Len(b) = IF p + 1 <= m THEN m - (p + 1) + 1 ELSE 0
    BY <1>2, <2>1, <2>2, SubSeqProperties
  <2> QED BY <1>1, <1>3, <2>2, <2>3
<1>6. p \in p..l /\ p + n \in p..l BY <1>1, <1>4, <1>5
<1>7. CASE n = 0
  <2>1. SubSeq(b, 1, n) = <<>> BY <1>7, SubSeqEmpty
  <2>2. SubSeq(conv, p + 1, p) = <<>>
    <3>1. p + 1 \in Int /\ p \in Int /\ p < p + 1 OBVIOUS
    <3> QED BY <3>1, SubSeqEmpty
  <2> QED BY <2>1, <2>2, <1>1, <1>6 DEF Remains
<1>8. CASE n # 0
  <2>1. p + 1 \in 1..Len(conv) /\ m \in 1..Len(conv) /\ 1 \in 1..(m - (p + 1) + 1) /\ n \in 1..(m - (p + 1) + 1)
    BY <1>1, <1>4, <1>5, <1>8
  <2>2. SubSeq(SubSeq(conv, p + 1, m), 1, n) = SubSeq(conv, (p + 1) + 1 - 1, (p + 1) + n - 1)
    BY <2>1, SubSeqOfSubSeq
  <2>3. (p + 1) + 1 - 1 = p + 1 /\ (p + 1) + n - 1 = p + n BY <1>4
  <2>4. SubSeq(b, 1, n) = SubSeq(conv, p + 1, p + n) BY <1>2, <2>2, <2>3
  <2> QED BY <2>4, <1>1, <1>6 DEF Remains
<1> QED BY <1>7, <1>8

\* Nothing is left behind the last packet, everything before the first.
LEMMA NothingLeft ==
  ASSUME NEW conv \in Seq(Packets), NEW b, NEW gone, Remains(conv, Len(conv), b, gone)
  PROVE  b = <<>>
<1>1. PICK n \in Nat : n = Len(conv) BY LenProperties
<1>2. PICK m \in n..n : b = SubSeq(conv, n + 1, m) BY <1>1 DEF Remains
<1>3. n + 1 \in Int /\ m \in Int /\ m < n + 1 OBVIOUS
<1> QED BY <1>2, <1>3, SubSeqEmpty

\* An answer that was just sent is left whole.
LEMMA AllLeft ==
  ASSUME NEW conv \in Seq(Packets), NEW gone
  PROVE  Remains(conv, 0, conv, gone)
<1>1. PICK n \in Nat : n = Len(conv) BY LenProperties
<1>2. n \in 0..n /\ 0 + 1 = 1 OBVIOUS
<1>3. SubSeq(conv, 1, n) = conv BY <1>1, SubSeqFull
<1> QED BY <1>1, <1>2, <1>3 DEF Remains

(***************************************************************************)
(* The record of a query.                                                  *)
(***************************************************************************)
\* s is r but for the fields named.
SameResult(s, r, fields) ==
  /\ IsResult(s) /\ s.query = r.query
  /\ "kind" \notin fields => s.kind = r.kind
  /\ "rows" \notin fields => s.rows = r.rows
  /\ "from" \notin fields => s.from = r.from
  /\ "left" \notin fields => s.left = r.left
  /\ "width" \notin fields => s.width = r.width

\* A packet is noted, and nothing else changes.
LEMMA TookFacts ==
  ASSUME NEW r, IsResult(r), Packet1 \in Packets
  PROVE  SameResult(Took(r), r, {"from"}) /\ Took(r).from = r.from \cup {Packet1.query}
<1>1. Packet1.query \in Nat BY DEF Packets
<1>2. PICK f : f = r.from \cup {Packet1.query} OBVIOUS
<1>3. f \in SUBSET Nat BY <1>1, <1>2 DEF IsResult
<1>4. PICK s : s = [r EXCEPT !.from = f] OBVIOUS
<1>5. Took(r) = s BY <1>2, <1>4 DEF Took
<1>6. SameResult(s, r, {"from"}) /\ s.from = f
  BY <1>3, <1>4 DEF IsResult, SameResult
<1> QED BY <1>2, <1>5, <1>6

\* The kind of the answer is set.
LEMMA KindFacts ==
  ASSUME NEW r, IsResult(r), NEW k \in Kinds
  PROVE  SameResult([r EXCEPT !.kind = k], r, {"kind"}) /\ [r EXCEPT !.kind = k].kind = k
BY DEF IsResult, SameResult

\* The columns still to come are counted.
LEMMA LeftFacts ==
  ASSUME NEW r, IsResult(r), NEW x \in Int
  PROVE  SameResult([r EXCEPT !.left = x], r, {"left"}) /\ [r EXCEPT !.left = x].left = x
BY DEF IsResult, SameResult

\* The number of columns is set.
LEMMA CountFacts ==
  ASSUME NEW r, IsResult(r), NEW x \in Int, NEW s, s = [r EXCEPT !.left = x, !.width = x]
  PROVE  SameResult(s, r, {"left", "width"}) /\ s.left = x /\ s.width = x
BY DEF IsResult, SameResult

\* A row is added.
LEMMA RowFacts ==
  ASSUME NEW r, IsResult(r)
  PROVE  /\ SameResult(Row1(r), r, {"rows"})
         /\ Row1(r).rows = Append(r.rows, RowMap(Columns(Packet1.body, r.width)))
<1>1. PICK x : x = Append(r.rows, RowMap(Columns(Packet1.body, r.width))) OBVIOUS
<1>2. PICK s : s = [r EXCEPT !.rows = x] OBVIOUS
<1>3. Row1(r) = s BY <1>1, <1>2 DEF Row1
<1>4. SameResult(s, r, {"rows"}) /\ s.rows = x
  BY <1>2 DEF IsResult, SameResult
<1> QED BY <1>1, <1>3, <1>4

\* The record of a query that has not been answered.
LEMMA FreshFacts ==
  ASSUME NEW q \in Nat
  PROVE  IsResult(Fresh(q)) /\ Fresh(q).query = q /\ Fresh(q).kind = "false" /\ Fresh(q).rows = <<>>
         /\ Fresh(q).from = {}
BY DEF IsResult, Fresh, Kinds

(***************************************************************************)
(* The steps of the client while it reads an answer.                       *)
(***************************************************************************)
Now == InOrder(stage, inbox, lost, result, asked, sent[asked])
Then == InOrder(stage', inbox', lost', result', asked', sent'[asked'])

\* A packet.
LEMMA PacketFacts ==
  ASSUME NEW q, NEW first, NEW body
  PROVE  Packet(q, first, body).query = q /\ Packet(q, first, body).first = first
         /\ Packet(q, first, body).body = body
BY DEF Packet

\* Whatever a client reads is a packet.
LEMMA SomePacket ==
  ASSUME NEW b \in Seq(Packets), b # <<>>
  PROVE  Head(b) \in Packets /\ Tail(b) \in Seq(Packets)
BY HeadTailProperties

\* What holds while an answer is read.
LEMMA Underway ==
  ASSUME Now, stage \in Reading
  PROVE  /\ IsResult(result) /\ result.query = asked /\ result.kind = "false"
         /\ asked \in Nat /\ lost \in BOOLEAN /\ inbox \in Seq(Packets)
         /\ sent[asked] \in Rows /\ Unskewed(sent[asked])
BY DEF Now, InOrder, Reading

\* The next packet of an answer is read.
LEMMA ReadsOne ==
  ASSUME Now, stage \in Reading, inbox # <<>>, inbox' = Tail(inbox),
         NEW conv \in Seq(Packets), NEW p \in Nat, Remains(conv, p, inbox, lost)
  PROVE  /\ p + 1 \in 1..Len(conv) /\ Packet1 = conv[p + 1] /\ Packet1 \in Packets
         /\ inbox' \in Seq(Packets) /\ Remains(conv, p + 1, inbox', lost)
<1>1. /\ p + 1 \in 1..Len(conv) /\ Head(inbox) = conv[p + 1]
      /\ Tail(inbox) \in Seq(Packets) /\ Remains(conv, p + 1, Tail(inbox), lost)
  BY ReadsNext
<1>2. Head(inbox) \in Packets
  <2>1. inbox \in Seq(Packets) BY Underway
  <2> QED BY <2>1, SomePacket
<1> QED BY <1>1, <1>2 DEF Packet1

\* What is to be shown when the answer goes on.
LEMMA GoesOn ==
  ASSUME Now, stage \in Reading, UNCHANGED <<lost, asked, sent>>, inbox' \in Seq(Packets),
         stage' \in Reading \ {"first"}, IsResult(result'), result'.query = asked, result'.kind = "false",
         AtRows(stage', inbox', lost, result', asked, sent[asked])
  PROVE  Then
<1>1. /\ asked \in Nat /\ lost \in BOOLEAN /\ sent[asked] \in Rows /\ Unskewed(sent[asked])
  BY Underway
<1>2. stage' \notin {"greeting", "login", "ready", "first"} /\ stage' \in Reading BY DEF Reading
<1> QED BY <1>1, <1>2 DEF Then, InOrder

\* What is to be shown when the answer is over.
LEMMA IsOver ==
  ASSUME UNCHANGED <<asked, sent>>, asked \in Nat, lost' \in BOOLEAN,
         stage' = "ready", inbox' = <<>>, IsResult(result'), result'.query = asked,
         Settled(lost', result', asked, sent[asked])
  PROVE  Then
<1>1. stage' \notin Opening \cup Reading /\ stage' \notin {"greeting", "login"} BY DEF Opening, Reading
<1>2. inbox' \in Seq(Packets) OBVIOUS
<1>3. stage' \in Opening \cup Reading \cup {"ready", "closed"} OBVIOUS
<1>4. stage' \notin Reading /\ stage' # "first" /\ stage' \notin Reading \ {"first"} BY DEF Reading
<1> QED BY <1>1, <1>2, <1>3, <1>4 DEF Then, InOrder

\* The first packet of an answer with rows.
LEMMA FirstOfRows ==
  ASSUME Now, stage = "first", First, NEW conv \in Seq(Packets), Remains(conv, 0, inbox, lost),
         IsResultSet(conv, asked, sent[asked])
  PROVE  Then
<1>1. stage \in Reading BY DEF Reading
<1>2. inbox # <<>> /\ inbox' = Tail(inbox) /\ UNCHANGED <<lost, asked, sent>>
  BY DEF First, Reads
<1>3. PICK rows \in Rows : rows = sent[asked] BY <1>1, Underway
<1>4. PICK w \in 1..250 : w = Width(rows) BY RowsFacts
<1>5. Packet1 = conv[0 + 1] /\ Packet1 \in Packets /\ inbox' \in Seq(Packets) /\ Remains(conv, 0 + 1, inbox', lost)
  <2>1. 0 \in Nat OBVIOUS
  <2> QED BY <1>1, <1>2, <2>1, ReadsOne
<1>6. Packet1.query = asked /\ Packet1.first = w
  <2>1. conv[1] = Packet(asked, w, <<>>) BY <1>3, <1>4 DEF IsResultSet
  <2> QED BY <1>5, <2>1, PacketFacts
<1>7. IsResult(result) /\ result.query = asked /\ result.kind = "false" BY <1>1, Underway
<1>8. result.from = {} /\ result.rows = <<>> BY DEF Now, InOrder, AtFirst
<1>9. PICK r : r = Took(result) OBVIOUS
<1>10. SameResult(r, result, {"from"}) /\ r.from = {asked}
  BY <1>5, <1>6, <1>7, <1>8, <1>9, TookFacts
<1>11. result' = [r EXCEPT !.left = w, !.width = w] /\ stage' = "defs"
  <2>1. w # Err /\ w \notin {Ok, Eof} /\ w # 0 /\ w < 251 BY DEF Err, Ok, Eof
  <2>2. Counted = w BY <1>6, <2>1 DEF Counted
  <2>3. /\ result' = [Took(result) EXCEPT !.left = Counted, !.width = Counted]
        /\ stage' = IF Counted = 0 THEN "eof" ELSE "defs"
    BY <1>6, <2>1 DEF First
  <2> QED BY <1>9, <2>1, <2>2, <2>3
<1>12. SameResult(result', r, {"left", "width"}) /\ result'.left = w /\ result'.width = w
  <2>1. IsResult(r) /\ w \in Int BY <1>10 DEF SameResult
  <2> QED BY <1>11, <2>1, CountFacts
<1>13. /\ IsResult(result') /\ result'.query = asked /\ result'.kind = "false"
       /\ result'.from = {asked} /\ result'.rows = <<>>
  BY <1>7, <1>8, <1>10, <1>12 DEF SameResult
<1>14. InDefs(conv, inbox', lost, result', rows)
  <2>1. 1 + w - w = 0 + 1 /\ w \in 1..w OBVIOUS
  <2>2. Remains(conv, 1 + w - w, inbox', lost) BY <1>5, <2>1
  <2>3. 1 + Width(rows) - result'.left = 1 + w - w BY <1>4, <1>12
  <2>4. result'.left \in 1..Width(rows) BY <1>4, <1>12, <2>1, Zenon
  <2> QED BY <1>13, <2>2, <2>3, <2>4 DEF InDefs
<1>15. AtRows(stage', inbox', lost, result', asked, rows)
  BY <1>3, <1>4, <1>11, <1>12, <1>13, <1>14 DEF AtRows
<1>16. stage' \in Reading \ {"first"} BY <1>11 DEF Reading
<1> QED BY <1>1, <1>2, <1>3, <1>5, <1>13, <1>15, <1>16, GoesOn

\* An answer without rows.
LEMMA FirstOfOther ==
  ASSUME Now, stage = "first", First, NEW conv \in Seq(Packets), Remains(conv, 0, inbox, lost),
         NEW code \in {Ok, Err}, conv = <<Packet(asked, code, <<>>)>>
  PROVE  Then
<1>1. stage \in Reading BY DEF Reading
<1>2. inbox # <<>> /\ inbox' = Tail(inbox) /\ UNCHANGED <<lost, asked, sent>>
  BY DEF First, Reads
<1>3. Packet1 = conv[0 + 1] /\ Packet1 \in Packets /\ inbox' \in Seq(Packets) /\ Remains(conv, 0 + 1, inbox', lost)
  <2>1. 0 \in Nat OBVIOUS
  <2> QED BY <1>1, <1>2, <2>1, ReadsOne
<1>4. Len(conv) = 1 /\ conv[1] = Packet(asked, code, <<>>) OBVIOUS
<1>5. inbox' = <<>>
  <2>1. Remains(conv, Len(conv), inbox', lost) BY <1>3, <1>4
  <2> QED BY <2>1, NothingLeft
<1>6. Packet1.query = asked /\ Packet1.first = code BY <1>3, <1>4, PacketFacts
<1>7. IsResult(result) /\ result.query = asked /\ result.kind = "false" /\ asked \in Nat /\ lost \in BOOLEAN
  BY <1>1, Underway
<1>8. result.from = {} BY DEF Now, InOrder, AtFirst
<1>9. PICK r : r = Took(result) OBVIOUS
<1>10. SameResult(r, result, {"from"}) /\ r.from = {asked}
  BY <1>3, <1>6, <1>7, <1>8, <1>9, TookFacts
<1>11. IsResult(r) /\ r.query = asked /\ r.kind = "false" BY <1>7, <1>10 DEF SameResult
<1>12. CASE code = Err
  <2>0. Err \notin {Ok, Eof} BY DEF Ok, Err, Eof
  <2>1. result' = r /\ stage' = "ready" BY <1>6, <1>9, <1>12, <2>0 DEF First
  <2>2. Settled(lost', result', asked, sent[asked]) BY <1>11, <2>1 DEF Settled
  <2> QED BY <1>2, <1>5, <1>7, <1>11, <2>1, <2>2, IsOver
<1>13. CASE code = Ok
  <2>1. Ok # Err BY DEF Ok, Err
  <2>2. result' = [r EXCEPT !.kind = "count"] /\ stage' = "ready"
    BY <1>6, <1>9, <1>13, <2>1 DEF First
  <2>3. SameResult(result', r, {"kind"}) /\ result'.kind = "count"
    BY <1>11, <2>2, KindFacts DEF Kinds
  <2>4. IsResult(result') /\ result'.query = asked /\ result'.from = {asked}
    BY <1>10, <1>11, <2>3 DEF SameResult
  <2>5. Settled(lost', result', asked, sent[asked]) BY <2>3, <2>4 DEF Settled
  <2> QED BY <1>2, <1>5, <1>7, <2>2, <2>4, <2>5, IsOver
<1> QED BY <1>12, <1>13

\* The columns are counted down.
LEMMA DefsKeeps ==
  ASSUME Now, Defs
  PROVE  Then
<1>1. stage = "defs" /\ stage \in Reading \ {"first"} BY DEF Reading, Defs, Reads
<1>2. inbox # <<>> /\ inbox' = Tail(inbox) /\ UNCHANGED <<lost, asked, sent>>
  BY DEF Defs, Reads
<1>3. PICK rows \in Rows : rows = sent[asked] BY <1>1, Underway
<1>4. PICK w \in 1..250 : w = Width(rows) BY RowsFacts
<1>5. AtRows(stage, inbox, lost, result, asked, rows) BY <1>1, <1>3 DEF Now, InOrder
<1>6. PICK conv \in Seq(Packets) : IsResultSet(conv, asked, rows) /\ InDefs(conv, inbox, lost, result, rows)
  BY <1>1, <1>5 DEF AtRows
<1>7. PICK l \in 1..w : l = result.left BY <1>4, <1>6 DEF InDefs
<1>8. result.rows = <<>> /\ Remains(conv, 1 + w - l, inbox, lost) BY <1>4, <1>6, <1>7 DEF InDefs
<1>9. 1 + w - l \in Nat /\ 1 + (1 + w - l) = 1 + w - (l - 1) /\ 1 + w - l \in 1..w OBVIOUS
<1>10. /\ Packet1 = conv[(1 + w - l) + 1] /\ Packet1 \in Packets /\ inbox' \in Seq(Packets)
       /\ Remains(conv, (1 + w - l) + 1, inbox', lost)
  BY <1>1, <1>2, <1>8, <1>9, ReadsOne
<1>11. Packet1.query = asked
  <2>1. conv[1 + (1 + w - l)] = Packet(asked, 3, <<>>) BY <1>4, <1>6, <1>9 DEF IsResultSet
  <2>2. 1 + (1 + w - l) = (1 + w - l) + 1 BY <1>9
  <2> QED BY <1>10, <2>1, <2>2, PacketFacts
<1>12. IsResult(result) /\ result.query = asked /\ result.kind = "false" BY <1>1, Underway
<1>13. result.from = {asked} /\ result.width = w BY <1>4, <1>5 DEF AtRows
<1>14. PICK r : r = Took(result) OBVIOUS
<1>15. SameResult(r, result, {"from"}) /\ r.from = {asked}
  BY <1>10, <1>11, <1>12, <1>13, <1>14, TookFacts
<1>16. IsResult(r) /\ r.left = l BY <1>7, <1>15 DEF SameResult
<1>17. result' = [r EXCEPT !.left = l - 1] /\ stage' = IF l = 1 THEN "eof" ELSE "defs"
  <2>1. result' = [r EXCEPT !.left = r.left - 1] BY <1>14 DEF Defs
  <2>2. stage' = IF result.left = 1 THEN "eof" ELSE "defs" BY DEF Defs
  <2> QED BY <1>7, <1>16, <2>1, <2>2
<1>18. SameResult(result', r, {"left"}) /\ result'.left = l - 1
  <2>1. l - 1 \in Int OBVIOUS
  <2> QED BY <1>16, <1>17, <2>1, LeftFacts
<1>19. /\ IsResult(result') /\ result'.query = asked /\ result'.kind = "false"
       /\ result'.from = {asked} /\ result'.rows = <<>> /\ result'.width = w
  BY <1>8, <1>12, <1>13, <1>15, <1>18 DEF SameResult
<1>20. CASE l = 1
  <2>1. (1 + w - l) + 1 = w + 1 BY <1>20
  <2>2. Remains(conv, w + 1, inbox', lost) BY <1>10, <2>1
  <2>3. BeforeRows(conv, inbox', lost, result', rows) BY <1>4, <1>19, <2>2 DEF BeforeRows
  <2>4. stage' = "eof" BY <1>17, <1>20
  <2>5. AtRows(stage', inbox', lost, result', asked, rows)
    BY <1>4, <1>6, <1>19, <2>3, <2>4 DEF AtRows
  <2>6. stage' \in Reading \ {"first"} BY <2>4 DEF Reading
  <2> QED BY <1>1, <1>2, <1>3, <1>10, <1>19, <2>5, <2>6, GoesOn
<1>21. CASE l # 1
  <2>1. (1 + w - l) + 1 = 1 + w - (l - 1) /\ l - 1 \in 1..w BY <1>21
  <2>2. Remains(conv, 1 + w - (l - 1), inbox', lost) BY <1>10, <2>1
  <2>3. InDefs(conv, inbox', lost, result', rows)
    <3>1. 1 + Width(rows) - result'.left = 1 + w - (l - 1) BY <1>4, <1>18
    <3>2. result'.left \in 1..Width(rows) BY <1>4, <1>18, <2>1, Zenon
    <3> QED BY <1>19, <2>2, <3>1, <3>2 DEF InDefs
  <2>4. stage' = "defs" BY <1>17, <1>21
  <2>5. AtRows(stage', inbox', lost, result', asked, rows)
    BY <1>4, <1>6, <1>19, <2>3, <2>4 DEF AtRows
  <2>6. stage' \in Reading \ {"first"} BY <2>4 DEF Reading
  <2> QED BY <1>1, <1>2, <1>3, <1>10, <1>19, <2>5, <2>6, GoesOn
<1> QED BY <1>20, <1>21

\* The end of the column definitions.
LEMMA AfterDefsKeeps ==
  ASSUME Now, AfterDefs
  PROVE  Then
<1>1. stage = "eof" /\ stage \in Reading \ {"first"} BY DEF Reading, AfterDefs, Reads
<1>2. inbox # <<>> /\ inbox' = Tail(inbox) /\ UNCHANGED <<lost, asked, sent>>
  BY DEF AfterDefs, Reads
<1>3. PICK rows \in Rows : rows = sent[asked] BY <1>1, Underway
<1>4. PICK w \in 1..250 : w = Width(rows) BY RowsFacts
<1>5. AtRows(stage, inbox, lost, result, asked, rows) BY <1>1, <1>3 DEF Now, InOrder
<1>6. PICK conv \in Seq(Packets) : IsResultSet(conv, asked, rows) /\ BeforeRows(conv, inbox, lost, result, rows)
  BY <1>1, <1>5 DEF AtRows
<1>7. result.rows = <<>> /\ Remains(conv, w + 1, inbox, lost) BY <1>4, <1>6 DEF BeforeRows
<1>8. w + 1 \in Nat /\ (w + 1) + 1 = w + 2 /\ w + 2 = w + 2 + 0 OBVIOUS
<1>9. /\ Packet1 = conv[(w + 1) + 1] /\ Packet1 \in Packets /\ inbox' \in Seq(Packets)
      /\ Remains(conv, (w + 1) + 1, inbox', lost)
  BY <1>1, <1>2, <1>7, <1>8, ReadsOne
<1>10. Packet1.query = asked /\ Packet1.first = Eof
  <2>1. conv[w + 2] = Packet(asked, Eof, <<>>) BY <1>4, <1>6 DEF IsResultSet
  <2> QED BY <1>8, <1>9, <2>1, PacketFacts
<1>11. IsResult(result) /\ result.query = asked /\ result.kind = "false" BY <1>1, Underway
<1>12. result.from = {asked} /\ result.width = w BY <1>4, <1>5 DEF AtRows
<1>13. result' = Took(result) /\ stage' = "rows" BY <1>10 DEF AfterDefs
<1>14. SameResult(result', result, {"from"}) /\ result'.from = {asked}
  BY <1>9, <1>10, <1>11, <1>12, <1>13, TookFacts
<1>15. /\ IsResult(result') /\ result'.query = asked /\ result'.kind = "false"
       /\ result'.rows = <<>> /\ result'.width = w
  BY <1>7, <1>11, <1>12, <1>14 DEF SameResult
<1>16. InRows(conv, inbox', lost, result', rows)
  <2>1. Remains(conv, Width(rows) + 2 + 0, inbox', lost) BY <1>4, <1>8, <1>9
  <2>2. 0 \in 0..Len(rows) BY RowsFacts
  <2>3. Lasts(rows, 0) = <<>> BY DEF Lasts
  <2> QED BY <1>15, <2>1, <2>2, <2>3 DEF InRows
<1>17. AtRows(stage', inbox', lost, result', asked, rows)
  BY <1>4, <1>6, <1>13, <1>14, <1>15, <1>16 DEF AtRows
<1>18. stage' \in Reading \ {"first"} BY <1>13 DEF Reading
<1> QED BY <1>1, <1>2, <1>3, <1>9, <1>15, <1>17, <1>18, GoesOn

\* The packet of a row does not look like the end of the rows.
LEMMA RowIsNoEnd ==
  ASSUME NEW rows \in Rows, Unskewed(rows), NEW i \in 1..Len(rows)
  PROVE  Head(Encoded(rows[i])) \notin {Ok, Eof}
<1>1. PICK w \in 1..250 : w = Width(rows) BY RowsFacts
<1>2. PICK row \in Row(w) : row = rows[i] BY <1>1, RowsFacts
<1>3. w \in Nat \ {0} OBVIOUS
<1>4. PICK v \in Values : v = row[1]
  <2>1. 1 \in 1..w OBVIOUS
  <2> QED BY <2>1 DEF Row
<1>5. v # <<>>
  <2>1. Head(row) # <<>> BY <1>2, RowsFacts DEF Unskewed
  <2>2. Head(row) = row[1]
    <3>1. row \in Seq(Values) /\ Len(row) = w BY DEF Row
    <3> QED BY <3>1
  <2> QED BY <1>4, <2>1, <2>2
<1>6. Head(Encoded(row)) = IF v = Null THEN 251 ELSE Len(v) BY <1>3, <1>4, FirstByte
<1>7. CASE v = Null BY <1>2, <1>6, <1>7 DEF Ok, Eof
<1>8. CASE v # Null
  <2>1. v \in Texts BY <1>8 DEF Values
  <2>2. Len(v) \in 0..250 /\ Len(v) # 0 BY <1>5, <2>1, TextFacts
  <2>3. \A n \in 0..250 : n # 0 => n \notin {Ok, Eof} BY DEF Ok, Eof
  <2> QED BY <1>2, <1>6, <1>8, <2>2, <2>3
<1> QED BY <1>7, <1>8

\* The rows, and their end.
LEMMA NextRowKeeps ==
  ASSUME Now, NextRow
  PROVE  Then
<1>1. stage = "rows" /\ stage \in Reading \ {"first"} BY DEF Reading, NextRow, Reads
<1>2. inbox # <<>> /\ inbox' = Tail(inbox) /\ UNCHANGED <<lost, asked, sent>>
  BY DEF NextRow, Reads
<1>3. PICK rows \in Rows : rows = sent[asked] /\ Unskewed(rows) BY <1>1, Underway
<1>4. PICK w \in 1..250 : w = Width(rows) BY RowsFacts
<1>5. PICK n \in Nat : n = Len(rows) BY RowsFacts
<1>6. DOMAIN rows = 1..n /\ \A i \in 1..n : rows[i] \in Row(w) BY <1>4, <1>5, RowsFacts
<1>7. AtRows(stage, inbox, lost, result, asked, rows) BY <1>1, <1>3 DEF Now, InOrder
<1>8. PICK conv \in Seq(Packets) : IsResultSet(conv, asked, rows) /\ InRows(conv, inbox, lost, result, rows)
  BY <1>1, <1>7 DEF AtRows
<1>9. PICK k \in 0..n : /\ Remains(conv, w + 2 + k, inbox, lost)
                        /\ PlainRows(rows) => result.rows = Lasts(rows, k)
  BY <1>4, <1>5, <1>8 DEF InRows
<1>10. w + 2 + k \in Nat OBVIOUS
<1>11. /\ Packet1 = conv[(w + 2 + k) + 1] /\ Packet1 \in Packets /\ inbox' \in Seq(Packets)
       /\ Remains(conv, (w + 2 + k) + 1, inbox', lost)
  BY <1>1, <1>2, <1>9, <1>10, ReadsOne
<1>12. IsResult(result) /\ result.query = asked /\ result.kind = "false" /\ lost \in BOOLEAN /\ asked \in Nat
  BY <1>1, Underway
<1>13. result.from = {asked} /\ result.width = w BY <1>4, <1>7 DEF AtRows
<1>14. PICK r : r = Took(result) OBVIOUS
<1>15. CASE k = n
  <2>1. (w + 2 + k) + 1 = w + n + 3 BY <1>15
  <2>2. Packet1 = Packet(asked, Eof, <<>>) BY <1>4, <1>5, <1>8, <1>11, <2>1 DEF IsResultSet
  <2>3. Packet1.query = asked /\ Packet1.first = Eof BY <2>2, PacketFacts
  <2>4. result' = [r EXCEPT !.kind = "rows"] /\ stage' = "ready" BY <2>3, <1>14 DEF NextRow
  <2>5. SameResult(r, result, {"from"}) /\ r.from = {asked}
    BY <1>11, <1>12, <1>13, <1>14, <2>3, TookFacts
  <2>6. SameResult(result', r, {"kind"})
    <3>1. IsResult(r) /\ "rows" \in Kinds BY <2>5 DEF SameResult, Kinds
    <3> QED BY <2>4, <3>1, KindFacts
  <2>7. IsResult(result') /\ result'.query = asked /\ result'.from = {asked} /\ result'.rows = result.rows
    BY <1>12, <2>5, <2>6 DEF SameResult
  <2>8. inbox' = <<>>
    <3>1. Len(conv) = (w + 2 + k) + 1 BY <1>4, <1>5, <1>8, <2>1 DEF IsResultSet
    <3>2. Remains(conv, Len(conv), inbox', lost) BY <1>11, <3>1
    <3> QED BY <3>2, NothingLeft
  <2>9. Settled(lost', result', asked, sent[asked])
    BY <1>3, <1>5, <1>9, <1>15, <2>7 DEF Settled
  <2> QED BY <1>2, <1>12, <2>4, <2>7, <2>8, <2>9, IsOver
<1>16. CASE k # n
  <2>1. k + 1 \in 1..n /\ (w + 2 + k) + 1 = w + 2 + (k + 1) /\ k + 1 \in 0..n /\ k + 1 \in Nat BY <1>16
  <2>2. PICK row \in Row(w) : row = rows[k + 1] BY <1>6, <2>1
  <2>3. Packet1 = Packet(asked, Head(Encoded(row)), Encoded(row))
    BY <1>4, <1>5, <1>8, <1>11, <2>1, <2>2 DEF IsResultSet
  <2>4. Packet1.query = asked /\ Packet1.first = Head(Encoded(row)) /\ Packet1.body = Encoded(row)
    BY <2>3, PacketFacts
  <2>5. Packet1.first \notin {Ok, Eof} BY <1>3, <1>5, <2>1, <2>2, <2>4, RowIsNoEnd
  <2>6. result' = Row1(r) /\ stage' = "rows" BY <2>5, <1>14 DEF NextRow
  <2>7. SameResult(r, result, {"from"}) /\ r.from = {asked}
    BY <1>11, <1>12, <1>13, <1>14, <2>4, TookFacts
  <2>8. IsResult(r) /\ r.rows = result.rows /\ r.width = w BY <1>13, <2>7 DEF SameResult
  <2>9. /\ SameResult(result', r, {"rows"})
        /\ result'.rows = Append(result.rows, RowMap(Columns(Encoded(row), w)))
    BY <2>4, <2>6, <2>8, RowFacts
  <2>10. /\ IsResult(result') /\ result'.query = asked /\ result'.kind = "false"
         /\ result'.from = {asked} /\ result'.width = w
    BY <1>12, <1>13, <2>7, <2>9 DEF SameResult
  <2>11. ASSUME PlainRows(rows) PROVE result'.rows = Lasts(rows, k + 1)
    <3>1. PlainRow(row) BY <1>6, <2>1, <2>2, <2>11 DEF PlainRows
    <3>2. Columns(Encoded(row), w) = row
      <4>1. w \in Nat OBVIOUS
      <4> QED BY <3>1, <4>1, RowComesBack
    <3>3. RowMap(row) = <<Last(row)>>
      <4>1. Len(row) = w /\ w # 0 BY DEF Row
      <4>2. row # <<>> BY <4>1
      <4> QED BY <4>2 DEF RowMap
    <3>4. result'.rows = Append(Lasts(rows, k), <<Last(rows[k + 1])>>)
      BY <1>9, <2>2, <2>9, <2>11, <3>2, <3>3
    <3>5. Append(Lasts(rows, k), <<Last(rows[k + 1])>>) = Lasts(rows, k + 1)
      BY <2>1 DEF Lasts
    <3> QED BY <3>4, <3>5
  <2>12. InRows(conv, inbox', lost, result', rows)
    <3>1. Remains(conv, w + 2 + (k + 1), inbox', lost) BY <1>11, <2>1
    <3> QED BY <1>4, <1>5, <2>1, <2>11, <3>1 DEF InRows
  <2>13. AtRows(stage', inbox', lost, result', asked, rows)
    BY <1>4, <1>8, <2>6, <2>10, <2>12 DEF AtRows
  <2>14. stage' \in Reading \ {"first"} BY <2>6 DEF Reading
  <2> QED BY <1>1, <1>2, <1>3, <1>11, <2>10, <2>13, <2>14, GoesOn
<1> QED BY <1>15, <1>16

\* The first packet.
LEMMA FirstKeeps ==
  ASSUME Now, First
  PROVE  Then
<1>1. stage = "first" BY DEF First, Reads
<1>2. AtFirst(inbox, lost, result, asked, sent[asked]) BY <1>1 DEF Now, InOrder
<1>3. PICK conv \in Seq(Packets) :
        /\ Remains(conv, 0, inbox, lost)
        /\ IsResultSet(conv, asked, sent[asked]) \/ \E code \in {Ok, Err} : conv = <<Packet(asked, code, <<>>)>>
  BY <1>2 DEF AtFirst
<1>4. CASE IsResultSet(conv, asked, sent[asked]) BY <1>1, <1>3, <1>4, FirstOfRows
<1>5. CASE \E code \in {Ok, Err} : conv = <<Packet(asked, code, <<>>)>>
  BY <1>1, <1>3, <1>5, FirstOfOther
<1> QED BY <1>3, <1>4, <1>5

\* The connection is closed.
LEMMA IsClosed ==
  ASSUME Now, stage' = "closed", inbox' \in Seq(Packets), UNCHANGED <<lost, result, asked, sent>>
  PROVE  Then
<1>1. stage' \notin Opening \cup Reading /\ stage' \notin {"greeting", "login"} /\ stage' # "ready"
  BY DEF Opening, Reading
<1>2. stage' \notin Reading /\ stage' # "first" /\ stage' \notin Reading \ {"first"} BY DEF Reading
<1>3. /\ lost' \in BOOLEAN /\ IsResult(result') /\ asked' \in Nat /\ result'.query = asked'
  BY DEF Now, InOrder, IsResult
<1> QED BY <1>1, <1>2, <1>3 DEF Then, InOrder

\* The end of the connection among the packets of an answer.
LEMMA ReadFailsKeeps ==
  ASSUME Now, ReadFails
  PROVE  Then
<1>1. /\ lost /\ inbox = <<>> /\ stage \in {"greeting", "login", "first", "defs", "eof", "rows"}
      /\ UNCHANGED <<inbox, lost, asked, sent>>
  BY DEF ReadFails
<1>2. inbox' = <<>> /\ inbox' \in Seq(Packets) BY <1>1
<1>3. CASE stage \in {"greeting", "login"}
  <2>1. stage' = "closed" /\ result' = result BY <1>3 DEF ReadFails
  <2> QED BY <1>1, <1>2, <2>1, IsClosed
<1>4. CASE stage \in {"first", "defs"}
  <2>1. stage' = "ready" /\ result' = result BY <1>4 DEF ReadFails
  <2>2. stage \in Reading BY <1>4 DEF Reading
  <2>3. /\ IsResult(result) /\ result.query = asked /\ result.kind = "false"
        /\ asked \in Nat /\ lost \in BOOLEAN
    BY <2>2, Underway
  <2>4. IsResult(result') /\ lost' \in BOOLEAN /\ result'.query = asked BY <1>1, <2>1, <2>3
  <2>5. Settled(lost', result', asked, sent[asked]) BY <2>1, <2>3 DEF Settled
  <2> QED BY <1>1, <1>2, <2>1, <2>3, <2>4, <2>5, IsOver
<1>5. CASE stage \in {"eof", "rows"}
  <2>1. stage' = "ready" /\ result' = [result EXCEPT !.kind = "rows"] BY <1>5 DEF ReadFails
  <2>2. stage \in Reading \ {"first"} BY <1>5 DEF Reading
  <2>3. IsResult(result) /\ result.query = asked /\ asked \in Nat /\ lost \in BOOLEAN
    BY <2>2, Underway
  <2>4. result.from = {asked} BY <2>2 DEF Now, InOrder, AtRows
  <2>5. SameResult(result', result, {"kind"})
    <3>1. "rows" \in Kinds BY DEF Kinds
    <3> QED BY <2>1, <2>3, <3>1, KindFacts
  <2>6. IsResult(result') /\ result'.query = asked /\ result'.from = {asked}
    BY <2>3, <2>4, <2>5 DEF SameResult
  <2>7. Settled(lost', result', asked, sent[asked]) BY <1>1, <2>6 DEF Settled
  <2>8. lost' \in BOOLEAN BY <1>1, <2>3
  <2> QED BY <1>1, <1>2, <2>1, <2>3, <2>6, <2>7, <2>8, IsOver
<1> QED BY <1>1, <1>3, <1>4, <1>5

\* The server goes.
LEMMA GoneKeeps ==
  ASSUME Now, Gone
  PROVE  Then
<1>1. lost' = TRUE /\ UNCHANGED <<stage, result, asked, sent>> BY DEF Gone
<1>2. PICK n \in 0..Len(inbox) : inbox' = SubSeq(inbox, 1, n) BY DEF Gone
<1>3. inbox \in Seq(Packets) BY DEF Now, InOrder
<1>4. PICK k \in Nat : k = Len(inbox) BY <1>3, LenProperties
<1>5. n \in 0..k BY <1>4
<1>6. inbox' \in Seq(Packets) /\ Len(inbox') = n
  <2>1. \A i \in 1..n : inbox[i] \in Packets
    <3> SUFFICES ASSUME NEW i \in 1..n PROVE inbox[i] \in Packets
      OBVIOUS
    <3>1. i \in 1..k BY <1>5
    <3> QED BY <3>1, <1>3, <1>4, LenProperties
  <2>2. 1 \in Int /\ n \in Int BY <1>5
  <2>3. /\ SubSeq(inbox, 1, n) \in Seq(Packets)
        /\ Len(SubSeq(inbox, 1, n)) = IF 1 <= n THEN n - 1 + 1 ELSE 0
    BY <2>1, <2>2, SubSeqProperties
  <2>4. (IF 1 <= n THEN n - 1 + 1 ELSE 0) = n BY <1>5
  <2> QED BY <1>2, <2>3, <2>4
<1>7. ASSUME NEW conv \in Seq(Packets), NEW p \in Nat, Remains(conv, p, inbox, lost)
      PROVE  Remains(conv, p, inbox', TRUE)
  BY <1>2, <1>3, <1>7, CutShort
<1>8. /\ stage' \in Opening \cup Reading \cup {"ready", "closed"}
      /\ lost' \in BOOLEAN /\ IsResult(result') /\ asked' \in Nat /\ result'.query = asked'
      /\ stage' \in Opening \cup Reading => result'.kind = "false"
      /\ stage' \in Reading => sent'[asked'] \in Rows /\ Unskewed(sent'[asked'])
  BY <1>1 DEF Now, InOrder, IsResult
<1>9. stage' \in {"greeting", "login"} => Len(inbox') \in {0, 1}
  <2>1. SUFFICES ASSUME stage' \in {"greeting", "login"} PROVE Len(inbox') \in {0, 1}
    OBVIOUS
  <2>2. k \in {0, 1} BY <1>1, <1>4, <2>1 DEF Now, InOrder
  <2> QED BY <1>5, <1>6, <2>2
<1>10. stage' = "ready" => inbox' = <<>> /\ Settled(lost', result', asked', sent'[asked'])
  <2>1. SUFFICES ASSUME stage' = "ready"
                 PROVE  inbox' = <<>> /\ Settled(lost', result', asked', sent'[asked'])
    OBVIOUS
  <2>2. inbox = <<>> /\ Settled(lost, result, asked, sent[asked]) BY <1>1, <2>1 DEF Now, InOrder
  <2>3. k = 0 BY <1>4, <2>2
  <2>4. n = 0 BY <1>5, <2>3
  <2>5. inbox' = <<>> BY <1>6, <2>4
  <2> QED BY <1>1, <2>2, <2>5 DEF Settled
<1>11. stage' = "first" => AtFirst(inbox', lost', result', asked', sent'[asked'])
  <2>1. SUFFICES ASSUME stage' = "first" PROVE AtFirst(inbox', TRUE, result, asked, sent[asked])
    BY <1>1
  <2>2. AtFirst(inbox, lost, result, asked, sent[asked]) BY <1>1, <2>1 DEF Now, InOrder
  <2>3. 0 \in Nat OBVIOUS
  <2> QED BY <2>2, <2>3, <1>7 DEF AtFirst
<1>12. stage' \in Reading \ {"first"} => AtRows(stage', inbox', lost', result', asked', sent'[asked'])
  <2>1. SUFFICES ASSUME stage' \in Reading \ {"first"}
                 PROVE  AtRows(stage, inbox', TRUE, result, asked, sent[asked])
    BY <1>1
  <2>2. AtRows(stage, inbox, lost, result, asked, sent[asked]) BY <1>1, <2>1 DEF Now, InOrder
  <2>3. PICK rows \in Rows : rows = sent[asked] BY <1>1, <2>1 DEF Now, InOrder
  <2>4. PICK w \in 1..250 : w = Width(rows) BY RowsFacts
  <2>5. PICK conv \in Seq(Packets) :
          /\ IsResultSet(conv, asked, rows)
          /\ \/ stage = "defs" /\ InDefs(conv, inbox, lost, result, rows)
             \/ stage = "eof"  /\ BeforeRows(conv, inbox, lost, result, rows)
             \/ stage = "rows" /\ InRows(conv, inbox, lost, result, rows)
    BY <2>2, <2>3 DEF AtRows
  <2>6. ASSUME InDefs(conv, inbox, lost, result, rows) PROVE InDefs(conv, inbox', TRUE, result, rows)
    <3>1. PICK l \in 1..w : l = result.left BY <2>4, <2>6 DEF InDefs
    <3>2. 1 + w - l \in Nat OBVIOUS
    <3>3. Remains(conv, 1 + w - l, inbox, lost) BY <2>4, <2>6, <3>1 DEF InDefs
    <3> QED BY <1>7, <2>4, <2>6, <3>1, <3>2, <3>3 DEF InDefs
  <2>7. ASSUME BeforeRows(conv, inbox, lost, result, rows)
        PROVE  BeforeRows(conv, inbox', TRUE, result, rows)
    <3>1. w + 1 \in Nat OBVIOUS
    <3> QED BY <1>7, <2>4, <2>7, <3>1 DEF BeforeRows
  <2>8. ASSUME InRows(conv, inbox, lost, result, rows) PROVE InRows(conv, inbox', TRUE, result, rows)
    <3>1. PICK j \in 0..Len(rows) : /\ Remains(conv, w + 2 + j, inbox, lost)
                                    /\ PlainRows(rows) => result.rows = Lasts(rows, j)
      BY <2>4, <2>8 DEF InRows
    <3>2. w + 2 + j \in Nat
      <4>1. Len(rows) \in Nat BY RowsFacts
      <4> QED BY <4>1
    <3> QED BY <1>7, <2>4, <3>1, <3>2 DEF InRows
  <2> QED BY <2>2, <2>3, <2>5, <2>6, <2>7, <2>8 DEF AtRows
<1> QED BY <1>6, <1>8, <1>9, <1>10, <1>11, <1>12 DEF Then, InOrder

(***************************************************************************)
(* The steps outside of an answer.                                         *)
(***************************************************************************)
\* No answer is there before the first query.
LEMMA Opens ==
  ASSUME Now, stage \in Opening, UNCHANGED <<lost, result, asked, sent>>,
         stage' \in {"greeting", "login", "ready"}, inbox' \in Seq(Packets),
         stage' = "ready" => inbox' = <<>>, Len(inbox') \in {0, 1}
  PROVE  Then
<1>1. /\ lost' \in BOOLEAN /\ IsResult(result') /\ asked' \in Nat /\ result'.query = asked'
      /\ result'.kind = "false"
  BY DEF Now, InOrder, IsResult
<1>2. stage' \notin Reading /\ stage' # "first" /\ stage' \notin Reading \ {"first"} BY DEF Reading
<1>3. stage' \in Opening \cup Reading \cup {"ready", "closed"} BY DEF Opening
<1>4. Settled(lost', result', asked', sent'[asked']) BY <1>1 DEF Settled
<1> QED BY <1>1, <1>2, <1>3, <1>4 DEF Then, InOrder

\* A packet of the handshake.
LEMMA Handshake ==
  ASSUME NEW first \in Int
  PROVE  <<Packet(0, first, <<>>)>> \in Seq(Packets) /\ Len(<<Packet(0, first, <<>>)>>) = 1
<1>1. <<>> \in Seq(Int) OBVIOUS
<1>2. Packet(0, first, <<>>) \in Packets BY <1>1 DEF Packet, Packets
<1> QED BY <1>2

\* The connection is made.
LEMMA ConnectKeeps ==
  ASSUME Now, mysql_connect
  PROVE  Then
<1>1. /\ stage \in Opening /\ stage' = "greeting" /\ inbox' = <<Packet(0, 10, <<>>)>>
      /\ UNCHANGED <<lost, result, asked, sent>>
  BY DEF mysql_connect, Opening
<1>2. 10 \in Int OBVIOUS
<1>3. inbox' \in Seq(Packets) /\ Len(inbox') = 1 BY <1>1, <1>2, Handshake
<1> QED BY <1>1, <1>3, Opens

\* The greeting is answered.
LEMMA GreetingKeeps ==
  ASSUME Now, Greeting
  PROVE  Then
<1>1. stage \in Opening /\ stage' = "login" /\ UNCHANGED <<lost, result, asked, sent>>
  BY DEF Greeting, Opening
<1>2. PICK first \in {Ok, Err, Eof} : inbox' = <<Packet(0, first, <<>>)>> BY DEF Greeting
<1>3. first \in Int BY DEF Ok, Err, Eof
<1>4. inbox' \in Seq(Packets) /\ Len(inbox') = 1 BY <1>2, <1>3, Handshake
<1> QED BY <1>1, <1>4, Opens

\* The server accepts the login or refuses it.
LEMMA LoginKeeps ==
  ASSUME Now, Login
  PROVE  Then
<1>1. /\ stage = "login" /\ inbox # <<>> /\ inbox' = Tail(inbox) /\ UNCHANGED <<lost, result, asked, sent>>
      /\ stage' \in {"ready", "closed"}
  BY DEF Login, Reads
<1>2. inbox \in Seq(Packets) /\ Len(inbox) \in {0, 1} BY <1>1 DEF Now, InOrder
<1>3. inbox' \in Seq(Packets) BY <1>1, <1>2, SomePacket
<1>4. inbox' = <<>>
  <2>1. PICK k \in Nat : k = Len(inbox) BY <1>2, LenProperties
  <2>2. k # 0 BY <1>1, <1>2, <2>1, EmptySeq
  <2>3. k = 1 BY <1>2, <2>1, <2>2
  <2>4. Len(Tail(inbox)) = Len(inbox) - 1 BY <1>1, <1>2, HeadTailProperties
  <2>5. Len(inbox') = 0 BY <1>1, <2>1, <2>3, <2>4
  <2> QED BY <1>3, <2>5, EmptySeq
<1>5. CASE stage' = "ready"
  <2>1. stage \in Opening BY <1>1 DEF Opening
  <2>2. Len(inbox') \in {0, 1} BY <1>4
  <2> QED BY <1>1, <1>3, <1>4, <1>5, <2>1, <2>2, Opens
<1>6. CASE stage' = "closed" BY <1>1, <1>3, <1>6, IsClosed
<1> QED BY <1>1, <1>5, <1>6

\* The client closes the connection.
LEMMA HangUpKeeps ==
  ASSUME Now, mysql_close
  PROVE  Then
<1>1. stage' = "closed" /\ UNCHANGED <<inbox, lost, result, asked, sent>> BY DEF mysql_close
<1>2. inbox' \in Seq(Packets) BY <1>1 DEF Now, InOrder
<1> QED BY <1>1, <1>2, IsClosed

\* An answer may have no rows.
LEMMA NoRows == <<>> \in Rows
<1>1. PICK w \in 1..MaxColumns : w = 1 BY MysqlAssumption
<1>2. 0 \in 0..(MaxCells \div w) BY <1>1, MysqlAssumption
<1>3. <<>> \in [1..0 -> [1..w -> Values]] OBVIOUS
<1> QED BY <1>1, <1>2, <1>3 DEF Rows

\* The rows the server answers with are added to those of the earlier queries.
LEMMA Answering ==
  ASSUME SentOK, mysql_query
  PROVE  /\ asked' = asked + 1 /\ asked' \in Nat
         /\ \E rows \in Rows : /\ sent' = Append(sent, rows) /\ sent'[asked'] = rows
                               /\ \A q \in DOMAIN sent : q \in DOMAIN sent' /\ sent'[q] = sent[q]
         /\ SentOK'
<1>1. asked' = asked + 1 /\ asked \in Nat /\ sent \in Seq(Rows) /\ Len(sent) = asked
  BY DEF mysql_query, SentOK
<1>2. \E rows \in Rows : sent' = Append(sent, rows)
  BY NoRows DEF mysql_query, Answers
<1>3. PICK rows \in Rows : sent' = Append(sent, rows) BY <1>2
<1>4. PICK n \in Nat : n = asked BY <1>1
<1>5. /\ sent' \in Seq(Rows) /\ Len(sent') = n + 1 /\ sent'[n + 1] = rows
      /\ \A i \in 1..n : sent'[i] = sent[i]
  BY <1>1, <1>3, <1>4, AppendProperties
<1>6. DOMAIN sent = 1..n /\ DOMAIN sent' = 1..(n + 1) BY <1>1, <1>4, <1>5, LenProperties
<1>7. \A q \in DOMAIN sent : q \in DOMAIN sent' /\ sent'[q] = sent[q] BY <1>5, <1>6
<1> QED BY <1>1, <1>3, <1>4, <1>5, <1>7 DEF SentOK

\* A query starts an answer of its own.
LEMMA QueryKeeps ==
  ASSUME SentOK, Now, mysql_query, ~ Skewed'
  PROVE  Then
<1>1. PICK q \in Nat : q = asked' /\ q = asked + 1 BY Answering
<1>2. PICK rows \in Rows : rows = sent'[asked'] /\ sent' = Append(sent, rows) BY Answering
<1>3. lost' = lost /\ lost \in BOOLEAN /\ stage = "ready" /\ inbox = <<>> BY DEF mysql_query, Now, InOrder
<1>4. result' = Fresh(q) BY <1>1 DEF mysql_query
<1>5. /\ IsResult(result') /\ result'.query = q /\ result'.kind = "false"
      /\ result'.rows = <<>> /\ result'.from = {}
  BY <1>4, FreshFacts
<1>6. CASE lost
  <2>1. stage' = "ready" /\ inbox' = <<>> BY <1>3, <1>6 DEF mysql_query
  <2>2. Settled(lost', result', q, rows) BY <1>5 DEF Settled
  <2>3. stage' \notin Opening \cup Reading /\ stage' \notin {"greeting", "login"} BY <2>1 DEF Opening, Reading
  <2>4. stage' \notin Reading /\ stage' # "first" /\ stage' \notin Reading \ {"first"} BY <2>1 DEF Reading
  <2>5. inbox' \in Seq(Packets) BY <2>1
  <2> QED BY <1>1, <1>2, <1>3, <1>5, <2>1, <2>2, <2>3, <2>4, <2>5 DEF Then, InOrder
<1>7. CASE ~ lost
  <2>1. PICK a \in Answers(q) : /\ inbox' = inbox \o a.packets /\ sent' = Append(sent, a.rows)
                                /\ stage' = "first"
    BY <1>1, <1>7 DEF mysql_query
  <2>2. /\ a.rows \in Rows
        /\ \/ a.packets = ResultSet(q, a.rows)
           \/ \E code \in {Ok, Err} : a.packets = <<Packet(q, code, <<>>)>>
    BY <2>1, NoRows DEF Answers
  <2>3. a.rows = rows
    <3>1. PICK n \in Nat : n = Len(sent) /\ sent \in Seq(Rows) /\ n = asked BY DEF SentOK
    <3>2. PICK x \in Rows : x = a.rows BY <2>2
    <3>3. sent \in Seq(Rows) /\ Len(sent) = n BY <3>1
    <3>4. Append(sent, x)[n + 1] = x /\ Append(sent, rows)[n + 1] = rows BY <3>3, AppendProperties
    <3>5. Append(sent, x) = Append(sent, rows) BY <1>2, <2>1, <3>2
    <3> QED BY <3>2, <3>4, <3>5
  <2>4. PICK conv : conv = a.packets OBVIOUS
  <2>5. /\ conv \in Seq(Packets)
        /\ IsResultSet(conv, q, rows) \/ \E code \in {Ok, Err} : conv = <<Packet(q, code, <<>>)>>
    <3>1. CASE conv = ResultSet(q, rows) BY <3>1, ResultSetIs
    <3>2. CASE \E code \in {Ok, Err} : conv = <<Packet(q, code, <<>>)>>
      <4>1. PICK code \in {Ok, Err} : conv = <<Packet(q, code, <<>>)>> BY <3>2
      <4>2. code \in Int BY DEF Ok, Err
      <4>3. <<>> \in Seq(Int) OBVIOUS
      <4>4. Packet(q, code, <<>>) \in Packets BY <4>2, <4>3 DEF Packet, Packets
      <4> QED BY <4>1, <4>4
    <3> QED BY <2>2, <2>3, <2>4, <3>1, <3>2
  <2>6. inbox' = conv BY <1>3, <2>1, <2>4, <2>5, ConcatEmptySeq
  <2>7. Remains(conv, 0, inbox', lost') BY <2>5, <2>6, AllLeft
  <2>8. AtFirst(inbox', lost', result', q, rows) BY <1>5, <2>5, <2>7 DEF AtFirst
  <2>9. Unskewed(rows)
    <3>1. q \in DOMAIN sent'
      <4>1. sent' \in Seq(Rows) /\ Len(sent') = q
        BY <1>1, Answering DEF SentOK
      <4>2. q \in 1..q BY <1>1, Answering DEF SentOK
      <4> QED BY <4>1, <4>2, LenProperties
    <3> QED BY <1>1, <1>2, <3>1 DEF Skewed, Unskewed
  <2>10. stage' \notin {"greeting", "login"} /\ stage' # "ready" /\ stage' \in Reading
         /\ stage' \notin Reading \ {"first"}
    BY <2>1 DEF Reading
  <2> QED BY <1>1, <1>2, <1>3, <1>5, <2>5, <2>6, <2>8, <2>9, <2>10 DEF Then, InOrder
<1> QED BY <1>6, <1>7

(***************************************************************************)
(* The invariant and the property.                                         *)
(***************************************************************************)
\* A step that sends no query leaves the answers as they are.
LEMMA SameAnswers ==
  ASSUME MysqlInv, UNCHANGED <<asked, sent>>, Now => Then
  PROVE  MysqlInv'
<1>1. SentOK' BY DEF MysqlInv, SentOK
<1>2. Skewed => Skewed' BY DEF Skewed
<1> QED BY <1>1, <1>2 DEF MysqlInv, Now, Then

\* Every step keeps the invariant.
LEMMA MysqlStep == MysqlInv /\ [MysqlNext]_mysqlVars => MysqlInv'
<1> SUFFICES ASSUME MysqlInv, [MysqlNext]_mysqlVars PROVE MysqlInv'
  OBVIOUS
<1>1. CASE mysql_connect BY <1>1, ConnectKeeps, SameAnswers DEF mysql_connect
<1>2. CASE Greeting BY <1>2, GreetingKeeps, SameAnswers DEF Greeting
<1>3. CASE Login
  <2>1. UNCHANGED <<asked, sent>> BY <1>3 DEF Login, Reads
  <2> QED BY <1>3, <2>1, LoginKeeps, SameAnswers
<1>4. CASE mysql_query
  <2>1. SentOK' BY <1>4, Answering DEF MysqlInv
  <2>2. CASE Skewed
    <3>1. PICK q \in DOMAIN sent : \E i \in DOMAIN sent[q] : Head(sent[q][i]) = <<>> BY <2>2 DEF Skewed
    <3>2. q \in DOMAIN sent' /\ sent'[q] = sent[q] BY <1>4, <3>1, Answering DEF MysqlInv
    <3>3. Skewed' BY <3>1, <3>2 DEF Skewed
    <3> QED BY <2>1, <3>3 DEF MysqlInv
  <2>3. CASE ~ Skewed
    <3>1. Now /\ SentOK BY <2>3 DEF MysqlInv, Now
    <3>2. ~ Skewed' => Then BY <1>4, <3>1, QueryKeeps
    <3> QED BY <2>1, <3>2 DEF MysqlInv, Then
  <2> QED BY <2>2, <2>3
<1>5. CASE First
  <2>1. UNCHANGED <<asked, sent>> BY <1>5 DEF First, Reads
  <2> QED BY <1>5, <2>1, FirstKeeps, SameAnswers
<1>6. CASE Defs
  <2>1. UNCHANGED <<asked, sent>> BY <1>6 DEF Defs, Reads
  <2> QED BY <1>6, <2>1, DefsKeeps, SameAnswers
<1>7. CASE AfterDefs
  <2>1. UNCHANGED <<asked, sent>> BY <1>7 DEF AfterDefs, Reads
  <2> QED BY <1>7, <2>1, AfterDefsKeeps, SameAnswers
<1>8. CASE NextRow
  <2>1. UNCHANGED <<asked, sent>> BY <1>8 DEF NextRow, Reads
  <2> QED BY <1>8, <2>1, NextRowKeeps, SameAnswers
<1>9. CASE ReadFails BY <1>9, ReadFailsKeeps, SameAnswers DEF ReadFails
<1>10. CASE mysql_close BY <1>10, HangUpKeeps, SameAnswers DEF mysql_close
<1>11. CASE Gone BY <1>11, GoneKeeps, SameAnswers DEF Gone
<1>12. CASE UNCHANGED mysqlVars
  <2>1. UNCHANGED <<stage, inbox, lost, result, asked, sent>> BY <1>12 DEF mysqlVars
  <2>2. Now => Then BY <2>1 DEF Now, Then
  <2> QED BY <2>1, <2>2, SameAnswers
<1> QED BY <1>1, <1>2, <1>3, <1>4, <1>5, <1>6, <1>7, <1>8, <1>9, <1>10, <1>11, <1>12 DEF MysqlNext

\* It holds before the connection is made.
LEMMA MysqlInitInv == MysqlInit => MysqlInv
<1> SUFFICES ASSUME MysqlInit PROVE MysqlInv
  OBVIOUS
<1>1. /\ stage = "none" /\ inbox = <<>> /\ lost = FALSE /\ result = Fresh(0) /\ asked = 0 /\ sent = <<>>
  BY DEF MysqlInit
<1>2. SentOK BY <1>1 DEF SentOK
<1>3. 0 \in Nat OBVIOUS
<1>4. IsResult(result) /\ result.query = 0 /\ result.kind = "false" BY <1>1, <1>3, FreshFacts
<1>5. stage \in Opening /\ stage \notin {"greeting", "login"} BY <1>1 DEF Opening
<1>6. stage \notin Reading /\ stage # "first" /\ stage # "ready" /\ stage \notin Reading \ {"first"}
  BY <1>1 DEF Reading
<1>7. inbox \in Seq(Packets) /\ asked \in Nat
  <2>1. inbox = <<>> /\ asked = 0 BY <1>1
  <2> QED BY <2>1
<1>8. lost \in BOOLEAN BY <1>1, Zenon
<1>9. InOrder(stage, inbox, lost, result, asked, sent[asked])
  BY <1>1, <1>4, <1>5, <1>6, <1>7, <1>8 DEF InOrder
<1> QED BY <1>2, <1>9 DEF MysqlInv

\* Where no column is empty, no first column is.
LEMMA PlainIsUnskewed ==
  ASSUME SentOK, \A q \in DOMAIN sent : Plain(sent[q])
  PROVE  ~ Skewed
<1> SUFFICES ASSUME NEW q \in DOMAIN sent, NEW i \in DOMAIN sent[q], Head(sent[q][i]) = <<>>
             PROVE  FALSE
  BY DEF Skewed
<1>1. PICK n \in Nat : n = Len(sent) BY DEF SentOK
<1>2. DOMAIN sent = 1..n /\ \A k \in 1..n : sent[k] \in Rows BY <1>1, LenProperties DEF SentOK
<1>3. PICK rows \in Rows : rows = sent[q] BY <1>2
<1>4. PICK w \in 1..250 : w = Width(rows) BY RowsFacts
<1>5. PICK row \in Row(w) : row = rows[i] BY <1>3, <1>4, RowsFacts
<1>6. 1 \in DOMAIN row /\ Head(row) = row[1]
  <2>1. row \in Seq(Values) /\ Len(row) = w /\ 1 \in 1..w BY DEF Row
  <2> QED BY <2>1 DEF Row
<1>7. row[1] # <<>> BY <1>3, <1>5, <1>6 DEF Plain
<1> QED BY <1>3, <1>5, <1>6, <1>7

\* The invariant implies the property.
LEMMA MysqlInvFacts == MysqlInv => AnswersTrue
<1> SUFFICES ASSUME MysqlInv PROVE AnswersTrue
  OBVIOUS
<1>1. SentOK BY DEF MysqlInv
<1>2. ASSUME Answered, ~ Skewed
      PROVE  result.query = asked /\ Settled(lost, result, asked, sent[asked])
  BY <1>2 DEF MysqlInv, InOrder, Answered
<1>3. InStep
  <2>1. SUFFICES ASSUME Answered, ~ Skewed PROVE result.from = {result.query}
    BY DEF InStep
  <2> QED BY <1>2, <2>1 DEF Settled, Answered
<1>4. RowsRead
  <2>1. SUFFICES ASSUME Answered, result.kind = "rows", ~ lost, \A q \in DOMAIN sent : Plain(sent[q])
                 PROVE  result.rows = [i \in DOMAIN sent[asked] |-> <<Last(sent[asked][i])>>]
    BY DEF RowsRead
  <2>2. ~ Skewed BY <1>1, <2>1, PlainIsUnskewed
  <2>3. PICK n \in Nat : n = asked /\ n # 0 /\ n = Len(sent) BY <1>1, <2>1 DEF SentOK, Answered
  <2>4. DOMAIN sent = 1..n /\ n \in 1..n BY <1>1, <2>3, LenProperties DEF SentOK
  <2>5. PICK rows \in Rows : rows = sent[asked]
    <3>1. sent[n] \in Rows BY <1>1, <2>3, <2>4, LenProperties DEF SentOK
    <3> QED BY <2>3, <3>1
  <2>6. PlainRows(rows) BY <2>1, <2>3, <2>4, <2>5 DEF Plain, PlainRows, PlainRow
  <2>7. result.rows = Lasts(rows, Len(rows)) BY <1>2, <2>1, <2>2, <2>5, <2>6 DEF Settled, Answered
  <2>8. DOMAIN rows = 1..Len(rows) BY RowsFacts
  <2> QED BY <2>5, <2>7, <2>8 DEF Lasts
<1> QED BY <1>3, <1>4 DEF AnswersTrue

\* Answers belong to their query, and the rows of an answer are those the server sent, for
\* any texts of less than 251 bytes and any number of queries, rows and columns below that
\* (mysql_query_impl, my_lenc_int).
THEOREM AnswersAreTrue == MysqlSpec => []AnswersTrue
<1>1. MysqlSpec => []MysqlInv BY MysqlInitInv, MysqlStep, PTL DEF MysqlSpec
<1> QED BY <1>1, MysqlInvFacts, PTL
=============================================================================
