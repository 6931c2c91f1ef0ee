------------------------------- MODULE Unwind ------------------------------
(***************************************************************************)
(* Exceptions and closure calls of hphp_rt.c: hp_try_run, hp_throw and     *)
(* hp_closure_call_arr on one thread's C stack.  A try statement is a call *)
(* of hp_try_run with the body or the handler above it, then the finally   *)
(* block at the place it was called from.                                  *)
(***************************************************************************)
EXTENDS Integers, SequencesExt

CONSTANTS
  Exceptions,           \* values that are thrown, numbers other than 0
  Closures,             \* closures with an environment, numbers other than 0
  MaxDepth              \* bound on the C stack
ASSUME UnwindAssumption == {Exceptions, Closures} \subseteq SUBSET (Nat \ {0}) /\ MaxDepth \in Nat

VARIABLES
  cstack,       \* the activations, the innermost last
  tryChain,     \* hp_cur_try and its prev links: places on the stack, the current one last
  curEnv,       \* hp_cur_env
  exited        \* an exception nobody catches has ended the process
unwindVars == <<cstack, tryChain, curEnv, exited>>

NoValue == 0                    \* hp_null
Trying(phase) == [kind |-> phase, value |-> NoValue, env |-> 0]
Call(c, saved) == [kind |-> "closure", value |-> NoValue, env |-> saved]
Inner == Last(cstack)
In(kind) == cstack # <<>> /\ Inner.kind = kind
Deeper(a) == Len(cstack) < MaxDepth /\ cstack' = Append(cstack, a)

UnwindInit == cstack = <<>> /\ tryChain = <<>> /\ curEnv = 0 /\ exited = FALSE

hp_try_pop(chain, place) == IF chain # <<>> /\ Last(chain) = place THEN Front(chain) ELSE chain
hp_try_push(chain, place) == Append(chain, place)

\* The frames of a body and of a handler are two; both lie where hp_try_run is called.
EnterTry == /\ Deeper(Trying("body"))
            /\ tryChain' = hp_try_push(tryChain, Len(cstack) + 1)
            /\ UNCHANGED <<curEnv, exited>>

\* To the finally block, with what hp_try_run returns.
Returned(stack, v) == [stack EXCEPT ![Len(stack)] = [@ EXCEPT !.kind = "finally", !.value = v]]

BodyEnds == /\ In("body")
            /\ cstack' = Returned(cstack, NoValue)
            /\ tryChain' = hp_try_pop(tryChain, Len(cstack))
            /\ UNCHANGED <<curEnv, exited>>

\* The handler took the exception, or no class matched and it is to go on.
SlipHandlerEnds == /\ In("handler")
                   /\ \E v \in {NoValue, Inner.value} : cstack' = Returned(cstack, v)
                   /\ UNCHANGED <<tryChain, curEnv, exited>>
HandlerEnds == /\ In("handler")
               /\ \E v \in {NoValue, Inner.value} : cstack' = Returned(cstack, v)
               /\ tryChain' = hp_try_pop(tryChain, Len(cstack))
               /\ UNCHANGED <<curEnv, exited>>

\* longjmp to the current frame: the activations above it are gone, hp_cur_env stays.  From
\* the body the handler is entered under a frame of its own; from the handler hp_try_run
\* returns the exception.
Caught(v) ==
  LET place == Last(tryChain)
      below == SubSeq(cstack, 1, place)
  IN  IF Last(below).kind = "body"
      THEN /\ cstack' = [below EXCEPT ![place] = [Trying("handler") EXCEPT !.value = v]]
           /\ tryChain' = hp_try_push(hp_try_pop(tryChain, place), place)
      ELSE /\ cstack' = Returned(below, v)
           /\ tryChain' = hp_try_pop(tryChain, place)

hp_throw(v) == IF tryChain = <<>> THEN exited' = TRUE /\ UNCHANGED <<cstack, tryChain, curEnv>>
               ELSE Caught(v) /\ UNCHANGED <<curEnv, exited>>

\* Code anywhere may throw; the end of a finally block throws what is pending.
Throw == cstack # <<>> /\ \E v \in Exceptions : hp_throw(v)
FinallyEnds == /\ In("finally")
               /\ IF Inner.value # NoValue THEN hp_throw(Inner.value)
                  ELSE cstack' = Front(cstack) /\ UNCHANGED <<tryChain, curEnv, exited>>

hp_closure_call_arr == \E c \in Closures :
  /\ Deeper(Call(c, curEnv)) /\ curEnv' = c
  /\ UNCHANGED <<tryChain, exited>>
ClosureReturns == /\ In("closure")
                  /\ cstack' = Front(cstack) /\ curEnv' = Inner.env
                  /\ UNCHANGED <<tryChain, exited>>

UnwindNext == /\ ~ exited
              /\ \/ EnterTry \/ BodyEnds \/ HandlerEnds \/ Throw \/ FinallyEnds
                 \/ hp_closure_call_arr \/ ClosureReturns
UnwindSpec == UnwindInit /\ [][UnwindNext]_unwindVars

(***************************************************************************)
(* Properties.                                                             *)
(***************************************************************************)
\* hp_cur_try and its links are exactly the calls of hp_try_run that are in their body or
\* their handler, the innermost first: no throw jumps into a call that has returned, into a
\* finally block or past a try statement (hp_try_push, hp_try_pop, the two frames of
\* hp_try_run).
Guarding == {i \in DOMAIN cstack : cstack[i].kind \in {"body", "handler"}}
ChainMatches ==
  /\ Range(tryChain) = Guarding
  /\ \A i, j \in DOMAIN tryChain : i < j => tryChain[i] < tryChain[j]
=============================================================================
