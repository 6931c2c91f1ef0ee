------------------------------ MODULE Barrier ------------------------------
(***************************************************************************)
(* One barrier of runtime/hphp_thr.c (BarRec) and the threads that meet at *)
(* it, again and again.  A thread's arrival and its leaving are separate   *)
(* critical sections of b->mu; between them it sleeps on b->cv, and the    *)
(* threads of the next round may arrive before the ones of this round have *)
(* run again.                                                              *)
(*                                                                         *)
(* barrier_new may move the table of barriers to another block (realloc)   *)
(* while threads sleep on a record of the old one: block numbers them.     *)
(***************************************************************************)
EXTENDS Integers, FiniteSets

CONSTANTS
  Waiter,          \* the threads that call barrier_wait
  Need,            \* barrier_new's count, after its clamp to at least 1
  MaxRound,        \* bound: rounds of a behaviour
  MoveUnderWaiters \* may the table move while a thread sleeps on the barrier?

ASSUME BarrierAssumption ==
  /\ Need \in Nat \ {0}
  /\ MaxRound \in Nat
  /\ MoveUnderWaiters \in BOOLEAN
  /\ IsFiniteSet(Waiter)

VARIABLES
  bar,             \* the BarRec: seen, round
  block,           \* the block the record lives in
  stale,           \* the record as it was left behind in a block given back
  wait,            \* wait[t]: round, arrival index and block of a call in progress
  arrived,         \* history: arrived[r] = the threads that arrived in round r
  left             \* history: left[r] = the indices returned by calls of round r

barrierVars == <<bar, block, stale, wait, arrived, left>>

NoWait == [round |-> -1, idx |-> -1, block |-> -1]

Sleeping(t) == wait[t].round >= 0

(* Operators named Slip* are plausible mistakes in the definition that     *)
(* follows them; no specification uses them.                               *)

BarrierInit ==
  /\ bar = [seen |-> 0, round |-> 0]
  /\ block = 0
  /\ stale = bar
  /\ wait = [t \in Waiter |-> NoWait]
  /\ arrived = [r \in 0..MaxRound |-> {}]
  /\ left = [r \in 0..MaxRound |-> {}]

\* t arrives: it completes the round, which leaves the record as `reset', or
\* it sleeps with the arrival index idx.
ArriveAs(t, completes, reset, idx) ==
  /\ ~Sleeping(t)
  /\ bar.round < MaxRound
  /\ arrived' = [arrived EXCEPT ![bar.round] = @ \cup {t}]
  /\ IF completes
     THEN /\ bar' = reset
          /\ left' = [left EXCEPT ![bar.round] = @ \cup {Need - 1}]
          /\ UNCHANGED wait
     ELSE /\ bar' = [bar EXCEPT !.seen = @ + 1]
          /\ wait' = [wait EXCEPT ![t] = [round |-> bar.round, idx |-> idx, block |-> block]]
          /\ UNCHANGED left
  /\ UNCHANGED <<block, stale>>

NextRound == [seen |-> 0, round |-> bar.round + 1]

SlipSameRound(t) ==
  ArriveAs(t, bar.seen + 1 = Need, [bar EXCEPT !.seen = 0], bar.seen)

\* barrier_wait up to its sleep, or to its end for the last arrival, which
\* starts the next round and wakes everybody.
Arrive(t) == ArriveAs(t, bar.seen + 1 = Need, NextRound, bar.seen)

SlipSeenAlone(t) == bar.seen # 0

\* The loop condition of the sleep: the record a thread looks at is the one in
\* the block it came with; a block that was given back keeps its old contents.
StillClosed(t) ==
  LET b == IF wait[t].block = block THEN bar ELSE stale
  IN  wait[t].round = b.round /\ b.seen # 0

Leave(t) ==
  /\ Sleeping(t)
  /\ ~StillClosed(t)
  /\ left' = [left EXCEPT ![wait[t].round] = @ \cup {wait[t].idx}]
  /\ wait' = [wait EXCEPT ![t] = NoWait]
  /\ UNCHANGED <<bar, block, stale, arrived>>

\* barrier_new for another barrier finds the table full and moves it (once).
Move ==
  /\ block = 0
  /\ MoveUnderWaiters \/ \A t \in Waiter : ~Sleeping(t)
  /\ block' = 1
  /\ stale' = bar
  /\ UNCHANGED <<bar, wait, arrived, left>>

BarrierNext == Move \/ \E t \in Waiter : Arrive(t) \/ Leave(t)

BarrierSpec == BarrierInit /\ [][BarrierNext]_barrierVars

\* pthread_cond_broadcast wakes the sleepers and each gets b->mu in turn.
BarrierFairSpec == BarrierSpec /\ \A t \in Waiter : WF_barrierVars(Leave(t))

(***************************************************************************)
(* Properties.                                                             *)
(***************************************************************************)
\* Every variable has its type; the count of arrivals never reaches Need.
BarrierTypeOK ==
  /\ bar \in [seen : 0..(Need - 1), round : 0..MaxRound]
  /\ block \in {0, 1}
  /\ stale \in [seen : 0..(Need - 1), round : 0..MaxRound]
  /\ wait \in [Waiter -> [round : -1..MaxRound, idx : -1..(Need - 1), block : -1..1]]
  /\ arrived \in [0..MaxRound -> SUBSET Waiter]
  /\ left \in [0..MaxRound -> SUBSET (0..(Need - 1))]

\* The barrier holds: nobody leaves a round before Need threads, all of them
\* different, have arrived in it.
NobodyLeavesEarly ==
  \A r \in 0..MaxRound : left[r] # {} => Cardinality(arrived[r]) >= Need

\* Two calls of one round never carry or return the same arrival index, even
\* while threads of the next round pile up behind them.
IndicesDistinct ==
  /\ \A t, u \in Waiter :
       t # u /\ Sleeping(t) /\ Sleeping(u) /\ wait[t].round = wait[u].round
         => wait[t].idx # wait[u].idx
  /\ \A t \in Waiter : Sleeping(t) => wait[t].idx \notin left[wait[t].round]

\* Only the current round and finished ones have sleepers, and as many threads
\* sleep in the current round as the record counts.
SeenCounts ==
  bar.seen = Cardinality({t \in Waiter : Sleeping(t) /\ wait[t].round = bar.round})

\* "release N threads together": once a round is full, each of its threads leaves.
EveryoneReleased ==
  \A t \in Waiter : (Sleeping(t) /\ wait[t].round < bar.round) ~> ~Sleeping(t)

\* The rounds stay apart: full before anybody leaves, each index once, sleepers as counted
\* (barrier_wait).
RoundsApart == NobodyLeavesEarly /\ IndicesDistinct /\ SeenCounts
=============================================================================
