---------------------------- MODULE ParallelMap ----------------------------
(***************************************************************************)
(* thr_parallel_map of runtime/hphp_thr.c: a thread for each of the first  *)
(* `workers` items, the other items run inline in the calling thread, all  *)
(* results travel over a channel with room for every one of them, and the  *)
(* caller joins the threads and collects n results.  The channel is used   *)
(* through what it promises, ChannelSpec; that no send on it can block is  *)
(* an invariant here.                                                      *)
(***************************************************************************)
EXTENDS Integers, Sequences, FiniteSets

CONSTANTS
  MaxItems,        \* bound: length of the input
  DefaultWorkers,  \* what a worker count below 1 stands for (4)
  PtsLen           \* length of the array of thread handles (64)

ASSUME MapAssumption ==
  /\ MaxItems \in Nat \ {0}
  /\ DefaultWorkers \in Nat \ {0}
  /\ PtsLen \in Nat \ {0}

VARIABLES
  n, workers,                \* length of the input, clamped worker count
  i,                         \* the loop's next item
  skipped,                   \* the items that got neither a thread nor an inline run
  phase,                     \* where the caller is
  pts,                       \* the items threads were launched for, in order
  busy,                      \* the items whose thread has not ended yet
  slots,                     \* slots[k]: the item whose result was stored at k, -1 if none
  accepted, taken, closed    \* the channel

chan == <<accepted, taken, closed>>
mapVars == <<n, workers, i, skipped, phase, pts, busy, slots, accepted, taken, closed>>

Item == 0..(MaxItems - 1)

\* A result message is the item's index; the closure's result goes with it.
Chan == INSTANCE ChannelSpec WITH Payload <- Item

(* Operators named Slip* are plausible mistakes in the definition that     *)
(* follows them; no specification uses them.                               *)

\* The worker count: a default for less than 1, at most one per item, at most
\* one per slot of pts.
Clamp(w, len) ==
  LET w1 == IF w < 1 THEN DefaultWorkers ELSE w
      w2 == IF w1 > len THEN len ELSE w1
  IN  IF w2 > PtsLen THEN PtsLen ELSE w2

MapInit ==
  /\ Chan!Init
  /\ n = 0 /\ workers = 0 /\ i = 0 /\ slots = <<>>
  /\ phase = "before"
  /\ skipped = {} /\ pts = <<>> /\ busy = {}

\* The call, for an input that is not empty.
Call1 ==
  /\ phase = "before" /\ phase' = "launch"
  /\ n' \in 1..MaxItems
  /\ \E w \in -1..(MaxItems + 1) : workers' = Clamp(w, n')
  /\ slots' = [k \in 0..(n' - 1) |-> -1]
  /\ UNCHANGED <<i, skipped, pts, busy, chan>>

Launch ==
  /\ phase = "launch" /\ i < n /\ i < workers
  /\ pts' = Append(pts, i)
  /\ busy' = busy \cup {i}
  /\ i' = i + 1
  /\ UNCHANGED <<n, workers, skipped, phase, slots, chan>>

\* No memory for the job, or no thread for one of the first: the item is skipped.
LaunchFails ==
  /\ phase = "launch" /\ i < n
  /\ i' = i + 1
  /\ skipped' = skipped \cup {i}
  /\ UNCHANGED <<n, workers, phase, pts, busy, slots, chan>>

\* The caller runs the item itself and sends the result.
RunInline ==
  /\ phase = "launch" /\ i < n /\ i >= workers
  /\ Chan!Accept(i)
  /\ i' = i + 1
  /\ UNCHANGED <<n, workers, skipped, phase, pts, busy, slots>>

\* pmap_worker in its thread: the closure returns and the result is sent.
WorkerSends(k) ==
  /\ k \in busy
  /\ Chan!Accept(k)
  /\ busy' = busy \ {k}
  /\ UNCHANGED <<n, workers, skipped, i, phase, pts, slots>>

\* Every launched thread is joined.
JoinAll ==
  /\ phase = "launch" /\ i = n
  /\ \A p \in DOMAIN pts : pts[p] \notin busy
  /\ phase' = "collect"
  /\ UNCHANGED <<n, workers, skipped, i, pts, busy, slots, chan>>

Got == Cardinality({k \in 0..(n - 1) : slots[k] # -1})

Store(k, item, limit) ==
  /\ phase = "collect"
  /\ Got < limit
  /\ Chan!Take
  /\ slots' = [slots EXCEPT ![k] = item]
  /\ UNCHANGED <<n, workers, i, skipped, phase, pts, busy>>

Arriving == accepted[Len(taken) + 1]

SlipStoreInArrivalOrder == Store(Len(taken), Arriving, n)

SlipStopOneShort == Store(Arriving, Arriving, n - 1)

\* A result is received and stored under its index; with an empty channel the
\* caller sleeps.
CollectOne == Store(Arriving, Arriving, n)

\* No memory for the slots: nothing is received and an empty list returned.
NoSlots ==
  /\ phase = "collect" /\ taken = <<>>
  /\ Chan!Close
  /\ phase' = "empty"
  /\ UNCHANGED <<n, workers, i, skipped, pts, busy, slots>>

\* All results are there: the channel is closed and the list returned.
Finish ==
  /\ phase = "collect"
  /\ Got = n
  /\ Chan!Close
  /\ phase' = "done"
  /\ UNCHANGED <<n, workers, skipped, i, pts, busy, slots>>

MapNext ==
  \/ Call1 \/ Launch \/ LaunchFails \/ RunInline \/ JoinAll \/ CollectOne \/ NoSlots \/ Finish
  \/ \E k \in Item : WorkerSends(k)

MapSpec == MapInit /\ [][MapNext]_mapVars

\* The caller runs; threads run and the closures return.
MapFairSpec ==
  /\ MapSpec
  /\ WF_mapVars(Launch \/ LaunchFails \/ RunInline \/ JoinAll \/ CollectOne \/ Finish)
  /\ \A k \in Item : WF_mapVars(WorkerSends(k))

(***************************************************************************)
(* Properties.                                                             *)
(***************************************************************************)
\* A send finds room: the channel was made with capacity n and never holds more
\* than n results, so neither the inline items nor the joined threads block.
SendsFindRoom == Len(accepted) - Len(taken) <= n

\* The handles of the launched threads fit the array pts[64], for every worker
\* count the caller may pass.
HandlesFit == Len(pts) <= PtsLen

\* "order preserved": slot k holds the result of item k whatever order the
\* threads finish in, and none is missing when the call returns.
OrderPreserved ==
  /\ \A k \in 0..(n - 1) : slots[k] \in {-1, k}
  /\ phase = "done" => \A k \in 0..(n - 1) : slots[k] = k

\* No thread is left running when the results are collected.
NoneLeftBehind == phase \notin {"before", "launch"} => busy = {}

\* The call returns, unless an item was skipped: for that one no result is ever
\* sent, and the loop that collects n results waits for it.
Terminates == phase = "launch" ~> (phase \in {"done", "empty"} \/ skipped # {})

\* Results land where they belong, sends and handles find room, threads are joined first
\* (thr_parallel_map).
ResultsInPlace == OrderPreserved /\ SendsFindRoom /\ HandlesFit /\ NoneLeftBehind
=============================================================================
