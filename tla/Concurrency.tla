---------------------------- MODULE Concurrency ----------------------------
(***************************************************************************)
(* What threads share besides channels, and the event loop, checked in one *)
(* run: the mutex table, a barrier, a worker pool, thr_parallel_map and    *)
(* lib/async.  None of them touches another's records, so a behaviour is   *)
(* of one of them; the others rest where they start.                       *)
(***************************************************************************)
EXTENDS MutexTable, Barrier, Pool, ParallelMap, Loop

VARIABLE part       \* the component the behaviour is of

conVars == <<mutexVars, barrierVars, poolVars, mapVars, loopVars, part>>

ConInit ==
  /\ part \in {"mutex", "barrier", "pool", "map", "loop"}
  /\ MutexInit /\ BarrierInit /\ PoolInit /\ MapInit
  /\ LoopInit /\ (part # "loop" => ~ loop.timers[1].every)

ConNext ==
  /\ UNCHANGED part
  /\ \/ part = "mutex"   /\ MutexNext   /\ UNCHANGED <<barrierVars, poolVars, mapVars, loopVars>>
     \/ part = "barrier" /\ BarrierNext /\ UNCHANGED <<mutexVars, poolVars, mapVars, loopVars>>
     \/ part = "pool"    /\ PoolNext    /\ UNCHANGED <<mutexVars, barrierVars, mapVars, loopVars>>
     \/ part = "map"     /\ MapNext     /\ UNCHANGED <<mutexVars, barrierVars, poolVars, loopVars>>
     \/ part = "loop"    /\ LoopNext    /\ UNCHANGED <<mutexVars, barrierVars, poolVars, mapVars>>

\* The fairness of each component, in the behaviours that are of it.
ConFairness ==
  /\ \A t \in Waiter : WF_barrierVars(part = "barrier" /\ Leave(t))
  /\ \A w \in Worker : WF_poolVars(part = "pool" /\ WorkerStep(w))
  /\ WF_poolVars(part = "pool" /\ SubmitReturns)
  /\ WF_poolVars(part = "pool" /\ WaitOneReturns)
  /\ WF_poolVars(part = "pool" /\ WaitOne)
  /\ WF_mapVars(part = "map" /\ (Launch \/ LaunchFails \/ RunInline \/ JoinAll \/ CollectOne \/ Finish))
  /\ \A k \in Item : WF_mapVars(part = "map" /\ WorkerSends(k))
  /\ WF_loopVars(part = "loop" /\ TickStep)
  /\ \A id \in TimerIds : WF_loopVars(part = "loop" /\ TimePasses(id))

ConSpec == ConInit /\ [][ConNext]_conVars /\ ConFairness

(***************************************************************************)
(* Properties.                                                             *)
(***************************************************************************)
\* Every variable of the four thread components has its type (the records of hphp_thr.c
\* and of Pool).
TypesOK == MutexTypeOK /\ BarrierTypeOK /\ PoolTypeOK
=============================================================================
