-------------------------------- MODULE Pool -------------------------------
(***************************************************************************)
(* The Pool class of lib/thread/thread.hphp in streaming use: start(),     *)
(* submit(), collect(), waitOne(), shutdown() and the worker loop, over    *)
(* two rendezvous channels of the runtime.  Both channels are instances of *)
(* Channel: a pool step is a channel step of the thread that makes it,     *)
(* and the rest of that thread's state.                                    *)
(***************************************************************************)
EXTENDS Integers, Sequences, FiniteSets

CONSTANTS
  Client,        \* the thread that owns the pool
  Worker,        \* the threads start() spawns
  Null,          \* HV_NULL
  MaxJobs,       \* bound: calls of submit()
  DocScript      \* does the client start(), then submit all jobs, then collect?

ASSUME PoolAssumption ==
  /\ MaxJobs \in Nat
  /\ DocScript \in BOOLEAN
  /\ IsFiniteSet(Worker) /\ Client \notin Worker
  /\ Null \notin 0..(MaxJobs - 1)

Job == 0..(MaxJobs - 1)

VARIABLES
  tch, twt, thist,   \* taskCh
  rch, rwt, rhist,   \* resultCh
  running, jobseq,   \* the fields of the Pool
  worker             \* worker[w]: where the worker loop is, and its task

tvars == <<tch, twt, thist>>
rvars == <<rch, rwt, rhist>>
poolVars == <<tch, twt, thist, rch, rwt, rhist, running, jobseq, worker>>

Task == INSTANCE Channel WITH
  ch <- tch, wt <- twt, hist <- thist,
  Sender <- {Client}, Receiver <- Worker, Value <- Job, Capacity <- {0}, MaxSends <- MaxJobs

Result == INSTANCE Channel WITH
  ch <- rch, wt <- rwt, hist <- rhist,
  Sender <- Worker, Receiver <- {Client}, Value <- Job, Capacity <- {0}, MaxSends <- MaxJobs

Off == [at |-> "off", task |-> Null]
Taking == [at |-> "take", task |-> Null]     \* in, or about to call, chan_recv($tch)
Exited == [at |-> "exit", task |-> Null]
Has(j) == [at |-> "run", task |-> j]         \* in the callback
Putting(j) == [at |-> "put", task |-> j]     \* in, or about to call, chan_send($rch)

(* Operators named Slip* are plausible mistakes in the definition that     *)
(* follows them; no specification uses them.                               *)

\* __construct
PoolInit ==
  /\ Task!Init
  /\ Result!Init
  /\ running = FALSE
  /\ jobseq = 0
  /\ worker = [w \in Worker |-> Off]

(***************************************************************************)
(* The client.                                                             *)
(***************************************************************************)
ClientReady == Task!Idle(Client) /\ Result!Idle(Client)

\* start(): fresh workers.  The threads of an earlier start() are gone by now;
\* the channel they read from is still closed.
Start ==
  /\ ClientReady
  /\ ~running
  /\ \A w \in Worker : worker[w] \in {Off, Exited}
  /\ running' = TRUE
  /\ worker' = [w \in Worker |-> Taking]
  /\ UNCHANGED <<tvars, rvars, jobseq>>

MaySubmit == ClientReady /\ jobseq < MaxJobs /\ (DocScript => running)

\* submit(): the id is taken before the send, which throws after shutdown().
Submit ==
  /\ MaySubmit
  /\ \/ Task!Send(Client, jobseq)
     \/ tch.closed /\ Task!SendRefused(Client)
  /\ jobseq' = jobseq + 1
  /\ UNCHANGED <<rvars, running, worker>>

SubmitReturns ==
  /\ Task!SendWake(Client)
  /\ UNCHANGED <<rvars, running, jobseq, worker>>

MayCollect == ClientReady /\ (DocScript => jobseq = MaxJobs)

\* collect() and waitOne()
Collect ==
  /\ MayCollect
  /\ Result!TryRecv(Client)
  /\ UNCHANGED <<tvars, running, jobseq, worker>>

WaitOne ==
  /\ MayCollect
  /\ Result!Recv(Client)
  /\ UNCHANGED <<tvars, running, jobseq, worker>>

WaitOneReturns ==
  /\ Result!RecvWake(Client)
  /\ UNCHANGED <<tvars, running, jobseq, worker>>

SlipForgetClose ==
  /\ MayCollect
  /\ running
  /\ running' = FALSE
  /\ UNCHANGED <<tvars, rvars, jobseq, worker>>

Shutdown ==
  /\ MayCollect
  /\ running
  /\ Task!Close(Client)
  /\ running' = FALSE
  /\ UNCHANGED <<rvars, jobseq, worker>>

(***************************************************************************)
(* The worker loop.                                                        *)
(***************************************************************************)
\* chan_recv($tch) on entry: a waiting submit() hands its task over, a closed
\* channel ends the loop, else the worker sleeps.
WorkerTake(w) ==
  /\ worker[w] = Taking
  /\ Task!Recv(w)
  /\ worker' = [worker EXCEPT ![w] =
                  IF tch.sendq # <<>> THEN Has(twt[Head(tch.sendq)].value)
                  ELSE IF tch.closed THEN Exited ELSE Taking]
  /\ UNCHANGED <<rvars, running, jobseq>>

\* The sleeping worker wakes up with a task, or to find the channel closed.
WorkerTakeReturns(w) ==
  /\ Task!RecvWake(w) \/ Task!RecvWakeNull(w)
  /\ worker' = [worker EXCEPT ![w] = IF twt[w].value # Null THEN Has(twt[w].value)
                                     ELSE Exited]
  /\ UNCHANGED <<rvars, running, jobseq>>

\* The callback returns.
WorkerRun(w) ==
  /\ worker[w].at = "run"
  /\ worker' = [worker EXCEPT ![w] = Putting(worker[w].task)]
  /\ UNCHANGED <<tvars, rvars, running, jobseq>>

SlipDropWhenBusy(w) ==
  /\ worker[w].at = "put"
  /\ \/ Result!SendHandoff(w, worker[w].task)
     \/ rch.recvq = <<>> /\ Result!SendRefused(w)
  /\ worker' = [worker EXCEPT ![w] = Taking]
  /\ UNCHANGED <<tvars, running, jobseq>>

\* chan_send($rch): returns at once when the client waits, else the worker sleeps.
WorkerPut(w) ==
  /\ worker[w].at = "put"
  /\ Result!Send(w, worker[w].task)
  /\ worker' = [worker EXCEPT ![w] = IF rwt'[w].op = "send" THEN @ ELSE Taking]
  /\ UNCHANGED <<tvars, running, jobseq>>

WorkerPutReturns(w) ==
  /\ Result!SendWake(w)
  /\ worker' = [worker EXCEPT ![w] = Taking]
  /\ UNCHANGED <<tvars, running, jobseq>>

(***************************************************************************)
(* Specification.                                                          *)
(***************************************************************************)
ClientStep ==
  Start \/ Submit \/ SubmitReturns \/ Collect \/ WaitOne \/ WaitOneReturns \/ Shutdown

WorkerStep(w) ==
  \/ WorkerTake(w) \/ WorkerTakeReturns(w) \/ WorkerRun(w)
  \/ WorkerPut(w) \/ WorkerPutReturns(w)

PoolNext == ClientStep \/ \E w \in Worker : WorkerStep(w)

PoolSpec == PoolInit /\ [][PoolNext]_poolVars

\* Threads that can run do run; a blocked call whose handshake is complete returns.
PoolFairSpec ==
  /\ PoolSpec
  /\ \A w \in Worker : WF_poolVars(WorkerStep(w))
  /\ WF_poolVars(SubmitReturns) /\ WF_poolVars(WaitOneReturns)

\* The client, on top, goes on collecting for ever.
CollectingSpec == PoolFairSpec /\ WF_poolVars(WaitOne)

\* The client follows the script of docs/lib-thread.html: start, submit every
\* job, then collect.
ScriptSpec == PoolFairSpec /\ WF_poolVars(Start) /\ WF_poolVars(Submit)

(***************************************************************************)
(* Properties.                                                             *)
(***************************************************************************)
\* Every variable has its type.
PoolTypeOK ==
  /\ Task!TypeOK
  /\ Result!TypeOK
  /\ running \in BOOLEAN
  /\ jobseq \in 0..MaxJobs
  /\ worker \in [Worker -> {Off, Taking, Exited} \cup {Has(j) : j \in Job}
                                                 \cup {Putting(j) : j \in Job}]

\* The places a job can be in once a channel has accepted it.
InTaskChannel(j) == {t \in Task!Thread : twt[t].value = j /\ (twt[t].op = "send" => ~twt[t].done)}
InWorker(j) == {w \in Worker : worker[w].task = j /\ Result!Idle(w)}
InResultChannel(j) ==
  {t \in Result!Thread : rwt[t].value = j /\ (rwt[t].op = "send" => ~rwt[t].done)}

\* A job that submit() got rid of is in exactly one place: still in the task
\* channel, with one worker, in the result channel, or collected; so its
\* result is collected at most once and is never lost on the way.
JobInOnePlace ==
  \A j \in Job :
    Cardinality(InTaskChannel(j)) + Cardinality(InWorker(j))
      + Cardinality(InResultChannel(j)) + rhist.returned[j]
    = Cardinality({i \in DOMAIN thist.accepted : thist.accepted[i] = j})

\* Job ids are fresh: no id is submitted twice.
JobIdsFresh ==
  \A i, k \in DOMAIN thist.accepted : thist.accepted[i] = thist.accepted[k] => i = k

\* "rendezvous: real backpressure": the jobs that submit() has accepted and
\* nobody has collected are never more than the workers plus the one submit()
\* is still blocked with.
PoolBackpressure ==
  Len(thist.accepted) - Len(rhist.taken) <= Cardinality(Worker) + 1

\* shutdown() says "workers drain and exit": after it every worker comes back from
\* its receive, delivers what it still has and ends.
WorkersExit ==
  \A w \in Worker : (~running /\ worker[w] # Off) ~> worker[w] = Exited

\* The script of the documentation gets through its submit() loop.
ScriptSubmitsAll == <>(jobseq = MaxJobs /\ ClientReady)

\* Jobs are submitted once, held in one place and no more of them than the pool can hold
\* (submit, the worker loop, collect).
JobsKept == JobInOnePlace /\ JobIdsFresh /\ PoolBackpressure
=============================================================================
