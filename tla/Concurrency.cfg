\* Three threads on a mutex table, four at a barrier for three, a pool of two workers, a
\* map of up to five items, an event loop with one request and two descriptors.
CONSTANTS
  Locker = {t1, t2, t3}
  InitCap = 2
  MaxNew = 3
  MoveUnderUse = FALSE
  Waiter = {t1, t2, t3, t4}
  Need = 3
  MaxRound = 3
  MoveUnderWaiters = FALSE
  Client = c
  Worker = {w1, w2}
  Null = Null
  MaxJobs = 4
  DocScript = FALSE
  MaxItems = 5
  DefaultWorkers = 3
  PtsLen = 4
  Handles = {3, 4}
  Gets = {"g"}
  MaxConns = 2
  SelfClosing = FALSE
  Cancels = {1, 2}
SPECIFICATION ConSpec
CHECK_DEADLOCK FALSE
INVARIANTS
  TypesOK Exclusive RoundsApart JobsKept ResultsInPlace WatchersLive
PROPERTIES
  CancelledSilent EveryoneReleased WorkersExit Terminates GetEnds
