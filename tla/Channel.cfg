\* A thread that sends, one that receives, one that does both; a channel of
\* capacity 0, 1 or 2.
CONSTANTS
  Sender = {s, b}
  Receiver = {r, b}
  Value = {v1, v2}
  Null = Null
  Capacity = {0, 1, 2}
  MaxSends = 4
SPECIFICATION LiveSpec
CHECK_DEADLOCK FALSE
INVARIANTS TypeOK NoIdleWaiter NoLostWakeup Backpressure ReturnedOnce
PROPERTIES Implements Progress
