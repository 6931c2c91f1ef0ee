\* A null handed to a blocked receiver.
CONSTANTS
  Sender = {t1, t2}
  Receiver = {t1, t2}
  Value = {v1}
  Null = Null
  Capacity = {0}
  MaxSends = 2
SPECIFICATION Spec
CHECK_DEADLOCK FALSE
INVARIANTS NullReturned
