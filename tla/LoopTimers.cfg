\* Two requests over two descriptors, of a program that cancels no timer itself.
CONSTANTS
  Handles = {3, 4}
  Gets = {"g", "h"}
  MaxConns = 2
  SelfClosing = FALSE
  Cancels = {}
SPECIFICATION LoopSpec
CHECK_DEADLOCK FALSE
PROPERTY CompletionReported
