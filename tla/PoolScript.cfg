\* The client script of docs/lib-thread.html: submit everything, then collect.
CONSTANTS
  Client = c
  Worker = {w1, w2}
  Null = Null
  MaxJobs = 3
  DocScript = TRUE
SPECIFICATION ScriptSpec
CHECK_DEADLOCK FALSE
PROPERTY ScriptSubmitsAll
