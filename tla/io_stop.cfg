\* stop() returns when nobody uses cancelAll and the pipe never fills up.
CONSTANTS
  Fibers = {f1, f2, f3, f4, f5}
  Fds = {d1}
  None = None
  Ops = {"schedule", "timer", "eventcb", "del", "cancel", "wait", "sleep", "yield", "restart"}
  CtlResults = {TRUE}
  Errors = TRUE
  PipeCapacity = 8
  MaxOps = 4
SPECIFICATION FairSpec
PROPERTY StopReturns
CHECK_DEADLOCK FALSE
