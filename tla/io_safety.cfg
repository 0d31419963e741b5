\* Every operation, failing epoll_ctl and error events included.
CONSTANTS
  Fibers = {f1, f2, f3, f4}
  Fds = {d1, d2}
  None = None
  Ops <- AllOps
  CtlResults = {TRUE, FALSE}
  Errors = TRUE
  PipeCapacity = 2
  MaxOps = 6
SPECIFICATION Spec
SYMMETRY FiberSymmetry
INVARIANTS TypeOK PendingCoversRegistered ResumedOnce StoppedMeansDone
CHECK_DEADLOCK FALSE
