\* A second wait for the same event of a descriptor.
CONSTANTS
  Fibers = {f1, f2, f3}
  Fds = {d1}
  None = None
  Ops = {"schedule", "wait"}
  CtlResults = {TRUE}
  Errors = FALSE
  PipeCapacity = 8
  MaxOps = 3
SPECIFICATION Spec
INVARIANT ContextIsEmpty
CHECK_DEADLOCK FALSE
