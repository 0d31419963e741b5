\* Two workers, tasks for one of them or for any: stop() returns.
CONSTANTS
  Threads = {t1, t2}
  Fibers = {f1, f2, f3}
  None = None
  Ops = {"schedule", "yield", "handover"}
  Pins <- ThisOrAny
  MaxTasks = 2
SPECIFICATION FairSpec
PROPERTY StopJoins
CHECK_DEADLOCK FALSE
