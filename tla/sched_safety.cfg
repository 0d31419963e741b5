\* Two workers, tasks for one of them or for any, that schedule, yield, and hand
\* their fibre over before they yield.
CONSTANTS
  Threads = {t1, t2}
  Fibers = {f1, f2, f3}
  None = None
  Ops = {"schedule", "yield", "handover"}
  Pins <- ThisOrAny
  MaxTasks = 4
SPECIFICATION Spec
SYMMETRY Symmetry
INVARIANTS TypeOK JoinedMeansDone OneStack FiberAssertsHold
CHECK_DEADLOCK FALSE
