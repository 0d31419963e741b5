\* Two workers, tasks that hand their own fibre over before they yield.
CONSTANTS
  Threads = {t1, t2}
  Fibers = {f1, f2, f3}
  None = None
  Ops = {"schedule", "yield", "handover"}
  Pins <- ThisOrAny
  MaxTasks = 3
SPECIFICATION Spec
SYMMETRY Symmetry
INVARIANT YieldAsserted
CHECK_DEADLOCK FALSE
