\* A silent handler, a wall clock that may be set back, now_timer at any free
\* address, and a period longer than the largest int.
CONSTANTS
  Timers = {1, 3}
  Addresses = {0, 1, 2, 3, 4}
  Periods = {1, 3}
  MaxTimeout = 1
  IntMax = 2
  UserHorizon = 1
  ClockHorizon = 3
  MaxStepBacks = 1
  MaxBacklog = 1
SPECIFICATION FairSpec
INVARIANTS TypeOK ArmedIffInSet StartRemembered CancelledOneShotNeverRuns
           
PROPERTIES CollectsExactlyTheDue DueIsCollected
