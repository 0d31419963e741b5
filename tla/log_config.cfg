\* 3 loads of eight configurations of two loggers, against 2 threads with 4 events;
\* apart from them 5 calls on variables of two names and types.
SPECIFICATION Spec
CONSTANTS
  VarNames <- MCVarNames
  LowerName <- MCLowerName
  LogNames <- MCLogNames
  Made <- MCMade
  Default <- MCDefault
  Yamls <- MCYamls
  Types = {int, float}
  Values = {1, 2, 3}
  Refused = Refused
  NoVar = NoVar
  NoLogger = NoLogger
  Root = "root"
  Threads = {t1, t2}
  EventLevels = {2, 4}
  MaxSteps = 5
  MaxLoads = 3
  MaxLogs = 4
CONSTRAINT MCBound
INVARIANT
  LoggersFollowConfig
  LoadTakesEffect
PROPERTY
  ListenersSeeEveryChange
CHECK_DEADLOCK FALSE
