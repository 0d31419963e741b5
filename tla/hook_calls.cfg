\* Two fibres, two numbers, every call.
CONSTANTS
  Fibers = {f1, f2}
  Nums = {3, 4}
  None = None
  Ops <- AllOps
  MaxCalls = 4
SPECIFICATION FairSpec
INVARIANTS TypeOK TableFollowsFiles ThreadNeverBlocks UserSeesOwnFlag
           NoTimerOutlivesCall EventsHaveWaiters ConnectTellsTruth
PROPERTY TimedCallReturns
CHECK_DEADLOCK FALSE
