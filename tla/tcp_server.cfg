SPECIFICATION Spec
CONSTANTS
  Addrs = {a1, a2}
  Conns = {c1, c2}
  MaxNum = 3
  MaxCalls = 5
CHECK_DEADLOCK FALSE
INVARIANT NumbersAreOwn
PROPERTY BindAllOrNothing
 
