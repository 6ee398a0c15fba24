SPECIFICATION FairSpec
CONSTANTS
  Pid = {p1, p2}
  Route = {r1, r2}
  NoRoute = NoRoute
  FrameBound = 2
INVARIANTS
  GrantedIsOwned
  StreamIsHandedOver
PROPERTY
  DeadOwnersLeave
CHECK_DEADLOCK FALSE
