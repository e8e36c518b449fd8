SPECIFICATION FairSpec
CONSTANTS
  b1 = b1
  b2 = b2
  i1 = i1
  i2 = i2
  None = None
  Branch <- MCBranch
  Invocation <- MCInvocation
  MaxEvents = 3
  MaxMishaps = 1
CHECK_DEADLOCK FALSE
INVARIANTS
  TypeOK
  RaisedIsReadable
  LockIsHeld
PROPERTIES
  RemovedIsGone
  FleetSpec
  NothingIsLeft
