CONSTANTS
  Goroutine = {g1, g2, g3, g4}
  NoGoroutine = NoGoroutine
SPECIFICATION Spec
INVARIANT LockedIffOwned
PROPERTIES ObeysContract HandOverReachesAll
CHECK_DEADLOCK FALSE
