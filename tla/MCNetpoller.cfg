CONSTANTS
  Goroutine = {g1, g2, g3}
  Fd = {f1, f2}
  Shareable = {f1}
  NoFd = NoFd
  NoGoroutine = NoGoroutine
SPECIFICATION Spec
INVARIANTS WaiterHasEvent
PROPERTIES ObeysContract WokenMeansReady EventWakesWaiter
CHECK_DEADLOCK FALSE
