CONSTANTS
  Sender = {s1, s2}
  Receiver = {r1, r2}
  Goroutine = {s1, s2, r1, r2}
  NoGoroutine = NoGoroutine
  Capacities = {0, 1, 2}
  Rounds = 2
SPECIFICATION ContextSpec
INVARIANTS WakeUpsMatch FirstInFirstOut OneSignal
PROPERTIES ObeysContract CallsReturn
CHECK_DEADLOCK FALSE
