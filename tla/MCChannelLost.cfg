CONSTANTS
  Sender = {s1, s2}
  Receiver = {r1, r2}
  Goroutine = {s1, s2, r1, r2}
  NoGoroutine = NoGoroutine
  Capacities = {0}
  Rounds = 2
SPECIFICATION Spec
PROPERTIES WokenByPush
CHECK_DEADLOCK FALSE
