CONSTANTS
  Goroutine = {g1, g2}
  Worker = {w1, w2}
  NoGoroutine = NoGoroutine
  NoWorker = NoWorker
  Delay = {0, 1}
  MaxTime = 2
SPECIFICATION Spec
INVARIANTS ExecutedOnce CurrentIsSelf
PROPERTIES ImplementsContract SleepersInOrder BlockedGoroutineRuns
CHECK_DEADLOCK FALSE
