CONSTANTS
  Goroutine = {g1, g2, g3}
  Delta <- MCDelta
  MaxCounter = 2
SPECIFICATION Spec
INVARIANT NobodyForgotten
PROPERTIES ObeysContract WaitSpansZero ZeroWakesWaiters
CHECK_DEADLOCK FALSE
