CONSTANTS
  Main = Main
  A = A
  B = B
  Goroutine = {Main, A, B}
  NoGoroutine = NoGoroutine
  Last = 10
  Delta <- MCDelta
  MaxCounter = 2
SPECIFICATION PrintSpec
INVARIANTS NumbersInOrder AnsweredAfterAll
PROPERTIES RequestAnswered
CHECK_DEADLOCK FALSE
