CONSTANTS
  Goroutine = {g1, g2, g3}
  Nobody = Nobody
  Size = 3
SPECIFICATION Spec
INVARIANTS OnePlace PooledIsIdle RowsAreOwn
CHECK_DEADLOCK FALSE
