CONSTANTS
  Middleware <- MCMiddleware
  MaxLen = 4
SPECIFICATION Spec
INVARIANTS EachHandlerOnce AnsweredOnce
PROPERTIES AbortStopsChain EventuallyAnswered
CHECK_DEADLOCK FALSE
