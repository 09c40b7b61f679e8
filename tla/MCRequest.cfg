CONSTANTS
  File = {"f1", "f2"}
  Data = {"x"}
  MaxData = 2
  MaxParts = 2
  Requests <- MCRequests
  MaxHeader = 7
  MaxBody = 12
  MaxRead = 8
SPECIFICATION RequestSpec
INVARIANTS RequestTypeOK ParsedAsSent LimitsKept FilesAsSent NothingLeftBehind
PROPERTIES TasksExecuted
CHECK_DEADLOCK FALSE
