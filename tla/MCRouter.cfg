CONSTANTS
  Path <- MCPath
  AskedPath <- MCAsked
  Suffix <- MCSuffix
  Method = {"GET", "POST"}
  Added = {"logger"}
  MaxCalls = 3
SPECIFICATION RouterSpec
INVARIANTS RouterTypeOK RouteAndParams ChainExists
CHECK_DEADLOCK FALSE
