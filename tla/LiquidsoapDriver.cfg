SPECIFICATION FairSpec
CONSTANTS
  Transports = {"telnet", "socket", "longpath"}
  Addresses = 2
  Bodies <- CleanBodies
  ChunkMax = 2
  MaxResponse = 2
  InitialBackoff = 2
  ResetBackoff = 1
  MaxBackoff = 4
  MaxCalls = 3
INVARIANTS
  TypeOK
  OwnReply
  QuietBetweenCalls
  ErrorDropsConnection
  ResponseBounded
PROPERTIES
  KeepsPromise
  ExecuteReturns
CHECK_DEADLOCK FALSE
