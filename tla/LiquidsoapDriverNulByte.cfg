SPECIFICATION FairSpec
CONSTANTS
  Transports = {"socket"}
  Addresses = 2
  Bodies <- NulBodies
  ChunkMax = 2
  MaxResponse = 2
  InitialBackoff = 2
  ResetBackoff = 1
  MaxBackoff = 4
  MaxCalls = 1
PROPERTIES
  ExecuteReturns
CHECK_DEADLOCK FALSE
