SPECIFICATION ProcessSpec
CONSTANTS
  PortRange = 65536
  IntervalRange = 65536
  DefaultInterval = 5000
  Numbers = {1, 5671, 5672}
  Arguments <- MCArguments
  MaxArguments = 3
  EnvLines <- MCEnvLines
  MaxLines = 2
  Documents <- MCDocuments
  Inherited <- MCInherited
  Unset = Unset
  Followed <- MCFollowed
  Handlers = {"LibEvHandler", "LibUvHandler", "LibEventHandler", "LibBoostAsioHandler"}
  Connections = {c1, c2}
  Fds = {f1, f2}
  Nobody = Nobody
  MaxMade = 2
  MaxOperations = 4
SYMMETRY Alike
INVARIANTS
  TypeOK
  CredentialsArrive
  IntervalNeverBusy
  FirstPathCounts
  AddressReadsBack
  NothingUnwatched
PROPERTIES
  Monitors
CHECK_DEADLOCK FALSE
