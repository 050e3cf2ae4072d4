CONSTANTS
  AcceptCap = 1
  ProxyCap = 1
  MaxConns = 5
  ClientDrains = FALSE
  NoConn = NoConn
SPECIFICATION FairSpec
CHECK_DEADLOCK FALSE
PROPERTY ShutdownReported
