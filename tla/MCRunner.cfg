CONSTANTS
  AcceptCap = 1
  ProxyCap = 1
  MaxConns = 4
  ClientDrains = TRUE
  NoConn = NoConn
SPECIFICATION FairSpec
CHECK_DEADLOCK FALSE
INVARIANTS
  TypeOK
  RoutedInOrder
  ExitReportOrder
  LockCoversRun
  ReleasedOnce
PROPERTIES
  ShutdownReported
  CancelEnds
