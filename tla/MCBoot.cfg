CONSTANTS
  PortMax = 3
  AcceptCap = 1
  ProxyCap = 1
  MaxConns = 5
  Flags <- MCFlags
  Direct <- MCDirect
SPECIFICATION BootSpec
CHECK_DEADLOCK FALSE
PROPERTIES
  BootSettles
  DeliveredRouted
