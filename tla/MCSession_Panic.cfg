CONSTANTS
  PortMax = 3
  AcceptCap = 1
  ProxyCap = 1
  MaxConns = 2
  MaxBytes = 3
  DefaultChunk = 3
  NetCalls = {n1, n2}
  Flags <- MCFlags
  Direct <- MCDirect
  Callers <- MCCallers
  Requests <- MCRequests
  Chunks <- MCChunks
  NetArgs <- MCNetArgs
  BenchArgs <- MCBenchArgs
SPECIFICATION Spec
CHECK_DEADLOCK FALSE
INVARIANT PartialLineHeld
