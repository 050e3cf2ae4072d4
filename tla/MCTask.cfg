CONSTANTS
  stdout = stdout
  stderr = stderr
  Streams = {stdout}
  Statuses = {0, 1}
  PipeCap = 1
  Window = 1
  MaxChunks = 2
  MaxCalls = 3
  WaitError = WaitError
  None = None
SPECIFICATION FairSpec
CHECK_DEADLOCK FALSE
INVARIANTS
  TypeOK
  DoneIsComplete
  ExitTruthful
  UnmountAfterExit
PROPERTIES
  KeepsPromise
  CallsAnswered
  PumpsEnd
