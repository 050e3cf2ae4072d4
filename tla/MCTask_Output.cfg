CONSTANTS
  stdout = stdout
  stderr = stderr
  Streams <- MCStreams
  Statuses = {0, 1}
  PipeCap = 1
  Window = 1
  MaxChunks = 2
  MaxCalls = 2
  WaitError = WaitError
  None = None
SPECIFICATION Spec
SYMMETRY MCSymmetry
CHECK_DEADLOCK FALSE
INVARIANT OutputBeforeExitCode
