\* The host simulator: telecommands and ticks in one thread.
SPECIFICATION Spec
CONSTANTS
  SetCap = 3
  PoolLen = 3
  MaxParams = 2
  Params <- MCParams
  BootSets <- MCBootSets
  Requests <- MCRequests
  Interleaved = FALSE
  None = None
  a = a
  b = b
  c = c
  h = h
  unknown = unknown
  Intervals = {0, 2}
INVARIANTS TypeOK PoolPacked
PROPERTY RefinesHkSets
