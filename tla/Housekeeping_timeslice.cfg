\* The FreeRTOS build: a time slice may end in the middle of a tick.
SPECIFICATION Spec
CONSTANTS
  SetCap = 3
  PoolLen = 3
  MaxParams = 2
  Params <- MCParams
  BootSets <- MCBootSets
  Requests <- MCRequests
  Interleaved = TRUE
  None = None
  a = a
  b = b
  c = c
  h = h
  unknown = unknown
  Intervals = {1}
INVARIANT ReportIsOneSet
