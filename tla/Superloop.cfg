SPECIFICATION Spec
CONSTANTS
  EntryRange = 1
  Whitelist <- MCWhitelist
  FineUnits = 3
  Millis = 2
  CoarseRange = 2
  StoreCap = 3
  Bytes = {0, 1}
  Cells = {0, 1, 2, 3}
  Addresses = {0, 1, 2, 3}
  Regions <- MCRegions
  MaxDump = 1
  Crc <- MCCrc
  Params = {"uptime"}
  Values = {0, 1}
  HkInterval = 2
  HkSet = 1
  Builds = {"zynqmp", "msp430", "stm32", "sim"}
  Tcs <- MCTcs
  Dts = {1, 2}
  Oversize <- MCOversize
  LoopsPerTick = 2
  WdTimeout = 2
  Uptime = "uptime"
INVARIANTS
  TypeOK
  AnsweredIfStoreEmpty
  ClockExact
PROPERTIES
  RefusedHasNoEffect
  LoadStaysInRegion
  RetryFindsRoom
