SPECIFICATION Spec
CONSTANTS
  EntryRange = 2
  Whitelist <- MCWhitelist
  Params <- MCParams
  Live <- MCLive
  Values <- MCValues
  MonDefs <- MCMonDefs
  EaDefs <- MCEaDefs
  SetArgs <- MCSetArgs
  Tcs <- MCTcs
  Triggers <- MCTriggers
  MonCapacity = 2
  EaCapacity = 2
  QueueLen = 2
  MaxReleased = 1
  StoreCap = 4
INVARIANTS
  TypeOK
  OneDefinitionEach
  DisabledMeansIdle
  TriggerEntersSafe
PROPERTIES
  ReconfiguredOnlyInNominal
