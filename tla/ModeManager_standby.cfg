SPECIFICATION Spec
CONSTANTS
  EntryRange = 4
  Whitelist = {}
  Timeout = 3
INVARIANTS
  StandbyRequestEntersStandby
