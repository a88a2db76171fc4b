SPECIFICATION FairSpec
CONSTANTS
  Slots = 4
  MaxLen = 3
  BufLen = 2
  Bytes <- MCBytes
  Zero = 0
  Packets <- MCPackets
  NoPacket = NoPacket
  Writers <- DocWriters
  Prio <- DocPrio
  TimeSlicing = FALSE
INVARIANTS
  TypeOK
  NoSlotRace
PROPERTIES
  RefinesFifo
  Drains
