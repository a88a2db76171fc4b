SPECIFICATION Spec
CONSTANTS
  Slots = 4
  MaxLen = 3
  BufLen = 2
  Bytes <- MCBytes
  Zero = 0
  Packets <- MCPackets
  NoPacket = NoPacket
  Writers <- TaskWriters
  Prio <- TaskPrio
  TimeSlicing = TRUE
PROPERTIES
  RefinesFifo
