CONSTANTS
  Capacity = 2
  d1 = d1
  d2 = d2
  card1 = card1
  Digests = {}
  Cards = {card1}
  NoCard = NoCard
  NoBlob = NoBlob
  InitialCards <- BlankCards
  InitialLegacy <- NewDevice
  WorkerFlushes = TRUE
  MaxSessions = 1
  MaxChanges = 6
  MaxFaults = 0
  MaxReadFaults = 0
  MaxToggles = 0
  MaxCrashes = 0
  MaxClears = 0
SPECIFICATION Spec
CHECK_DEADLOCK FALSE
INVARIANTS PublicAckDurable
