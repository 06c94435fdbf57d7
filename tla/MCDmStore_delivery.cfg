CONSTANTS
  Capacity = 2
  d1 = d1
  d2 = d2
  card1 = card1
  Digests = {}
  Cards = {card1}
  NoCard = NoCard
  NoBlob = NoBlob
  InitialCards <- BlankCards
  InitialLegacy <- NewDevice
  WorkerFlushes = TRUE
  MaxSessions = 1
  MaxChanges = 6
  MaxFaults = 1
  MaxReadFaults = 0
  MaxToggles = 3
  MaxCrashes = 1
  MaxClears = 0
SPECIFICATION Spec
CHECK_DEADLOCK FALSE
INVARIANTS TypeOK SdCleanMeansSaved PromiseKept
PROPERTY AckShownOnceSaved
