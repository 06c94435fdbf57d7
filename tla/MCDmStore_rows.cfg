CONSTANTS
  Capacity = 3
  d1 = d1
  d2 = d2
  card1 = card1
  Digests = {d1, d2}
  Cards = {card1}
  NoCard = NoCard
  NoBlob = NoBlob
  InitialCards <- MixedCards
  InitialLegacy <- OldFirmware
  WorkerFlushes = TRUE
  MaxSessions = 1
  MaxChanges = 2
  MaxFaults = 1
  MaxReadFaults = 0
  MaxToggles = 3
  MaxCrashes = 1
  MaxClears = 0
SPECIFICATION Spec
CHECK_DEADLOCK FALSE
INVARIANTS CopiesDecode
PROPERTIES CardsAdvance 
