CONSTANTS
  Capacity = 2
  d1 = d1
  d2 = d2
  card1 = card1
  Digests = {}
  Cards = {card1}
  NoCard = NoCard
  NoBlob = NoBlob
  InitialCards <- BlankCards
  InitialLegacy <- NewDevice
  WorkerFlushes = TRUE
  MaxSessions = 2
  MaxChanges = 2
  MaxFaults = 1
  MaxReadFaults = 0
  MaxToggles = 3
  MaxCrashes = 1
  MaxClears = 1
SPECIFICATION FairSpec
CHECK_DEADLOCK FALSE
INVARIANTS LineageHasOneEpoch
PROPERTIES AuthorityFencesCards EventuallySaved
