CONSTANTS
  console = console
  other = other
  none = none
  w = w
  Tasks <- TheTasks
  CallsOf <- TheCalls
  Worker = w
  NoTask = none
  StoreCount = 2
  QueueLength = 1
  MaxCalls = 2
  MaxChanges = 1
  MaxFaults = 1
  Callers <- TheTasks
  SlotCount = 1
  QueueDepth = 1
  MaxRequests = 3
SPECIFICATION FairSpec
CHECK_DEADLOCK FALSE
INVARIANTS TasksTypeOK OwnerIsUndisturbed NothingLeftBehind
  ToldTheTruth NothingLeaks SlotHasItsCaller
PROPERTIES ForcedOkMeansSaved CallsReturn DirtyIsSaved RequestsReturn
