CONSTANTS
  c1 = c1
  c2 = c2
  HistoryLength = 2
  RadioBurst = 1
  PriorityBurst = 1
  LaneDepth = 1
  MaxOperations = 3
  MaxAcksCounted = 2
  DomainCount = 2
  FenceCount = 2
  MaxGeneration = 2
  MaxFaults = 2
  MaxCuts = 1
  MaxSaves = 2
  Cards <- TheCards
  MaxPowerCuts = 3
  MaxIoErrors = 2
  MaxValues = 2
SPECIFICATION Spec
CHECK_DEADLOCK FALSE
SYMMETRY Interchangeable
INVARIANTS PartsTypeOK OutcomeIsTheRadios NormalIsNotStarved TerminalIsOnItsWay
  DeafRadioIsRemembered NothingOfAnEarlierLifetime ReadsTheLastCommit BootServesOrRefuses
PROPERTIES TerminalGoesFirst OnlyAnEraseForgets
