CONSTANTS
  Capacity = 2
  Digests = {}
  MaxSessions = 1
  MaxStoreFaults = 1
  MaxRadioFaults = 1
  MaxReplies = 1
  MaxCrashes = 1
  MaxClears = 1
SPECIFICATION FairSpec
PROPERTIES DeliveryEnds RadioReleased
