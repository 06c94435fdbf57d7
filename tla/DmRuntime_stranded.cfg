CONSTANTS
  Capacity = 2
  Digests = {}
  MaxSessions = 1
  MaxStoreFaults = 0
  MaxRadioFaults = 0
  MaxReplies = 0
  MaxCrashes = 0
  MaxClears = 1
SPECIFICATION FairSpec
PROPERTY LastAttemptTerminates
