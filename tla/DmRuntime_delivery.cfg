CONSTANTS
  Capacity = 2
  Digests = {}
  MaxSessions = 2
  MaxStoreFaults = 1
  MaxRadioFaults = 1
  MaxReplies = 1
  MaxCrashes = 1
  MaxClears = 1
SPECIFICATION Spec
INVARIANTS TypeOK OperationIsOwned OwnerTracksRow SavedBeforeSendOnCard
  OpenRowsAreOwned AttemptsSentOnce AckCreditedOnceSaved
PROPERTY KeepsPromise
