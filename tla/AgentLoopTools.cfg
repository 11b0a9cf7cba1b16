SPECIFICATION Spec
CONSTANTS
  Call <- GatedSafe
  MinKeep = 1
  KeepRecent = 1
  Models = {m1}
  Hosts = {"tui"}
  MaxRetries = 1
  MaxContinuations = 1
  MayCompact = TRUE
  MaxRequests = 4
  MaxCalls = 2
CHECK_DEADLOCK FALSE
INVARIANTS
  TypeOK
  OwnsNothing
  ResultsInOrder
  StartedOnce
  GrantIsSpent
PROPERTIES
  ExecutionAuthorised
  NoReplayAfterOutput
  CancelReachesRequest
  ImplementsTurn
