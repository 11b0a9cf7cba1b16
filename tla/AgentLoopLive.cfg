SPECIFICATION FairSpec
CONSTANTS
  Call <- GatedSafe
  MinKeep = 1
  KeepRecent = 1
  Models = {m1}
  Hosts = {"tui"}
  MaxRetries = 1
  MaxContinuations = 1
  MayCompact = TRUE
  MaxRequests = 3
  MaxCalls = 2
CHECK_DEADLOCK FALSE
PROPERTIES
  CancelEndsTurn
  DecisionActedOn
  ModelWaitEnds
