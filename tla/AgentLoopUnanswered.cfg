SPECIFICATION Spec
CONSTANTS
  Call <- SafeOnly
  MinKeep = 1
  KeepRecent = 1
  Models = {m1}
  Hosts = {"callback"}
  MaxRetries = 1
  MaxContinuations = 1
  MayCompact = FALSE
  MaxRequests = 3
  MaxCalls = 1
CHECK_DEADLOCK FALSE
INVARIANTS
  AnsweredAlways
