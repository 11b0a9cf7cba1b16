SPECIFICATION Spec
CONSTANTS
  Call <- GatedPlainNoId
  MinKeep = 1
  KeepRecent = 1
  Models = {m1, m2}
  Hosts = {"none", "callback"}
  MaxRetries = 1
  MaxContinuations = 1
  MayCompact = TRUE
  MaxRequests = 4
  MaxCalls = 2
CHECK_DEADLOCK FALSE
INVARIANTS
  SoundRequests
  Unorphaned
PROPERTIES
  ExecutionAuthorised
