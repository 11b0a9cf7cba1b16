SPECIFICATION Spec
CONSTANTS
  Call = {call}
  MinKeep = 2
  KeepRecent = 2
  CallLists <- SomeCalls
  NoteSizes = {5}
  LabelLen = 1
  MemoryMax = 18
  WriteErrors = {"torn", "unended", "refused"}
  MaxLines = 7
  MaxFaults = 2
CHECK_DEADLOCK FALSE
INVARIANTS
  LoadsWhatIsLive
  LoadsWell
