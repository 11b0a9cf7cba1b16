SPECIFICATION FairSpec
CONSTANTS
  OtherLoops = TRUE
  OutputCap = 1
  PipeSize = 1
  MaxWritten = 1
INVARIANT OutputComplete
INVARIANT GraceGiven
INVARIANT NothingLeft
PROPERTY CommandEnds
CHECK_DEADLOCK FALSE
