SPECIFICATION FairSpec
CONSTANTS
  Agent = {a1, a2, a3, a4}
  MaxConcurrent = 2
INVARIANTS
  OverrunBounded
  CountsBusy
  Fifo
PROPERTIES
  EveryAgentEnds
CHECK_DEADLOCK FALSE
