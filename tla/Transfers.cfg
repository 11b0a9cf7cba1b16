SPECIFICATION FairSpec
CONSTANTS
  Agents = {1, 2}
  Models = {m1}
  Sockets = {"s1"}
  MaxTransfers = 2
CHECK_DEADLOCK FALSE
INVARIANTS
  FinishedOnce
  NoDangling
PROPERTIES
  CancelsOwn
  EveryTransferEnds
