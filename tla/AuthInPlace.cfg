SPECIFICATION Spec
CONSTANTS
  Procs = {p1}
  Initially <- SignedIn
  MaxAsked = 0
  MaxGrants = 1
  MaxTokens = 2
CHECK_DEADLOCK FALSE
INVARIANTS
  InPlace
