SPECIFICATION Spec
CONSTANTS
  Procs = {p1, p2}
  Initially <- Files
  MaxAsked = 2
  MaxGrants = 2
  MaxTokens = 3
SYMMETRY Symmetry
CHECK_DEADLOCK FALSE
INVARIANTS
  LoginsKept
  CodeMatches
