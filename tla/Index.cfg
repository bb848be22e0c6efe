SPECIFICATION Spec
CONSTANTS
  c1 = c1
  c2 = c2
  Conns = {c1, c2}
  Home <- TwoRuns
  MaxRuns = 2
  MaxRequests = 2
  MaxWrites = 1
  MaxFiles = 2
  MaxFaults = 1
  MaxReads = 2
INVARIANTS
  IndexErrorsExplained
  IndexIsTrue
PROPERTIES
  RefreshNeverForgets
\* everything ends
CHECK_DEADLOCK FALSE
