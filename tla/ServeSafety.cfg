SPECIFICATION Spec
CONSTANTS
  a = a
  b = b
  c1 = c1
  c2 = c2
  Services = {a, b}
  TLSServices = {b}
  Conns = {c1, c2}
  Home <- TwoHomes
  NoConn = none
  MaxTotal = 1
  MaxPerService = 1
  MaxRounds = 1
INVARIANTS
  QuietAfterWait
  ServesUnderLease
  LeavesNothingOpen
  NoHandlerMissed
  OpenRecordsAreClosed
  NilMeansIntact
