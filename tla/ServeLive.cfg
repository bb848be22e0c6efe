SPECIFICATION Spec
CONSTANTS
  a = a
  b = b
  c1 = c1
  c2 = c2
  Services = {a}
  TLSServices = {a}
  Conns = {c1, c2}
  Home <- OneHome
  NoConn = none
  MaxTotal = 2
  MaxPerService = 1
  MaxRounds = 1
PROPERTIES
  LossClosesListeners
  StopEnds
INVARIANTS
  SlotsAccounted
