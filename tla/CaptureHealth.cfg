SPECIFICATION Spec
CONSTANTS
  c1 = c1
  c2 = c2
  Clients = {c1, c2}
  SameConfig = {c1}
INVARIANTS
  NoOrphan
  LeasesClosedBeforeStop
PROPERTIES
  LossIsNoticed
  StopEnds
