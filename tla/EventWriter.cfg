SPECIFICATION Spec
CONSTANTS
  c1 = c1
  c2 = c2
  Conns = {c1, c2}
  Closer = closer
  NoOne = none
  EventSizes = {1, 2, 3}
  MaxEventBytes = 2
  RotateSize = 3
  RotateAge = TRUE
  MaxEmits = 3
INVARIANTS
  EarlierFilesWhole
  EventsPrefix
  NothingLostSilently
  CloseNilIsDurable
