SPECIFICATION Spec
CONSTANTS
  c1 = c1
  c2 = c2
  Conns = {c1, c2}
  Closer = closer
  NoOne = none
  FileHeaderSize = 1
  RecordHeaderSize = 1
  MaxDataPayload = 2
  RotateSize = 6
  RotateAge = FALSE
  MetaSizes = {0}
  DataSizes = {0, 3}
  MaxCalls = 2
INVARIANTS
  EarlierFilesParse
  NewestFileParses
  WrittenExactly
  FileSizeBounded
  CloseNilIsDurable
PROPERTIES
  ImplementsJournal
  ErrorFreezes
  EveryCallReturns
