SPECIFICATION Spec
CONSTANTS
  None = None
  MaxStatic = 200
  LineSize = 8
  TextCap = 2
  MarkSize = 1
  ErrorSize = 2
  Candidates <- MCCandidates
  Requests <- MCRequests
  MaxAsked = 2
INVARIANTS
  
  RouteAnswersInOrder
  ClientReadsTheResponse
  EventKeepsTheMost
\* a connection ends, and a configuration may be rejected
CHECK_DEADLOCK FALSE
