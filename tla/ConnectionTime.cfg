SPECIFICATION FairSpec
CONSTANTS
  TLS = TRUE
  MaxConnectionBytes = 4
  MaxHeaderBytes = 1
  MaxBodyBytes = 1
  MaxResponseBytes = 2
  MaxRequestsPerConnection = 2
  MaxPostFailureCaptureBytes = 2
  HeaderReadSlack = 1
  BufferSize = 2
  CaptureSize = 1
  InterimSize = 1
  HandshakeTimeout = 1
  IdleTimeout = 2
  HeaderTimeout = 1
  BodyTimeout = 1
  WriteTimeout = 2
  MaxStream = 2
  PostFailureTimeout = 2
  MaxLifetime = 4
  MaxTime = 6
INVARIANTS
  CloseIsExplained
  NeverPastLifetime
\* the handler returns
CHECK_DEADLOCK FALSE
PROPERTIES
  HandlerEnds
