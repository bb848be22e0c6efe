SPECIFICATION Spec
CONSTANTS
  TLS = FALSE
  MaxConnectionBytes = 7
  MaxHeaderBytes = 2
  MaxBodyBytes = 1
  MaxResponseBytes = 2
  MaxRequestsPerConnection = 2
  MaxPostFailureCaptureBytes = 2
  HeaderReadSlack = 1
  BufferSize = 2
  CaptureSize = 2
  InterimSize = 1
  HandshakeTimeout = 2
  IdleTimeout = 1
  HeaderTimeout = 1
  BodyTimeout = 1
  WriteTimeout = 1
  MaxStream = 1
  PostFailureTimeout = 1
  MaxLifetime = 1
  MaxTime = 2
INVARIANTS
  RequestRangesExact
  RequestsAreJournaled
  CompleteIsJournaled
  HeaderLimitExact
  LimitsHold
\* the handler returns
CHECK_DEADLOCK FALSE
