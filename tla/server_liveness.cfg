SPECIFICATION FairServerSpec
CONSTANTS
  c1 = c1 c2 = c2 c3 = c3
  u1 = u1 u2 = u2
  None = None
  Conns <- TwoConns
  Threads <- TwoCalls
  Users <- TwoUsers
  Requests <- SomeRequests
  Ops <- SomeOps
  InitRets = {"THOT_OK"}
PROPERTIES ServerStops RequestsEnd
CHECK_DEADLOCK FALSE
