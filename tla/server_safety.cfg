SPECIFICATION ServerSpec
CONSTANTS
  c1 = c1 c2 = c2 c3 = c3
  u1 = u1 u2 = u2
  None = None
  Conns <- ThreeConns
  Threads <- ThreeCalls
  Users <- OneUser
  Requests <- FewRequests
  Ops <- FewOps
  InitRets = {"THOT_OK", "THOT_ERROR"}
SYMMETRY ServerSymmetry
INVARIANTS ServerTypeOK ThreadsAccounted QuietAtShutdown OpenSocketsOwned
PROPERTIES UsesDecoderProperly
CHECK_DEADLOCK FALSE
