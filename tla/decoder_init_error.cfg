SPECIFICATION Spec
CONSTANTS
  t1 = t1 t2 = t2 t3 = t3 t4 = t4 t5 = t5
  u1 = u1 u2 = u2
  None = None
  Threads <- FourThreads
  Users <- TwoUsers
  Ops <- CallerOps
  InitRets = {"THOT_OK", "THOT_ERROR"}
SYMMETRY Symmetry4
INVARIANTS ReturnedHoldsNothing
CHECK_DEADLOCK FALSE
