SPECIFICATION Spec
CONSTANTS
  t1 = t1 t2 = t2 t3 = t3 t4 = t4 t5 = t5
  u1 = u1 u2 = u2
  None = None
  Threads <- FiveThreads
  Users <- TwoUsers
  Ops <- CallerOps
  InitRets = {"THOT_OK"}
SYMMETRY Symmetry5
INVARIANTS TypeOK AtomicRunsAlone OneThreadPerUser ModelsStableInBody NoFreedUserInUse ReturnedHoldsNothing
PROPERTIES TablesNotMovedInUse ImplementsGate
CHECK_DEADLOCK FALSE
