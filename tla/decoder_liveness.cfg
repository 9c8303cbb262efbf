SPECIFICATION FairSpec
CONSTANTS
  t1 = t1 t2 = t2 t3 = t3 t4 = t4 t5 = t5
  u1 = u1 u2 = u2
  None = None
  Threads <- FourThreads
  Users <- OneUser
  Ops <- DisciplineOps
  InitRets = {"THOT_OK"}
PROPERTIES CallsReturn
CHECK_DEADLOCK FALSE
