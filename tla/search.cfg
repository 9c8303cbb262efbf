SPECIFICATION Spec
CONSTANTS
  n = n a = a b = b c = c d = d
  i1 = i1 i2 = i2 i3 = i3 i4 = i4 i5 = i5
  Requests <- SmallRequests
  Cov <- SmallCov
  Hyps <- AllHyps
  Ids <- FiveIds
  StackSizes = {1, 6}
  Expansions = {1, 2}
  G_EPSILON <- SmallG
  FLT_MAX = 1000
  MAX_SENTENCE_LENGTH_ALLOWED = 3
  MAX_NUM_OF_ITER = 20
SYMMETRY IdSymmetry
INVARIANTS TypeOK ResultIsOptimal BeamFindsTranslation GraphHoldsSearch IterationsBounded
