SPECIFICATION Spec
CONSTANTS
  s1 = s1 s2 = s2 s3 = s3
  i1 = i1 i2 = i2 i3 = i3 i4 = i4 i5 = i5
  Ids <- FiveIds
  Hyps <- FewHyps
  StackSizes = {0, 1, 2}
SYMMETRY IdSymmetry
INVARIANTS TypeOK SortedAreNonEmpty SizeRespected NoDanglingIterator DictDominates Recombines
PROPERTIES BestKept ImplementsBeam
