SPECIFICATION Spec
CONSTANTS
  SMALL_SCORE <- SmallScore
  UNLIMITED_DENSITY <- UnlimitedDensity
  LogWgps <- Wgps
  DISABLE_WORDGRAPH <- DisableWordgraph
  CoverageGraphs <- Coverage
  HitCost = 0
  InsCost = 1
  SubstCost = 1
  DelCost = 1
  WgWeight = 1
  EcmWeight = 1
  TranslatorOutputs <- Outputs
  WgFiles <- Files
  UserStrings <- Typed
  RejectedSets <- Rejected
  PredictedSuffixes <- Predicted
  MaxPrefix = 5
  MaxCalls = 3
INVARIANT CachesFitGraph
INVARIANT AnswerKeepsPrefix
PROPERTY IncrementalIsExact
