SPECIFICATION Spec
CONSTANTS
  SMALL_SCORE <- SmallScore
  UNLIMITED_DENSITY <- UnlimitedDensity
  Edges <- JoinedStates
  Scores <- ArcScores
  InitialScores <- StateScores
  LogThresholds <- Logs
  MaxArcs = 4
  Len4Nbest = {1, 3}
INVARIANT WgTypeOK
INVARIANT NbestIsBest
PROPERTY PruneKeepsGoodPaths
PROPERTY ReshapingKeepsTranslations
