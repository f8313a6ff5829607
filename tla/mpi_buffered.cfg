SPECIFICATION Spec
CONSTANTS
  N = 3
  Vertex <- MCVertex
  NumTiers = 3
  BatchSize = 2
  Buffered = TRUE
  StreamPairs <- TrianglePairs
  Seeds <- TriangleSeeds
  Samples <- LossySample
INVARIANTS
  TypeOK
  CollectivesMatch
  NothingLeftOver
  SketchesAgree
  SpanningForest
  NoIsolation
  SoundAnswers
