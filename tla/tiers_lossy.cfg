SPECIFICATION Spec
CONSTANTS
  N = 4
  Vertex <- MCVertex
  NumTiers <- MCNumTiers
  Seeds <- LossySeeds
  Samples <- LossySample
INVARIANTS
  TypeOK
  TiersAgree
  SpanningForest
  NoIsolation
  IsolationIsAhead
  SoundAnswers
