SPECIFICATION Spec
CONSTANTS
  N = 2
  Vertex <- MCVertex
  NumTiers <- MCNumTiers
  Seeds <- PerfectSeeds
  Samples <- AnySample
INVARIANT AnswersExact
