SPECIFICATION Spec
CONSTANTS
  N = 3
  Vertex <- MCVertex
  NumTiers = 4
  BatchSize = 2
  Buffered = FALSE
  StreamPairs <- PathPairs
  Seeds <- PerfectSeeds
  Samples <- AnySample
PROPERTY CallsReturn
