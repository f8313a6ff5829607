SPECIFICATION Spec
CONSTANTS
  N = 4
  Vertex <- MCVertex
  NumTiers = 3
  BatchSize = 2
  Buffered = FALSE
  StreamPairs <- PawPairs
  Seeds <- PerfectSeeds
  Samples <- AnySample
INVARIANT ForestsAgree
PROPERTY KeepsPromise
