SPECIFICATION Spec
CONSTANTS
  N = 5
  Vertex = {v1, v2, v3, v4, v5}
  NumTiers <- MCNumTiers
  Seeds <- PerfectSeeds
  Samples <- AnySample
SYMMETRY VertexSymmetry
PROPERTIES
  KeepsPromise
  RepairNeverDisconnects
  EvictedFromAbove
