SPECIFICATION BoundedSpec
CONSTANTS
  Vertex = {v1, v2, v3, v4}
  NoVertex = NoVertex
  Weight = {1, 2}
SYMMETRY VertexSymmetry
INVARIANTS
  TypeOK
  CachesAgree
  AggregateIsHeaviest
  RootsTell
  ComponentsFound
PROPERTY KeepsForest
