SPECIFICATION Spec
CONSTANTS
  Vertex = {v1, v2, v3, v4, v5}
  NoVertex = NoVertex
SYMMETRY VertexSymmetry
INVARIANTS
  ToursAreTours
  SketchesStay
PROPERTY KeepsForest
