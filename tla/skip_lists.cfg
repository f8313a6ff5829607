\* Two vertices with two elements each and one update, which waits in a node
\* until there are two.
SPECIFICATION BoundedSpec
CONSTANTS
  Vertex = {v1, v2}
  v1 = v1
  v2 = v2
  Degree = 2
  Update = {u1}
  u1 = u1
  None = None
  BufferCap = 2
  MaxHeight = 3
SYMMETRY VertexSymmetry
INVARIANTS
  NoLeak
  WellFormed
  TypeOK
  Covers
PROPERTY KeepsLists
