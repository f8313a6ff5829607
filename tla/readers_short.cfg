SPECIFICATION Spec
CONSTANTS
  Reader = {r1}
  NumEdges = 5
  BufSize = 3
  ShortReads = TRUE
  MaxRequests = 0
INVARIANT ReadsItsBlock
