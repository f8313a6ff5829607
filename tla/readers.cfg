SPECIFICATION FairSpec
CONSTANTS
  Reader = {r1, r2, r3}
  NumEdges = 5
  BufSize = 2
  ShortReads = FALSE
  MaxRequests = 2
INVARIANTS
  TypeOK
  OneHolder
PROPERTIES
  KeepsPromise
  ReadersStop
  StreamArrives
