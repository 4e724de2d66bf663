SPECIFICATION FairSpec
CONSTANTS
  v1 = v1
  v2 = v2
  ab = ab
  ba = ba
  e3 = e3
  Vertices <- MCVertices
  Edges <- MCEdges
  Source <- MCSource
  Target <- MCTarget
  NoVertex = NoVertex
  NoArc = NoArc
  MaxIds = 3
  RecyclesIds = TRUE
  RemovesEdgesFirst = TRUE
  ObserversThrow = TRUE
INVARIANTS EndpointsContained NeverUndefined
PROPERTY CallsEnd
