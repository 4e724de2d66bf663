SPECIFICATION PercSpec
CONSTANTS
  v1 = v1
  v2 = v2
  ab = ab
  ba = ba
  ab2 = ab2
  aa = aa
  Vertices <- MCVertices
  Edges <- MCEdges
  Source <- MCSource
  Target <- MCTarget
  VertexFilters <- MCVertexFilters
  EdgeFilters <- MCEdgeFilters
  NoVertex = NoVertex
  NoArc = NoArc
  MaxIds = 3
  RecyclesIds = FALSE
  RemovesEdgesFirst = FALSE
  ObserversThrow = FALSE
  MemberMaps = FALSE
PROPERTY KeepsUp
CHECK_DEADLOCK FALSE
