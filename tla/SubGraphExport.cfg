SPECIFICATION PercSpec
CONSTANTS
  v1 = v1
  v2 = v2
  ab = ab
  ba = ba
  ab2 = ab2
  aa = aa
  Vertices <- MCVertices
  Edges <- MCAllEdges
  Source <- MCAllSource
  Target <- MCAllTarget
  VertexFilters <- MCVertexFilters
  EdgeFilters <- MCEdgeFilters
  NoVertex = NoVertex
  NoArc = NoArc
  MaxIds = 3
  RecyclesIds = TRUE
  RemovesEdgesFirst = TRUE
  ObserversThrow = FALSE
  MemberMaps = TRUE
INVARIANT ExportIsView
