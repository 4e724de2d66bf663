SPECIFICATION MCSpec
CONSTANTS
  Missing = Missing
  VertexTypes = {1, 2, 3, 4}
  EdgeTypes = {5, 6}
  Vertex = 1
  Edge = 5
  ClassParents <- MCClassParents
  Members = {1, 2}
  LabelMember = 2
  Programs <- MCPrograms
  Graphs <- MCGraphs
  Names <- MCNames
  Requested = {"UNKNOWN", "GEXF", "GRAPHML", "GRAPHVIZ"}
  MaxFiles = 1
  MaxNodes = 3
  Vertices <- MCVertices
  EdgeEnds <- MCEdgeEnds
  Labels = {1, 2}
  MaxEdits = 3
INVARIANTS OneMemberPerId MapsMatch WriterRendersOnce
PROPERTIES RoundTrip EdgesKeepTheirEnds
CHECK_DEADLOCK FALSE
