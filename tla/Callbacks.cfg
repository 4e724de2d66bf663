SPECIFICATION MCSpec
CONSTANTS
  SearchVertices <- MCSearched
  SearchEdges <- MCSearchEdges
  Source <- MCSource
  Target <- MCTarget
  Searched <- MCSubgraphs
  NoVertex = NoVertex
  MaxRuns = 2
  MaxEvents = 4
  MaxDepth = 2
  Balanced = TRUE
  ObserverThrows = TRUE
  Vertices <- MCVertices
  EdgeEnds <- MCEdgeEnds
  FirstGraph <- MCFirstGraph
  Importable <- MCImportable
  Origin = 0
  Positions = {1}
  MaxChanges = 3
  AddressOrder <- MCAddressOrder
  MaxPlays = 1
INVARIANTS FindsReachable NearestFirst OrderKept EdgesFollowItems EdgesComeAfterSource
PROPERTIES SearchEnds LayoutSurvivesChange PlayShowsAll
CHECK_DEADLOCK FALSE
