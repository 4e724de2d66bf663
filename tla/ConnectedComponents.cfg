SPECIFICATION MCSpec
CONSTANTS
  Vertices <- MCVertices
  Edges <- MCEdges
  Source <- MCSource
  Target <- MCTarget
  MaxRuns = 2
  MaxEdits = 1
  N = 4
  Arcs <- MCArcs
  ArcSource <- MCArcSource
  ArcTarget <- MCArcTarget
  Weights <- MCWeights
  Infinity = Infinity
  GraphEdges <- MCGraphEdges
  From <- MCFrom
  To <- MCTo
  EdgeWeights <- MCEdgeWeights
  InitialVolumes <- MCInitialVolumes
  Thousandths <- MCThousandths
  FilterItems = {f1, f2, f3}
  BoostVertices = {"a", "b", "c"}
  BoostEnds <- MCBoostEnds
  NullVertex = NullVertex
  MaxIds = 3
  SnapVertices = {"a", "b"}
  SnapEnds <- MCSnapEnds
  MaxNodeIds = 3
  MaxEdgeIds = 4
  Applies <- MCApplies
  MaxFilters = 3
  LinkedVertices = {"a", "b", "c"}
  MaxLinkings = 3
  MaxNodes = 4
  MaxLinks = 3
  MaxObjects = 4
  MaxRenamed = 1
  Weighted = {2, 4}
  DrawIds = {1, 2, 3}
  Densities = {0, 1, 3}
  Parts = 3
INVARIANT VerticesKnowTheirComponent
CHECK_DEADLOCK FALSE
SYMMETRY MCSymmetry
